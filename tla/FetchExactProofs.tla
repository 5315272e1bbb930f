-------------------------- MODULE FetchExactProofs --------------------------
(***************************************************************************)
(* Proofs about FetchExact, for a file of any length, any list of          *)
(* candidate URLs and any number of failures of the upstream and faults.   *)
(*                                                                         *)
(* OnlyPinnedBytes and BlameIsUpstreams say the same of both outcomes of   *)
(* the digest: it was computed over the bytes that are in the file.  A     *)
(* partial outlives calls, responses and candidates, so the invariant has  *)
(* to say what its length and its sidecar are at every step that reads     *)
(* them later: `already` is measured once for all candidates.              *)
(***************************************************************************)
EXTENDS FetchExact, SequenceTheorems, TLAPS

\* The first candidate finds the partial as long as fetch_exact measured it; a
\* later one finds a sidecar, if any, of a candidate before it.
Measured == pc = "candidate" /\ already # 0 =>
              \/ k = 1 /\ part # NoFile /\ Len(part) = already
              \/ k > 1 /\ side.url # url

\* From its request on, the sidecar is this candidate's or an earlier one's.
SideTried == pc \notin {"idle", "candidate"} /\ already # 0 =>
               side.url \in {NoUrl} \union {Candidates[j] : j \in 1..k}

\* The offset asked for, until the file is cut there, is the partial's length.
Resuming == pc \in {"connect", "file"} /\ start > 0 => part # NoFile /\ Len(part) = start

\* The digest has been fed what the file holds.
Hashed == pc \in {"read", "verify"} => part # NoFile /\ fed = part
Whole == pc = "verify" => Len(part) = Blocks

\* The sidecar is written for a partial that can be resumed, by its own URL.
Keeping == /\ pc \in {"keep", "name"} => part # NoFile /\ Len(part) < Blocks
           /\ pc = "failed" /\ kind = "cancelled" =>
                part # NoFile /\ Len(part) < Blocks /\ side.url = url

\* What an interrupted call left stays, with the first candidate's sidecar, and is
\* what the next call measures and asks past.
Owing ==
  owed > 0 =>
    /\ pc \in {"failed", "idle", "candidate", "connect"} /\ k = 1
    /\ part # NoFile /\ Len(part) = owed /\ owed < Blocks
    /\ side.url = Candidates[1]
    /\ pc = "candidate" => already = owed
    /\ pc = "connect" => start = owed

\* Bytes of another version came from the upstream.
BadIsTainted == part # NoFile /\ (\E n \in 1..Len(part) : part[n] = "bad") => tainted

\* The inductive invariant.
Inv == /\ TypeOK /\ already < Blocks
       /\ Measured /\ SideTried /\ Resuming /\ Hashed /\ Whole /\ Keeping
       /\ Owing /\ BadIsTainted /\ BlameIsUpstreams /\ OnlyPinnedBytes
-----------------------------------------------------------------------------
(* Files: sequences of at most Blocks versions.                            *)

\* The files of at most Blocks versions, as sequences.
LEMMA Files ==
  \A f : f \in FileOf(Blocks) <=> f \in Seq(Version) /\ Len(f) <= Blocks
<1>1. ASSUME NEW f \in FileOf(Blocks) PROVE f \in Seq(Version) /\ Len(f) <= Blocks
  <2>1. PICK m \in 0..Blocks : f \in [1..m -> Version]
    BY DEF FileOf
  <2>2. m \in Nat /\ m <= Blocks
    BY <2>1, FileAssumption
  <2>3. f \in Seq(Version)
    BY <2>1, <2>2, SeqDef
  <2>4. Len(f) = m
    BY <2>1, <2>2, <2>3, LenProperties
  <2>. QED  BY <2>2, <2>3, <2>4
<1>2. ASSUME NEW f \in Seq(Version), Len(f) <= Blocks PROVE f \in FileOf(Blocks)
  <2>1. Len(f) \in 0..Blocks /\ f \in [1..Len(f) -> Version]
    BY <1>2, FileAssumption, LenProperties
  <2>. QED  BY <2>1 DEF FileOf
<1>. QED  BY <1>1, <1>2

\* The partial as it grows, is cut, or is dropped.
LEMMA FileChanges ==
  /\ <<>> \in FileOf(Blocks) /\ Len(<<>>) = 0
  /\ \A f \in FileOf(Blocks) : Len(f) \in 0..Blocks /\ f # NoFile
  /\ \A f \in FileOf(Blocks), v \in Version :
       Len(f) < Blocks => Append(f, v) \in FileOf(Blocks)
  /\ \A f \in FileOf(Blocks), n \in Nat :
       n <= Len(f) => SubSeq(f, 1, n) \in FileOf(Blocks) /\ Len(SubSeq(f, 1, n)) = n
<1>1. <<>> \in FileOf(Blocks) /\ Len(<<>>) = 0
  <2>1. <<>> \in Seq(Version) /\ Len(<<>>) = 0
    BY EmptySeq
  <2>2. 0 <= Blocks
    BY FileAssumption
  <2>3. <<>> \in FileOf(Blocks) <=> <<>> \in Seq(Version) /\ Len(<<>>) <= Blocks
    BY Files, Zenon
  <2>. QED  BY <2>1, <2>2, <2>3
<1>2. ASSUME NEW f \in FileOf(Blocks) PROVE Len(f) \in 0..Blocks /\ f # NoFile
  BY Files, LenProperties, NoFileAssumption, FileAssumption
<1>3. ASSUME NEW f \in FileOf(Blocks), NEW v \in Version, Len(f) < Blocks
      PROVE  Append(f, v) \in FileOf(Blocks)
  <2>1. f \in Seq(Version) /\ Len(f) \in Nat
    BY Files, LenProperties
  <2>2. Append(f, v) \in Seq(Version) /\ Len(Append(f, v)) = Len(f) + 1
    BY <2>1, AppendProperties
  <2>3. Len(Append(f, v)) <= Blocks
    BY <1>3, <2>1, <2>2, FileAssumption
  <2>. QED  BY <2>2, <2>3, Files, Zenon
<1>4. ASSUME NEW f \in FileOf(Blocks), NEW n \in Nat, n <= Len(f)
      PROVE  SubSeq(f, 1, n) \in FileOf(Blocks) /\ Len(SubSeq(f, 1, n)) = n
  <2>1. f \in Seq(Version) /\ Len(f) <= Blocks /\ Len(f) \in Nat
    BY Files, LenProperties
  <2>2. \A i \in 1..n : f[i] \in Version
    BY <1>4, <2>1, ElementOfSeq
  <2>3. SubSeq(f, 1, n) \in Seq(Version) /\ Len(SubSeq(f, 1, n)) = n
    BY <1>4, <2>2, SubSeqProperties
  <2>4. Len(SubSeq(f, 1, n)) <= Blocks
    BY <1>4, <2>1, <2>3, FileAssumption
  <2>. QED  BY <2>3, <2>4, Files, Zenon
<1>. QED  BY <1>1, <1>2, <1>3, <1>4

\* A file that holds another version's block somewhere.
Mixed(f) == \E n \in 1..Len(f) : f[n] = "bad"

\* A file gets a bad block only by appending one, and a full one without is the
\* pinned file.
LEMMA MixedChanges ==
  /\ ~Mixed(<<>>)
  /\ \A f \in FileOf(Blocks), v \in Version :
       Mixed(Append(f, v)) => Mixed(f) \/ v = "bad"
  /\ \A f \in FileOf(Blocks), n \in Nat : n <= Len(f) /\ Mixed(SubSeq(f, 1, n)) => Mixed(f)
  /\ \A f \in FileOf(Blocks) : Len(f) = Blocks /\ ~Mixed(f) => f = Pinned
<1>1. ~Mixed(<<>>)
  BY EmptySeq DEF Mixed
<1>2. ASSUME NEW f \in FileOf(Blocks), NEW v \in Version, Mixed(Append(f, v))
      PROVE  Mixed(f) \/ v = "bad"
  <2>1. f \in Seq(Version) /\ Len(f) \in Nat
    BY Files, LenProperties
  <2>2. PICK n \in 1..Len(Append(f, v)) : Append(f, v)[n] = "bad"
    BY <1>2 DEF Mixed
  <2>3. (n \in 1..Len(f) /\ f[n] = "bad") \/ v = "bad"
    BY <2>1, <2>2, AppendProperties
  <2>. QED  BY <2>3 DEF Mixed
<1>3. ASSUME NEW f \in FileOf(Blocks), NEW n \in Nat, n <= Len(f), Mixed(SubSeq(f, 1, n))
      PROVE  Mixed(f)
  <2>1. f \in Seq(Version) /\ Len(f) \in Nat /\ Len(SubSeq(f, 1, n)) = n
    BY <1>3, Files, LenProperties, FileChanges
  <2>2. \A i \in 1..n : f[i] \in Version
    BY <1>3, <2>1, ElementOfSeq
  <2>3. \A i \in 1..n : SubSeq(f, 1, n)[i] = f[i]
    <3>1. \A i \in 1..n - 1 + 1 : SubSeq(f, 1, n)[i] = f[1 + i - 1]
      BY <2>2, SubSeqProperties
    <3>. QED  BY <3>1
  <2>4. PICK i \in 1..n : SubSeq(f, 1, n)[i] = "bad"
    BY <1>3, <2>1 DEF Mixed
  <2>. QED  BY <1>3, <2>1, <2>3, <2>4 DEF Mixed
<1>4. ASSUME NEW f \in FileOf(Blocks), Len(f) = Blocks, ~Mixed(f) PROVE f = Pinned
  <2>1. f \in [1..Blocks -> Version]
    BY <1>4, Files, LenProperties
  <2>2. \A n \in 1..Blocks : f[n] = "good"
    BY <1>4, <2>1 DEF Mixed, Version
  <2>. QED  BY <2>1, <2>2 DEF Pinned
<1>. QED  BY <1>1, <1>2, <1>3, <1>4

\* The pinned file is a file, without a bad block.
LEMMA PinnedFile == Pinned \in FileOf(Blocks) /\ ~Mixed(Pinned)
  BY FileAssumption DEF Pinned, FileOf, Mixed, Version
-----------------------------------------------------------------------------
(* Type correctness.  It rests on the invariant: the next block fits only  *)
(* because the partial is there, and an offset only because it is its end. *)

\* There is a first candidate, and each is a URL.
LEMMA Urls ==
  /\ Len(Candidates) \in Nat \ {0} /\ DOMAIN Candidates = 1..Len(Candidates)
  /\ \A j \in DOMAIN Candidates : Candidates[j] \in Url /\ Candidates[j] # NoUrl
<1>1. Len(Candidates) \in Nat \ {0} /\ DOMAIN Candidates = 1..Len(Candidates)
  BY ListAssumption, EmptySeq, LenProperties
<1>. QED  BY <1>1, FileAssumption DEF Url

Sidecars == [url : Url \union {NoUrl}, tag : Version \union {NoTag}]
Upstreams == [ver : [Url -> Version], tags : BOOLEAN, ranges : BOOLEAN]

\* The sidecars that are written and read, and what an upstream serves.
LEMMA Sides ==
  /\ NoSidecar \in Sidecars /\ NoSidecar.url = NoUrl
  /\ \A u \in Url, t \in Version \union {NoTag} :
       [url |-> u, tag |-> t] \in Sidecars /\ [url |-> u, tag |-> t].url = u
  /\ \A s \in Sidecars : s.tag \in Version \union {NoTag}
  /\ \A s \in Upstreams : \A u \in Url : s.ver[u] \in Version
  BY DEF Sidecars, Upstreams, NoSidecar

\* The variables have their types before the first call,
LEMMA TypeOKInit == Init => TypeOK
<1>. SUFFICES ASSUME Init
              PROVE  TypeOK
  OBVIOUS
<1>1. side \in [url : Url \union {NoUrl}, tag : Version \union {NoTag}]
  BY Sides DEF Init, Sidecars
<1>2. fed \in FileOf(Blocks)
  BY FileChanges DEF Init
<1>3. k \in DOMAIN Candidates
  BY Urls DEF Init
<1>4. {tmp, stalled, tainted, hurt} \subseteq BOOLEAN
  BY DEF Init
<1>. QED
  BY <1>1, <1>2, <1>3, <1>4, FileAssumption, BoundAssumption DEF Init, TypeOK, Version

\* What is lost of a partial leaves a shorter one.
LEMMA CutFile ==
  ASSUME TypeOK, Hashed, Cut
  PROVE  /\ part' \in FileOf(Blocks) \union {NoFile}
         /\ part' # NoFile => part # NoFile /\ (Mixed(part') => Mixed(part))
<1>1. CASE part' = part
  BY <1>1 DEF TypeOK
<1>2. CASE \E n \in start..Len(part) : pc \in {"read", "verify"} /\ part' = SubSeq(part, 1, n)
  <2>1. part \in FileOf(Blocks) /\ start \in Nat
    BY <1>2, FileAssumption DEF TypeOK, Hashed
  <2>2. Len(part) \in Nat /\ part # NoFile
    BY <2>1, FileChanges, FileAssumption
  <2>3. PICK n \in Nat : n <= Len(part) /\ part' = SubSeq(part, 1, n)
    BY <1>2, <2>1, <2>2
  <2>. QED  BY <2>1, <2>2, <2>3, FileChanges, MixedChanges
<1>. QED  BY <1>1, <1>2 DEF Cut

\* and every step keeps them.
LEMMA TypeOKNext == Inv /\ [Next]_vars => TypeOK'
<1>. SUFFICES ASSUME Inv, [Next]_vars
              PROVE  TypeOK'
  OBVIOUS
<1>0. TypeOK /\ already < Blocks /\ Resuming /\ Hashed /\ Whole /\ Keeping /\ OnlyPinnedBytes
  BY DEF Inv
<1>. USE <1>0, FileAssumption, BoundAssumption
     DEF TypeOK, disk, request, history, bounds, Trouble, Fault, Fail, FailKeeping, End,
         DeletePartial, Kinds
<1>1. CASE Call
  <2>1. part' \in FileOf(Blocks) \union {NoFile} /\ already' \in 0..Blocks
    BY <1>1, FileChanges DEF Call
  <2>2. side' \in [url : Url \union {NoUrl}, tag : Version \union {NoTag}]
    BY <1>1, Sides DEF Call, Sidecars
  <2>3. k' \in DOMAIN Candidates
    BY <1>1, Urls DEF Call
  <2>4. hurt' \in BOOLEAN
    BY <1>1 DEF Call
  <2>. QED  BY <1>1, <2>1, <2>2, <2>3, <2>4 DEF Call
<1>2. CASE StopBeforeRequest
  BY <1>2 DEF StopBeforeRequest
<1>3. CASE Prepare
  <2>1. side' \in [url : Url \union {NoUrl}, tag : Version \union {NoTag}]
    BY <1>3, Sides DEF Prepare, Sidecars
  <2>2. start' \in 0..Blocks - 1 /\ tag' \in Version \union {NoTag}
    BY <1>3, Sides DEF Prepare, Sidecars
  <2>. QED  BY <1>3, <2>1, <2>2 DEF Prepare
<1>4. CASE Connect
  <2>1. side' \in [url : Url \union {NoUrl}, tag : Version \union {NoTag}]
    BY <1>4, Sides DEF Connect, Sidecars
  <2>2. body' \in Version
    <3>1. url \in Url /\ upstream \in Upstreams
      BY Urls DEF url, Upstreams
    <3>. QED  BY <1>4, <3>1, Sides DEF Connect
  <2>3. start' \in 0..Blocks - 1
    BY <1>4 DEF Connect
  <2>4. stalled' \in BOOLEAN
    BY <1>4 DEF Connect
  <2>. QED  BY <1>4, <2>1, <2>2, <2>3, <2>4 DEF Connect
<1>5. CASE ConnectFails \/ ReadFails
  <2>1. side' \in [url : Url \union {NoUrl}, tag : Version \union {NoTag}]
    BY <1>5, Sides DEF ConnectFails, ReadFails, Sidecars
  <2>. QED  BY <1>5, <2>1 DEF ConnectFails, ReadFails
<1>6. CASE OpenFile
  <2>1. part' \in FileOf(Blocks) /\ fed' \in FileOf(Blocks)
    <3>1. CASE start = 0
      BY <1>6, <3>1, FileChanges DEF OpenFile
    <3>2. CASE start > 0
      <4>1. part \in FileOf(Blocks) /\ start \in Nat /\ start <= Len(part)
        BY <1>6, <3>2 DEF OpenFile, Resuming
      <4>2. fed' = part /\ part' = SubSeq(part, 1, start)
        BY <1>6, <3>2 DEF OpenFile
      <4>. QED  BY <4>1, <4>2, FileChanges
    <3>. QED  BY <3>1, <3>2
  <2>. QED  BY <1>6, <2>1 DEF OpenFile
<1>7. CASE ReadBlock
  <2>1. part' \in FileOf(Blocks) /\ fed' \in FileOf(Blocks)
    BY <1>7, FileChanges DEF ReadBlock, Hashed, Count
  <2>2. tainted' \in BOOLEAN
    BY <1>7 DEF ReadBlock
  <2>. QED  BY <1>7, <2>1, <2>2 DEF ReadBlock
<1>8. CASE StopReading \/ ReadAfterTimeout \/ ReadEnds
  BY <1>8 DEF StopReading, ReadAfterTimeout, ReadEnds
<1>9. CASE ReadTimesOut
  BY <1>9 DEF ReadTimesOut
<1>10. CASE Verify
  <2>1. side' \in [url : Url \union {NoUrl}, tag : Version \union {NoTag}]
    BY <1>10, Sides DEF Verify, Sidecars
  <2>2. dest' \in FileOf(Blocks) \union {NoFile}
    BY <1>10 DEF Verify
  <2>. QED  BY <1>10, <2>1, <2>2 DEF Verify
<1>11. CASE Clean
  <2>1. side' \in [url : Url \union {NoUrl}, tag : Version \union {NoTag}]
    BY <1>11, Sides DEF Clean, Sidecars
  <2>. QED  BY <1>11, <2>1 DEF Clean
<1>12. CASE NextCandidate
  <2>1. k' \in DOMAIN Candidates
    BY <1>12, Urls DEF NextCandidate
  <2>2. owed' \in 0..Blocks
    BY <1>12, FileChanges DEF NextCandidate, Keeping
  <2>. QED  BY <1>12, <2>1, <2>2 DEF NextCandidate
<1>13. CASE WriteSidecar
  <2>1. tmp' \in BOOLEAN /\ hurt' \in BOOLEAN
    BY <1>13 DEF WriteSidecar
  <2>. QED  BY <1>13, <2>1 DEF WriteSidecar
<1>14. CASE NameSidecar
  <2>1. side' \in [url : Url \union {NoUrl}, tag : Version \union {NoTag}]
    <3>1. url \in Url
      BY Urls DEF url
    <3>2. \E t \in Version \union {NoTag} : side' = [url |-> url, tag |-> t]
      BY <1>14 DEF NameSidecar
    <3>. QED  BY <3>1, <3>2, Sides DEF Sidecars
  <2>2. tmp' \in BOOLEAN
    BY <1>14 DEF NameSidecar
  <2>. QED  BY <1>14, <2>1, <2>2 DEF NameSidecar
<1>15. CASE Crash \/ DiskFails
  <2>1. part' \in FileOf(Blocks) \union {NoFile}
    BY <1>15, CutFile DEF Crash, DiskFails
  <2>2. hurt' \in BOOLEAN
    BY <1>15 DEF Crash, DiskFails
  <2>. QED  BY <1>15, <2>1, <2>2 DEF Crash, DiskFails
<1>16. CASE Change
  <2>1. PICK u \in Url, v \in Version : upstream' = [upstream EXCEPT !.ver[u] = v]
    BY <1>16 DEF Change
  <2>2. upstream' \in [ver : [Url -> Version], tags : BOOLEAN, ranges : BOOLEAN]
    BY <2>1
  <2>. QED  BY <1>16, <2>2 DEF Change
<1>17. CASE Finished \/ UNCHANGED vars
  BY <1>17 DEF Finished, vars
<1>. QED
  BY <1>1, <1>2, <1>3, <1>4, <1>5, <1>6, <1>7, <1>8, <1>9, <1>10, <1>11, <1>12, <1>13,
     <1>14, <1>15, <1>16, <1>17 DEF Next, Progress, Disturbance
-----------------------------------------------------------------------------
(* The partial and its sidecar, from one candidate and one call to the     *)
(* next.                                                                   *)

\* The invariant holds before the first call.
LEMMA InvInit == Init => Inv
<1>. SUFFICES ASSUME Init
              PROVE  Inv
  OBVIOUS
<1>1. TypeOK
  BY TypeOKInit
<1>. QED
  BY <1>1, FileAssumption
     DEF Init, Inv, Measured, SideTried, Resuming, Hashed, Whole, Keeping, Owing,
         BadIsTainted, BlameIsUpstreams, OnlyPinnedBytes

\* `already`, measured once per call, is still the partial's length when the first
\* candidate uses it, and no later candidate resumes by it.
LEMMA MeasuredNext == Inv /\ [Next]_vars => Measured' /\ already' < Blocks
<1>. SUFFICES ASSUME Inv, [Next]_vars
              PROVE  Measured' /\ already' < Blocks
  OBVIOUS
<1>0. TypeOK /\ Measured /\ SideTried /\ already < Blocks
  BY DEF Inv
<1>. USE <1>0, FileAssumption
     DEF TypeOK, disk, request, history, Fail, FailKeeping, End, DeletePartial, Measured, url
<1>1. CASE Call
  BY <1>1, FileChanges DEF Call
<1>2. CASE NextCandidate
  <2>1. already' < Blocks
    BY <1>2 DEF NextCandidate
  <2>2. ASSUME pc' = "candidate", already' # 0 PROVE k' > 1 /\ side'.url # url'
    <3>1. k \in 1..Len(Candidates) - 1 /\ k' = k + 1 /\ side' = side
      BY <1>2, <2>2, Urls DEF NextCandidate
    <3>2. k' \in DOMAIN Candidates /\ Candidates[k'] # NoUrl
      BY <3>1, Urls
    <3>3. \A j \in 1..k : Candidates[j] # Candidates[k']
      BY <3>1, <3>2, Urls, DistinctAssumption
    <3>4. side.url \in {NoUrl} \union {Candidates[j] : j \in 1..k}
      BY <1>2, <2>2 DEF NextCandidate, SideTried
    <3>. QED  BY <3>1, <3>2, <3>3, <3>4
  <2>. QED  BY <2>1, <2>2
<1>3. CASE Prepare \/ Connect \/ OpenFile \/ ReadBlock \/ ReadAfterTimeout \/ ReadEnds
  BY <1>3 DEF Prepare, Connect, OpenFile, ReadBlock, ReadAfterTimeout, ReadEnds
<1>4. CASE Verify \/ Clean \/ WriteSidecar \/ NameSidecar
  BY <1>4 DEF Verify, Clean, WriteSidecar, NameSidecar
<1>5. CASE StopBeforeRequest \/ ConnectFails \/ StopReading \/ ReadTimesOut \/ ReadFails
  BY <1>5 DEF StopBeforeRequest, ConnectFails, StopReading, ReadTimesOut, ReadFails
<1>6. CASE Crash \/ DiskFails
  BY <1>6 DEF Crash, DiskFails
<1>7. CASE Change \/ Finished \/ UNCHANGED vars
  BY <1>7 DEF Change, Finished, vars
<1>. QED
  BY <1>1, <1>2, <1>3, <1>4, <1>5, <1>6, <1>7 DEF Next, Progress, Disturbance

\* The sidecar is kept, dropped, or becomes this candidate's.
LEMMA SideTriedNext == Inv /\ [Next]_vars => SideTried'
<1>. SUFFICES ASSUME Inv, [Next]_vars
              PROVE  SideTried'
  OBVIOUS
<1>0. TypeOK /\ Measured /\ SideTried /\ already < Blocks
  BY DEF Inv
<1>. USE <1>0 DEF disk, request, history, Fail, FailKeeping, End, DeletePartial
<1>1. CASE Prepare
  <2>1. CASE already \in 1..Blocks - 1 /\ side.url = url
    <3>1. k = 1 /\ side' = side /\ k' = k
      BY <1>1, <2>1 DEF Prepare, Measured
    <3>. QED  BY <2>1, <3>1 DEF SideTried, url
  <2>2. CASE already = 0
    BY <1>1, <2>2 DEF Prepare, SideTried
  <2>3. CASE side' = NoSidecar
    BY <2>3, Sides DEF SideTried
  <2>. QED  BY <1>1, <2>1, <2>2, <2>3, FileAssumption DEF Prepare, TypeOK
<1>2. CASE NameSidecar
  <2>1. side'.url = Candidates[k] /\ k' = k /\ k \in 1..k
    BY <1>2, Urls DEF NameSidecar, url, TypeOK
  <2>. QED  BY <2>1 DEF SideTried
<1>3. CASE Connect \/ OpenFile \/ ReadBlock \/ ReadAfterTimeout \/ ReadEnds \/ Verify
           \/ WriteSidecar \/ ConnectFails \/ StopReading \/ ReadTimesOut \/ ReadFails
  <2>1. pc \notin {"idle", "candidate"} /\ k' = k /\ already' = already
    BY <1>3 DEF Connect, OpenFile, ReadBlock, ReadAfterTimeout, ReadEnds, Verify, WriteSidecar,
                ConnectFails, StopReading, ReadTimesOut, ReadFails
  <2>2. side' \in {side, NoSidecar}
    BY <1>3 DEF Connect, OpenFile, ReadBlock, ReadAfterTimeout, ReadEnds, Verify, WriteSidecar,
                ConnectFails, StopReading, ReadTimesOut, ReadFails
  <2>. QED  BY <2>1, <2>2, Sides DEF SideTried
<1>4. CASE Call \/ NextCandidate \/ Clean \/ StopBeforeRequest \/ Crash \/ DiskFails
  <2>1. pc' \in {"idle", "candidate"}
    BY <1>4 DEF Call, NextCandidate, Clean, StopBeforeRequest, Crash, DiskFails
  <2>. QED  BY <2>1 DEF SideTried
<1>5. CASE Change \/ Finished \/ UNCHANGED vars
  BY <1>5 DEF Change, Finished, vars, SideTried
<1>. QED
  BY <1>1, <1>2, <1>3, <1>4, <1>5 DEF Next, Progress, Disturbance

\* From the request to the opening of the file the partial is as long as the
\* offset that was asked for.
LEMMA ResumingNext == Inv /\ [Next]_vars => Resuming'
<1>. SUFFICES ASSUME Inv, [Next]_vars
              PROVE  Resuming'
  OBVIOUS
<1>0. TypeOK /\ Measured /\ Resuming
  BY DEF Inv
<1>. USE <1>0 DEF disk, request, history, Fail, FailKeeping, End, DeletePartial, Resuming
<1>1. CASE Prepare
  BY <1>1 DEF Prepare, Measured
<1>2. CASE Connect
  BY <1>2 DEF Connect
<1>3. CASE Change \/ Finished \/ UNCHANGED vars
  BY <1>3 DEF Change, Finished, vars
<1>4. CASE ~(Prepare \/ Connect \/ Change \/ Finished \/ UNCHANGED vars)
  <2>1. pc' \notin {"connect", "file"}
    BY <1>4 DEF Next, Progress, Disturbance, Call, OpenFile, ReadBlock, ReadAfterTimeout, ReadEnds,
                Verify, Clean, NextCandidate, WriteSidecar, NameSidecar, StopBeforeRequest,
                ConnectFails, StopReading, ReadTimesOut, ReadFails, Crash, DiskFails
  <2>. QED  BY <2>1
<1>. QED  BY <1>1, <1>2, <1>3, <1>4

\* The digest is fed the bytes that are appended, and at its comparison all of the
\* file.
LEMMA HashedNext == Inv /\ [Next]_vars => Hashed' /\ Whole'
<1>. SUFFICES ASSUME Inv, [Next]_vars
              PROVE  Hashed' /\ Whole'
  OBVIOUS
<1>0. TypeOK /\ TypeOK' /\ Resuming /\ Hashed /\ Whole
  BY TypeOKNext DEF Inv
<1>. USE <1>0 DEF disk, request, history, Fail, FailKeeping, End, DeletePartial, Hashed, Whole
<1>1. CASE OpenFile
  <2>1. CASE start = 0
    <3>1. part' = <<>> /\ fed' = <<>> /\ pc' = "read"
      BY <1>1, <2>1 DEF OpenFile
    <3>. QED  BY <3>1, FileChanges
  <2>2. CASE start > 0
    <3>1. part \in FileOf(Blocks) /\ Len(part) = start
      BY <1>1, <2>2 DEF OpenFile, Resuming, TypeOK
    <3>2. part' = SubSeq(part, 1, Len(part)) /\ fed' = part /\ pc' = "read"
      BY <1>1, <2>2, <3>1 DEF OpenFile
    <3>3. part' = part /\ part # NoFile
      <4>1. part \in Seq(Version)
        BY <3>1, Files
      <4>. QED  BY <3>1, <3>2, <4>1, SubSeqFull, FileChanges
    <3>. QED  BY <3>2, <3>3
  <2>. QED  BY <1>1, <2>1, <2>2 DEF OpenFile
<1>2. CASE ReadBlock
  <2>1. part \in FileOf(Blocks) /\ body \in Version /\ Len(part) < Blocks
    BY <1>2 DEF ReadBlock, TypeOK, Count
  <2>2. Append(part, body) # NoFile
    BY <2>1, FileChanges
  <2>. QED  BY <1>2, <2>2 DEF ReadBlock
<1>3. CASE ReadEnds
  BY <1>3 DEF ReadEnds, Count
<1>4. CASE ReadTimesOut \/ Change \/ Finished \/ UNCHANGED vars
  BY <1>4 DEF ReadTimesOut, Change, Finished, vars
<1>5. CASE ~(OpenFile \/ ReadBlock \/ ReadEnds \/ ReadTimesOut \/ Change \/ Finished \/ UNCHANGED vars)
  <2>1. pc' \notin {"read", "verify"}
    BY <1>5 DEF Next, Progress, Disturbance, Call, Prepare, Connect, ReadAfterTimeout, Verify,
                Clean, NextCandidate, WriteSidecar, NameSidecar, StopBeforeRequest,
                ConnectFails, StopReading, ReadFails, Crash, DiskFails
  <2>. QED  BY <2>1
<1>. QED  BY <1>1, <1>2, <1>3, <1>4, <1>5

\* A partial on its way to its sidecar stays, and the sidecar is then its URL's.
LEMMA KeepingNext == Inv /\ [Next]_vars => Keeping'
<1>. SUFFICES ASSUME Inv, [Next]_vars
              PROVE  Keeping'
  OBVIOUS
<1>0. TypeOK /\ Hashed /\ Keeping
  BY DEF Inv
<1>. USE <1>0 DEF disk, request, history, Fail, FailKeeping, End, DeletePartial, Keeping
<1>1. CASE StopReading \/ ReadAfterTimeout \/ ReadFails
  BY <1>1 DEF StopReading, ReadAfterTimeout, ReadFails, Hashed, Count
<1>2. CASE WriteSidecar
  BY <1>2 DEF WriteSidecar
<1>3. CASE NameSidecar
  BY <1>3 DEF NameSidecar, url
<1>4. CASE Verify \/ ConnectFails
  <2>1. pc' \notin {"keep", "name"} /\ (pc' = "failed" => kind' # "cancelled")
    BY <1>4 DEF Verify, ConnectFails
  <2>. QED  BY <2>1
<1>5. CASE ReadTimesOut \/ Change \/ Finished \/ UNCHANGED vars
  BY <1>5 DEF ReadTimesOut, Change, Finished, vars, url
<1>6. CASE \/ Call \/ Prepare \/ Connect \/ OpenFile \/ ReadBlock \/ ReadEnds \/ Clean
           \/ NextCandidate \/ StopBeforeRequest \/ Crash \/ DiskFails
  <2>1. pc' \notin {"keep", "name", "failed"}
    BY <1>6 DEF Call, Prepare, Connect, OpenFile, ReadBlock, ReadEnds, Clean, NextCandidate,
                StopBeforeRequest, Crash, DiskFails
  <2>. QED  BY <2>1
<1>. QED
  BY <1>1, <1>2, <1>3, <1>4, <1>5, <1>6 DEF Next, Progress, Disturbance

\* A cancelled call owes what it left, and pays when it is asked past.
LEMMA OwingNext == Inv /\ [Next]_vars => Owing'
<1>. SUFFICES ASSUME Inv, [Next]_vars
              PROVE  Owing'
  OBVIOUS
<1>0. TypeOK /\ Keeping /\ Owing
  BY DEF Inv
<1>. USE <1>0 DEF disk, request, history, Fail, FailKeeping, End, DeletePartial
<1>1. CASE NextCandidate
  <2>1. CASE owed' = 0
    BY <2>1 DEF Owing
  <2>2. CASE kind = "cancelled" /\ k = 1 /\ owed' = Len(part)
    BY <1>1, <2>2 DEF NextCandidate, Keeping, Owing, url
  <2>3. CASE owed' = owed /\ k' = k /\ pc' = "idle"
    BY <1>1, <2>3 DEF NextCandidate, Owing
  <2>. QED  BY <1>1, <2>1, <2>2, <2>3 DEF NextCandidate
<1>2. CASE Call
  <2>1. CASE owed = 0
    BY <1>2, <2>1 DEF Call, Owing
  <2>2. CASE owed > 0
    <3>1. part # NoFile /\ Len(part) = owed /\ owed < Blocks /\ side.url = Candidates[1]
      BY <2>2 DEF Owing
    <3>2. already' = Len(part) /\ part' = part /\ side' = side /\ k' = 1
          /\ owed' = owed /\ pc' = "candidate"
      BY <1>2, <2>2, <3>1, FileAssumption DEF Call, TypeOK
    <3>. QED  BY <3>1, <3>2 DEF Owing
  <2>. QED  BY <2>1, <2>2 DEF TypeOK
<1>3. CASE Prepare
  <2>1. CASE owed = 0
    BY <1>3, <2>1 DEF Prepare, Owing
  <2>2. CASE owed > 0
    <3>1. /\ k = 1 /\ part # NoFile /\ Len(part) = owed /\ owed < Blocks
          /\ side.url = url /\ already = owed
      BY <1>3, <2>2 DEF Prepare, Owing, url
    <3>2. already \in 1..Blocks - 1
      BY <2>2, <3>1, FileAssumption DEF TypeOK
    <3>3. start' = owed /\ part' = part /\ side' = side /\ k' = 1 /\ owed' = owed
          /\ pc' = "connect"
      BY <1>3, <3>1, <3>2 DEF Prepare
    <3>. QED  BY <3>1, <3>3 DEF Owing, url
  <2>. QED  BY <2>1, <2>2 DEF TypeOK
<1>4. CASE Connect \/ ConnectFails
  <2>1. owed' = 0 \/ (owed' = owed /\ pc' = "failed" /\ k' = k /\ part' = part /\ side' = side)
    BY <1>4 DEF Connect, ConnectFails
  <2>. QED  BY <1>4, <2>1 DEF Connect, ConnectFails, Owing
<1>5. CASE StopBeforeRequest \/ Crash
  <2>1. CASE owed = 0
    BY <1>5, <2>1 DEF StopBeforeRequest, Crash, Owing
  <2>2. CASE owed > 0
    <3>1. part' = part /\ side' = side /\ k' = k /\ owed' = owed /\ pc' = "idle"
      BY <1>5, <2>2 DEF StopBeforeRequest, Crash, Owing, Cut
    <3>. QED  BY <2>2, <3>1 DEF Owing
  <2>. QED  BY <2>1, <2>2 DEF TypeOK
<1>6. CASE Change \/ Finished \/ UNCHANGED vars
  BY <1>6 DEF Change, Finished, vars, Owing
<1>7. CASE \/ OpenFile \/ ReadBlock \/ ReadAfterTimeout \/ ReadEnds \/ Verify \/ Clean
           \/ WriteSidecar \/ NameSidecar \/ StopReading \/ ReadTimesOut \/ ReadFails
           \/ DiskFails
  <2>1. pc \notin {"failed", "idle", "candidate", "connect"} /\ owed' = owed
    BY <1>7 DEF OpenFile, ReadBlock, ReadAfterTimeout, ReadEnds, Verify, Clean, WriteSidecar,
                NameSidecar, StopReading, ReadTimesOut, ReadFails, DiskFails
  <2>. QED  BY <2>1 DEF Owing
<1>. QED
  BY <1>1, <1>2, <1>3, <1>4, <1>5, <1>6, <1>7 DEF Next, Progress, Disturbance

\* Every block of the partial came from some response.
LEMMA BadIsTaintedNext == Inv /\ [Next]_vars => BadIsTainted'
<1>. SUFFICES ASSUME Inv, [Next]_vars, part' # NoFile, Mixed(part')
              PROVE  tainted'
  BY DEF BadIsTainted, Mixed
<1>0. TypeOK /\ Hashed /\ Resuming /\ (part # NoFile /\ Mixed(part) => tainted)
  BY DEF Inv, BadIsTainted, Mixed
<1>. USE <1>0 DEF disk, request, history, DeletePartial
<1>1. CASE ReadBlock
  <2>1. /\ part \in FileOf(Blocks) /\ part # NoFile /\ body \in Version
        /\ part' = Append(part, body) /\ tainted' = (tainted \/ body = "bad")
    BY <1>1 DEF ReadBlock, Hashed, TypeOK
  <2>2. Mixed(part) \/ body = "bad"
    BY <2>1, MixedChanges
  <2>. QED  BY <2>1, <2>2
<1>2. CASE OpenFile
  <2>1. CASE start = 0
    BY <1>2, <2>1, MixedChanges DEF OpenFile
  <2>2. CASE start > 0
    <3>1. /\ part \in FileOf(Blocks) /\ part # NoFile /\ start \in Nat /\ start <= Len(part)
          /\ part' = SubSeq(part, 1, start) /\ tainted' = tainted
      BY <1>2, <2>2, FileAssumption DEF OpenFile, Resuming, TypeOK
    <3>2. Mixed(part)
      BY <3>1, MixedChanges
    <3>. QED  BY <3>1, <3>2
  <2>. QED  BY <1>2, <2>1, <2>2 DEF OpenFile
<1>3. CASE Crash \/ DiskFails
  <2>1. part # NoFile /\ Mixed(part) /\ tainted' = tainted
    BY <1>3, CutFile DEF Crash, DiskFails
  <2>. QED  BY <2>1
<1>4. CASE ~(ReadBlock \/ OpenFile \/ Crash \/ DiskFails)
  <2>1. part' \in {part, NoFile} /\ tainted' = tainted
    BY <1>4 DEF Next, Progress, Disturbance, Call, Prepare, Connect, ReadAfterTimeout, ReadEnds,
                Verify, Clean, NextCandidate, WriteSidecar, NameSidecar, StopBeforeRequest,
                ConnectFails, StopReading, ReadTimesOut, ReadFails, Change, Finished, vars
  <2>. QED  BY <2>1
<1>. QED  BY <1>1, <1>2, <1>3, <1>4

\* Of what has been read whole, the digest tells.
LEMMA VerifyPinned ==
  ASSUME Inv, pc = "verify"
  PROVE  part # NoFile /\ fed = part /\ (fed # Pinned => tainted)
<1>1. part \in FileOf(Blocks) /\ fed = part /\ Len(part) = Blocks /\ part # NoFile
  BY DEF Inv, TypeOK, Hashed, Whole
<1>2. Mixed(part) => tainted
  BY <1>1 DEF Inv, BadIsTainted, Mixed
<1>. QED  BY <1>1, <1>2, MixedChanges

\* A mismatch is reported only if the upstream sent something else.
LEMMA BlameNext == Inv /\ [Next]_vars => BlameIsUpstreams'
<1>. SUFFICES ASSUME Inv, [Next]_vars
              PROVE  BlameIsUpstreams'
  OBVIOUS
<1>0. TypeOK /\ BlameIsUpstreams
  BY DEF Inv
<1>. USE <1>0 DEF Fail, FailKeeping, End, BlameIsUpstreams, history
<1>1. CASE Verify
  BY <1>1, VerifyPinned DEF Verify
<1>2. CASE ReadBlock
  BY <1>2 DEF ReadBlock
<1>3. CASE ~(Verify \/ ReadBlock)
  <2>1. /\ tainted' = tainted
        /\ kind' \in {kind, "none", "offline", "http-status", "size-mismatch", "cancelled"}
        /\ outcome' \in {outcome, kind, "none", "ok", "killed", "oserror", "cancelled", "no-space"}
    BY <1>3 DEF Next, Progress, Disturbance, Call, Prepare, Connect, OpenFile, ReadAfterTimeout,
                ReadEnds, Clean, NextCandidate, WriteSidecar, NameSidecar, StopBeforeRequest,
                ConnectFails, StopReading, ReadTimesOut, ReadFails, Crash, DiskFails, Change,
                Finished, vars
  <2>. QED  BY <2>1
<1>. QED  BY <1>1, <1>2, <1>3

\* What takes the destination's name passed the digest.
LEMMA OnlyPinnedNext == Inv /\ [Next]_vars => OnlyPinnedBytes'
<1>. SUFFICES ASSUME Inv, [Next]_vars
              PROVE  OnlyPinnedBytes'
  OBVIOUS
<1>0. OnlyPinnedBytes
  BY DEF Inv
<1>1. CASE Verify
  <2>1. dest' = dest \/ dest' = Pinned
    BY <1>1, VerifyPinned DEF Verify
  <2>. QED  BY <1>0, <2>1 DEF OnlyPinnedBytes, Pinned
<1>2. CASE ~Verify
  <2>1. dest' = dest \/ dest' = NoFile
    BY <1>2 DEF Next, Progress, Disturbance, Call, Prepare, Connect, OpenFile, ReadBlock,
                ReadAfterTimeout, ReadEnds, Clean, NextCandidate, WriteSidecar, NameSidecar,
                StopBeforeRequest, ConnectFails, StopReading, ReadTimesOut, ReadFails, Crash,
                DiskFails, Change, Finished, vars, disk
  <2>. QED  BY <1>0, <2>1 DEF OnlyPinnedBytes, Pinned
<1>. QED  BY <1>1, <1>2

\* Every step preserves the invariant,
LEMMA InvNext == Inv /\ [Next]_vars => Inv'
  BY TypeOKNext, MeasuredNext, SideTriedNext, ResumingNext, HashedNext, KeepingNext,
     OwingNext, BadIsTaintedNext, BlameNext, OnlyPinnedNext DEF Inv

\* which therefore always holds.
LEMMA Invariant == Spec => []Inv
  BY InvInit, InvNext, PTL DEF Spec
-----------------------------------------------------------------------------
(* What the invariant gives.                                               *)

\* The variables of the download keep their types; in particular the partial
\* never outgrows the file, and no request resumes at or past its end.
THEOREM TypeCorrect == Spec => []TypeOK
<1>1. Inv => TypeOK
  BY DEF Inv
<1>. QED  BY <1>1, Invariant, PTL

\* The destination holds nothing or the pinned bytes, whichever calls, candidates
\* and responses they were put together from.
THEOREM OnlyPinnedBytesHolds == Spec => []OnlyPinnedBytes
<1>1. Inv => OnlyPinnedBytes
  BY DEF Inv
<1>. QED  BY <1>1, Invariant, PTL

\* digest-mismatch is reported only when the upstream really sent another version.
THEOREM BlameIsUpstreamsHolds == Spec => []BlameIsUpstreams
<1>1. Inv => BlameIsUpstreams
  BY DEF Inv
<1>. QED  BY <1>1, Invariant, PTL

\* What a call interrupted at the first candidate left is where the next request
\* to it resumes, whichever calls ended before their request in between.
THEOREM InterruptionIsResumedHolds == Spec => []InterruptionIsResumed
<1>1. Inv => InterruptionIsResumed
  BY DEF Inv, Owing, InterruptionIsResumed
<1>. QED  BY <1>1, Invariant, PTL
=============================================================================
