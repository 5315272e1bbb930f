--------------------------- MODULE FirstUseProofs ---------------------------
(***************************************************************************)
(* Proofs about SuppliedFile alone and about FirstUse, which composes it   *)
(* with the catalog, for any files, blocks, contents, catalog versions and *)
(* numbers of calls, mishaps and changes.                                  *)
(*                                                                         *)
(* First, of SuppliedFile: a copy that passed revalidate() is the listed   *)
(* file, whatever is put at its path and if it is written to once.  Then,  *)
(* of FirstUse: each step of a call is a step of the supplied file or      *)
(* leaves it as it is, so what was proved of the file alone holds in the   *)
(* composition.  Last, what AgreeingInstalls rests on: which steps leave   *)
(* the owner file's temporary, and that a call which begins when all is    *)
(* calm takes a bounded number of steps and meets no error, unless such a  *)
(* temporary or other files are in its way.                                *)
(***************************************************************************)
EXTENDS FirstUse, SequenceTheorems, TLAPS

Held == data[held]
IsPrefixOf(p, s) == Len(p) <= Len(s) /\ \A k \in 1..Len(p) : p[k] = s[k]

Reading == {"hash", "copy", "recheck", "again", "good"}

Typed == /\ data \in [Inode -> Seq(Block)]
         /\ {pass, copy} \subseteq Seq(Block)
         /\ touched \in Nat
         /\ step \in Step
         /\ name \in Inode \union {Odd}
         /\ step \in Reading => held \in Inode

\* Nothing is known of a file before it is opened.
Fresh == step = "shut" => held = Odd /\ pass = <<>> /\ copy = <<>> /\ touched = 0

\* What is known in each pass over the held file, if it was not written to since
\* it was opened, or once.
Passes ==
  /\ step = "hash" => /\ copy = <<>>
                      /\ touched = 0 => IsPrefixOf(pass, Held)
  /\ step \in {"copy", "recheck", "again"} /\ touched = 0 => Held = Pinned
  /\ step = "copy" => /\ pass = copy
                      /\ touched <= 1 /\ Held = Pinned => IsPrefixOf(copy, Pinned)
  /\ step = "recheck" /\ touched <= 1 /\ Held = Pinned => copy = Pinned
  /\ step = "again" /\ touched <= 1 /\ copy # Pinned =>
       touched = 1 /\ Held # Pinned /\ IsPrefixOf(pass, Held)

\* The inductive invariant.
IInv == Typed /\ Fresh /\ Passes /\ RewriteDetected
-----------------------------------------------------------------------------
(* Prefixes.                                                               *)

\* A prefix that is not shorter is the whole.
LEMMA PrefixWhole ==
  ASSUME NEW p \in Seq(Block), NEW s \in Seq(Block),
         IsPrefixOf(p, s), ~(Len(p) < Len(s))
  PROVE  p = s
<1>1. Len(p) \in Nat /\ Len(s) \in Nat
  OBVIOUS
<1>2. Len(p) = Len(s) /\ \A k \in 1..Len(p) : p[k] = s[k]
  BY <1>1 DEF IsPrefixOf
<1>. QED  BY <1>2, SeqEqual

\* A prefix with the next element is a prefix.
LEMMA PrefixGrows ==
  ASSUME NEW p \in Seq(Block), NEW s \in Seq(Block),
         IsPrefixOf(p, s), Len(p) < Len(s)
  PROVE  IsPrefixOf(Append(p, s[Len(p) + 1]), s)
  BY DEF IsPrefixOf

\* The empty sequence is a prefix.
LEMMA PrefixEmpty ==
  ASSUME NEW s \in Seq(Block)
  PROVE  IsPrefixOf(<<>>, s) /\ <<>> \in Seq(Block)
  BY DEF IsPrefixOf
-----------------------------------------------------------------------------
\* The invariant holds before the file is opened.
LEMMA IInvInit == FileInit => IInv
<1>. SUFFICES ASSUME FileInit PROVE IInv
  OBVIOUS
<1>1. data \in [Inode -> Seq(Block)]
  <2>1. DOMAIN Pinned = 1..Len(Pinned) /\ Len(Pinned) \in Nat
    BY PinnedAssumption
  <2>2. [DOMAIN Pinned -> Block] \subseteq Seq(Block)
    BY <2>1
  <2>. QED  BY <2>2 DEF FileInit
<1>. QED
  BY <1>1 DEF FileInit, IInv, Typed, Fresh, Passes, RewriteDetected, Reading, Step

\* A block that is read belongs to the file.
LEMMA ReadTyped ==
  ASSUME Typed, step \in Reading, More, Read
  PROVE  pass' \in Seq(Block) /\ pass' = Append(pass, Held[Len(pass) + 1])
<1>1. Held \in Seq(Block) /\ pass \in Seq(Block) /\ Len(pass) < Len(Held)
  BY DEF Typed, More, Held
<1>2. Held[Len(pass) + 1] \in Block
  BY <1>1
<1>. QED  BY <1>1, <1>2 DEF Read, Held

\* The file is opened: nothing of it was read yet.
LEMMA IInvOpen ==
  ASSUME IInv, OpenBeneath
  PROVE  IInv'
<1>. USE DEF IInv, Typed, Fresh, Passes, RewriteDetected, Reading, Step, Held
<1>1. CASE name = Odd /\ step' = "bad" /\ UNCHANGED <<held, size>>
  BY <1>1 DEF OpenBeneath, source
<1>2. CASE name # Odd /\ step' = "hash" /\ held' = name
  BY <1>2, PrefixEmpty DEF OpenBeneath, source
<1>. QED  BY <1>1, <1>2 DEF OpenBeneath

\* The first pass reads a beginning of the file, and at its end all of it.
LEMMA IInvHash ==
  ASSUME IInv, Hash
  PROVE  IInv'
<1>. USE DEF IInv, Typed, Fresh, Passes, RewriteDetected, Reading, Step
<1>1. /\ step = "hash" /\ Held \in Seq(Block) /\ Held' = Held
      /\ UNCHANGED <<data, held, name, copy, touched>>
  BY DEF Hash, Held, source
<1>2. CASE More /\ Read /\ UNCHANGED step
  <2>1. pass' \in Seq(Block) /\ pass' = Append(pass, Held[Len(pass) + 1])
    BY <1>1, <1>2, ReadTyped
  <2>2. touched = 0 => IsPrefixOf(pass', Held)
    BY <1>1, <1>2, <2>1, PrefixGrows DEF More, Held
  <2>. QED  BY <1>1, <1>2, <2>1, <2>2
<1>3. CASE ~More /\ pass' = <<>> /\ step' = IF Listed THEN "copy" ELSE "bad"
  <2>1. touched = 0 => pass = Held
    BY <1>1, <1>3, PrefixWhole DEF More, Held
  <2>2. Listed => pass = Pinned
    BY DEF Listed
  <2>3. IsPrefixOf(<<>>, Pinned) /\ pass' \in Seq(Block)
    BY <1>3, PrefixEmpty, PinnedAssumption
  <2>. QED  BY <1>1, <1>3, <2>1, <2>2, <2>3
<1>. QED  BY <1>2, <1>3 DEF Hash

\* The second pass copies what it reads.
LEMMA IInvCopy ==
  ASSUME IInv, Copy
  PROVE  IInv'
<1>. USE DEF IInv, Typed, Fresh, Passes, RewriteDetected, Reading, Step
<1>1. /\ step = "copy" /\ Held \in Seq(Block) /\ Held' = Held /\ copy' = pass'
      /\ UNCHANGED <<data, held, name, touched>>
  BY DEF Copy, Held, source
<1>2. CASE More /\ Read /\ UNCHANGED step
  <2>1. pass' \in Seq(Block) /\ pass' = Append(pass, Held[Len(pass) + 1])
    BY <1>1, <1>2, ReadTyped
  <2>2. touched <= 1 /\ Held = Pinned => IsPrefixOf(pass', Pinned)
    BY <1>1, <1>2, <2>1, PrefixGrows DEF More, Held
  <2>. QED  BY <1>1, <1>2, <2>1, <2>2
<1>3. CASE ~More /\ UNCHANGED pass /\ step' = "recheck"
  <2>1. touched <= 1 /\ Held = Pinned => pass = Pinned
    BY <1>1, <1>3, PrefixWhole DEF More, Held
  <2>. QED  BY <1>1, <1>3, <2>1
<1>. QED  BY <1>2, <1>3 DEF Copy

\* The size and the identity are compared.
LEMMA IInvRecheck ==
  ASSUME IInv, Recheck
  PROVE  IInv'
<1>. USE DEF IInv, Typed, Fresh, Passes, RewriteDetected, Reading, Step
<1>1. /\ step = "recheck" /\ Held \in Seq(Block) /\ Held' = Held
      /\ UNCHANGED <<data, held, name, copy, touched>>
      /\ pass' = <<>> /\ step' \in {"again", "bad"}
  BY DEF Recheck, Held, source
<1>2. pass' \in Seq(Block) /\ IsPrefixOf(pass', Held)
  BY <1>1, PrefixEmpty
<1>. QED  BY <1>1, <1>2

\* The last pass sees the one write that came before it ended.
LEMMA IInvHashAgain ==
  ASSUME IInv, HashAgain
  PROVE  IInv'
<1>. USE DEF IInv, Typed, Fresh, Passes, RewriteDetected, Reading, Step
<1>1. /\ step = "again" /\ Held \in Seq(Block) /\ Held' = Held
      /\ UNCHANGED <<data, held, name, copy, touched>>
  BY DEF HashAgain, Held, source
<1>2. CASE More /\ Read /\ UNCHANGED step
  <2>1. pass' \in Seq(Block) /\ pass' = Append(pass, Held[Len(pass) + 1])
    BY <1>1, <1>2, ReadTyped
  <2>2. IsPrefixOf(pass, Held) => IsPrefixOf(pass', Held)
    BY <1>1, <1>2, <2>1, PrefixGrows DEF More, Held
  <2>. QED  BY <1>1, <1>2, <2>1, <2>2
<1>3. CASE ~More /\ UNCHANGED pass /\ step' = IF Listed THEN "good" ELSE "bad"
  <2>1. IsPrefixOf(pass, Held) => pass = Held
    BY <1>1, <1>3, PrefixWhole DEF More, Held
  <2>2. Listed => pass = Pinned
    BY DEF Listed
  <2>. QED  BY <1>1, <1>3, <2>1, <2>2
<1>. QED  BY <1>2, <1>3 DEF HashAgain

\* Closed, the file is as good as never opened.
LEMMA IInvClose ==
  ASSUME IInv, Close
  PROVE  IInv'
  BY DEF IInv, Typed, Fresh, Passes, RewriteDetected, Reading, Step, Close, source

\* A write changes the file: one that held the listed content no longer does.
LEMMA IInvWrite ==
  ASSUME IInv, NEW i \in Inode, WriteFile(i)
  PROVE  IInv'
<1>. USE DEF IInv, Typed
<1>1. PICK f \in Seq(Block) : f # data[i] /\ data' = [data EXCEPT ![i] = f]
  <2>. data[i] \in Seq(Block)
    OBVIOUS
  <2>1. CASE \E k \in DOMAIN data[i], b \in Block :
               b # data[i][k] /\ data' = [data EXCEPT ![i][k] = b]
    <3>. PICK k \in DOMAIN data[i], b \in Block :
                b # data[i][k] /\ data' = [data EXCEPT ![i][k] = b]
      BY <2>1
    <3>. DEFINE f == [data[i] EXCEPT ![k] = b]
    <3>1. f \in Seq(Block) /\ f # data[i]
      OBVIOUS
    <3>2. data' = [data EXCEPT ![i] = f]
      OBVIOUS
    <3>. QED  BY <3>1, <3>2
  <2>2. CASE /\ data[i] # <<>>
             /\ data' = [data EXCEPT ![i] = SubSeq(@, 1, Len(@) - 1)]
    <3>. DEFINE f == SubSeq(data[i], 1, Len(data[i]) - 1)
    <3>1. f \in Seq(Block) /\ Len(f) # Len(data[i])
      BY <2>2
    <3>. QED  BY <2>2, <3>1
  <2>3. CASE \E b \in Block : data' = [data EXCEPT ![i] = Append(@, b)]
    <3>. PICK b \in Block : data' = [data EXCEPT ![i] = Append(@, b)]
      BY <2>3
    <3>. DEFINE f == Append(data[i], b)
    <3>1. f \in Seq(Block) /\ Len(f) # Len(data[i])
      OBVIOUS
    <3>. QED  BY <3>1
  <2>. QED  BY <2>1, <2>2, <2>3 DEF WriteFile
<1>2. /\ UNCHANGED <<name, held, size, pass, copy, step>>
      /\ touched' = IF i = held THEN touched + 1 ELSE touched
  BY DEF WriteFile
<1>3. Typed'
  BY <1>1, <1>2
<1>4. CASE i = held
  <2>1. Held' # Held /\ touched' = touched + 1 /\ touched \in Nat
    BY <1>1, <1>2, <1>4 DEF Held
  <2>2. step # "shut"
    BY <1>4, OddAssumption DEF Fresh
  <2>. QED
    BY <1>2, <1>3, <2>1, <2>2 DEF Fresh, Passes, RewriteDetected
<1>5. CASE i # held
  <2>1. (step \in Reading => Held' = Held) /\ touched' = touched
    BY <1>1, <1>2, <1>5 DEF Held
  <2>. QED
    BY <1>2, <1>3, <2>1 DEF Fresh, Passes, RewriteDetected, Reading
<1>. QED  BY <1>4, <1>5

\* What is put at the path changes nothing of the held file.
LEMMA IInvSame ==
  ASSUME IInv, UNCHANGED <<data, handle>>, name' \in Inode \union {Odd}
  PROVE  IInv'
  BY DEF IInv, Typed, Fresh, Passes, RewriteDetected, Reading, Step, Held, handle

\* Every step preserves the invariant.
LEMMA IInvNext == IInv /\ [FileNext]_fileVars => IInv'
<1>. SUFFICES ASSUME IInv, [FileNext]_fileVars
              PROVE  IInv'
  OBVIOUS
<1>1. CASE Handle
  BY <1>1, IInvOpen, IInvHash, IInvCopy, IInvRecheck, IInvHashAgain DEF Handle
<1>2. CASE Close
  BY <1>2, IInvClose
<1>3. CASE Disturb
  BY <1>3, IInvWrite, IInvSame DEF Disturb, Swap
<1>4. CASE UNCHANGED fileVars
  BY <1>4, IInvSame DEF fileVars, source, IInv, Typed
<1>. QED  BY <1>1, <1>2, <1>3, <1>4 DEF FileNext

\* The inductive invariant, for every file, content and sequence of changes.
THEOREM FileInvariance == FileSpec => []IInv
  BY IInvInit, IInvNext, PTL DEF FileSpec

\* revalidate() vouches for the copy: replaced files and one write to the held
\* one never go into the stage unnoticed.
THEOREM RewriteDetectedHolds == FileSpec => []RewriteDetected
  BY FileInvariance, PTL DEF IInv
-----------------------------------------------------------------------------
(* Type correctness.                                                       *)

Room == Len(Pinned) + 1

\* With the inductive invariant, what type correctness adds: no file and no pass
\* over one outgrows its bound, and only counted changes touch the held file.
Bounds == /\ \A i \in Inode : Len(data[i]) <= Room
          /\ Len(pass) <= Room /\ Len(copy) <= Room
          /\ held \in Inode \union {Odd}
          /\ size \in Nat
          /\ changes \in 0..MaxChanges
          /\ touched <= changes

\* A short sequence of blocks is one of the contents.
LEMMA BlocksAreShort ==
  ASSUME NEW s \in Seq(Block), Len(s) <= Room
  PROVE  s \in Blocks
<1>1. Len(s) \in 0..Room
  BY PinnedAssumption DEF Room
<1>2. s \in [1..Len(s) -> Block]
  OBVIOUS
<1>. QED  BY <1>1, <1>2 DEF Blocks, Room

\* The bounds hold before the file is opened,
LEMMA BoundsInit == FileInit => Bounds
<1>. SUFFICES ASSUME FileInit PROVE Bounds
  OBVIOUS
<1>1. \A i \in Inode : Len(data[i]) = Len(Pinned)
  <2>. TAKE i \in Inode
  <2>1. DOMAIN Pinned = 1..Len(Pinned) /\ Len(Pinned) \in Nat
    BY PinnedAssumption
  <2>2. data[i] \in [1..Len(Pinned) -> Block]
    BY <2>1 DEF FileInit
  <2>. QED  BY <2>1, <2>2
<1>. QED
  BY <1>1, PinnedAssumption, ChangeAssumption DEF FileInit, Bounds, Room

\* in each pass,
LEMMA BoundsHandle ==
  ASSUME IInv, IInv', Bounds, Handle
  PROVE  Bounds'
<1>. USE DEF IInv, Typed, Bounds, Reading
<1>1. CASE OpenBeneath
  <2>1. name # Odd => Len(data[name]) \in Nat
    OBVIOUS
  <2>. QED  BY <1>1, <2>1 DEF OpenBeneath, source
<1>2. CASE Recheck
  BY <1>2, PinnedAssumption DEF Recheck, source, Room
<1>3. CASE Hash \/ Copy \/ HashAgain
  <2>1. step \in Reading /\ held \in Inode
        /\ UNCHANGED <<data, changes, held, size, touched>>
    BY <1>3 DEF Hash, Copy, HashAgain, source
  <2>2. Len(pass') <= Room
    <3>1. CASE More /\ Read
      <4>1. pass' = Append(pass, Held[Len(pass) + 1])
        BY <2>1, <3>1, ReadTyped
      <4>2. Len(pass') = Len(pass) + 1 /\ Len(pass) < Len(Held) /\ Held \in Seq(Block)
        BY <2>1, <3>1, <4>1 DEF More, Held
      <4>3. Len(Held) <= Room
        BY <2>1 DEF Held
      <4>. QED  BY <4>2, <4>3, PinnedAssumption DEF Room
    <3>2. CASE pass' = <<>>
      BY <3>2, PinnedAssumption DEF Room
    <3>. QED  BY <1>3, <3>1, <3>2 DEF Hash, Copy, HashAgain
  <2>3. copy' = copy \/ copy' = pass'
    BY <1>3 DEF Hash, Copy, HashAgain
  <2>. QED  BY <2>1, <2>2, <2>3
<1>. QED  BY <1>1, <1>2, <1>3 DEF Handle

\* when the file is written to,
LEMMA BoundsWrite ==
  ASSUME IInv, Bounds, NEW i \in Inode, WriteFile(i)
  PROVE  Bounds'
<1>. USE DEF IInv, Typed
<1>1. data[i] \in Seq(Block) /\ Len(data[i]) <= Room
  BY DEF Bounds
<1>2. \A j \in Inode : Len(data'[j]) <= Room
  <2>1. CASE \E k \in DOMAIN data[i], b \in Block : data' = [data EXCEPT ![i][k] = b]
    BY <1>1, <2>1 DEF Bounds
  <2>2. CASE /\ data[i] # <<>>
             /\ data' = [data EXCEPT ![i] = SubSeq(@, 1, Len(@) - 1)]
    <3>1. Len(SubSeq(data[i], 1, Len(data[i]) - 1)) <= Len(data[i])
      BY <1>1, <2>2
    <3>2. Len(SubSeq(data[i], 1, Len(data[i]) - 1)) <= Room
      BY <1>1, <3>1, PinnedAssumption DEF Room
    <3>. QED  BY <2>2, <3>2 DEF Bounds
  <2>3. CASE /\ Len(data[i]) <= Len(Pinned)
             /\ \E b \in Block : data' = [data EXCEPT ![i] = Append(@, b)]
    <3>. PICK b \in Block : data' = [data EXCEPT ![i] = Append(@, b)]
      BY <2>3
    <3>1. Len(Append(data[i], b)) <= Room
      BY <1>1, <2>3, PinnedAssumption DEF Room
    <3>. QED  BY <3>1 DEF Bounds
  <2>. QED  BY <2>1, <2>2, <2>3 DEF WriteFile
<1>3. /\ UNCHANGED <<held, size, pass, copy>>
      /\ touched' \in {touched, touched + 1}
      /\ changes' = changes + 1 /\ changes < MaxChanges
  BY DEF WriteFile
<1>. QED  BY <1>2, <1>3, ChangeAssumption DEF Bounds, Room

\* and so in every step.
LEMMA BoundsNext == IInv /\ IInv' /\ Bounds /\ [FileNext]_fileVars => Bounds'
<1>. SUFFICES ASSUME IInv, IInv', Bounds, [FileNext]_fileVars
              PROVE  Bounds'
  OBVIOUS
<1>1. CASE Handle
  BY <1>1, BoundsHandle
<1>2. CASE Close
  BY <1>2, PinnedAssumption DEF Close, source, Bounds, Room
<1>3. CASE Swap
  BY <1>3, ChangeAssumption DEF Swap, handle, Bounds, IInv, Typed
<1>4. CASE \E i \in Inode : WriteFile(i)
  BY <1>4, BoundsWrite
<1>5. CASE UNCHANGED fileVars
  BY <1>5 DEF fileVars, source, handle, Bounds
<1>. QED  BY <1>1, <1>2, <1>3, <1>4, <1>5 DEF FileNext, Disturb

\* The invariant and the bounds give the types.
LEMMA BoundsType == IInv /\ Bounds => FileTypeOK
<1>. SUFFICES ASSUME IInv, Bounds PROVE FileTypeOK
  OBVIOUS
<1>1. data \in [Inode -> Blocks]
  BY BlocksAreShort DEF IInv, Typed, Bounds
<1>2. {pass, copy} \subseteq Blocks
  BY BlocksAreShort DEF IInv, Typed, Bounds
<1>. QED
  BY <1>1, <1>2, ChangeAssumption DEF IInv, Typed, Bounds, FileTypeOK, Step

\* The variables of a supplied file keep their types.
THEOREM FileTypeCorrect == FileSpec => []FileTypeOK
<1>1. FileSpec => [](IInv /\ Bounds)
  BY FileInvariance, BoundsInit, BoundsNext, PTL DEF FileSpec
<1>. QED  BY <1>1, BoundsType, PTL
-----------------------------------------------------------------------------
(* The catalog and its files in use.                                       *)

\* Only the release's bytes are parsed and handed on, only its own asset goes on
\* to the converter, and a call that is under way has no result yet.
Verified == /\ payload \in {NoVersion, Release}
            /\ parsed \in {NoVersion, Release}
            /\ load = "parse" => payload = Release
            /\ load = "given" => parsed = Release
Underway == pc # "idle" => result = "none"
Own == pc = "tool" \/ result = "prerequisite" => spec = Release

\* The inductive invariant of the catalog's part.
CatalogInv == Verified /\ Underway /\ Own
-----------------------------------------------------------------------------
(* The supplied file in the composition.                                   *)

\* Each step of first use is a step of the supplied file, or leaves it alone.
LEMMA StepsOfFile == [Next]_vars => [FileNext]_fileVars
<1>. SUFFICES ASSUME [Next]_vars
              PROVE  FileNext \/ UNCHANGED fileVars
  OBVIOUS
<1>1. CASE Begin \/ LoseReceipt \/ Upgrade \/ InstallPrerequisite \/ Settle
  BY <1>1 DEF Begin, LoseReceipt, Upgrade, InstallPrerequisite, Settle
<1>2. CASE Continue /\ ~Supply
  BY <1>2 DEF Continue, Loading, Loaded, Ask, Screen, Answer, Record, Gate,
              WriteOwner, NameOwner, Under, Fetch, Extract, StripRoot,
              WriteNotices, Convert, Resolve, Consult, EnsureTool, Filled,
              Inspect, Select
<1>3. CASE Supply
  BY <1>3 DEF Supply, FileNext
<1>4. CASE Kill
  BY <1>4 DEF Kill, FileNext
<1>5. CASE Meddle
  BY <1>5 DEF Meddle, FileNext
<1>6. CASE Finished \/ UNCHANGED vars
  BY <1>6 DEF Finished, vars
<1>. QED  BY <1>1, <1>2, <1>3, <1>4, <1>5, <1>6 DEF Next

\* A call uses the supplied file as SuppliedFile describes it, and no copy of a
\* rewritten file gets past revalidate() in any installation.
THEOREM SuppliedFileInUse == Spec => FileSpec
  BY StepsOfFile, PTL DEF Spec, Init, FileSpec

\* An installation from a supplied file, with other calls, kills and failures
\* around it, stages the listed file or notices.
THEOREM RewriteDetectedInUse == Spec => []RewriteDetected
  BY SuppliedFileInUse, RewriteDetectedHolds, PTL
-----------------------------------------------------------------------------
(* The packaged catalog.                                                   *)

\* Nothing was verified or parsed before the first call.
LEMMA CatalogInvInit == Init => CatalogInv
  BY DEF Init, CatalogInit, CatalogInv, Verified, Underway, Own

\* A step that leaves the catalog's variables alone and does not go on to the
\* converter or ask for it.
LEMMA Apart ==
  ASSUME CatalogInv, UNCHANGED <<payload, parsed, load, spec>>,
         \/ pc' # "tool" /\ pc # "idle" /\ UNCHANGED result
         \/ pc' = "idle" /\ result' # "prerequisite"
         \/ UNCHANGED <<pc, result>>
  PROVE  CatalogInv'
  BY DEF CatalogInv, Verified, Underway, Own

\* The verified bytes are those that are parsed.
LEMMA CatalogInvVerify ==
  ASSUME CatalogInv, Loading
  PROVE  CatalogInv'
  BY DEF CatalogInv, Verified, Underway, Own, Loading, Verify, ReadSchema,
         ReadBytes, Parse, callVars

\* Every step keeps what is known of the catalog and of the call's asset.
LEMMA CatalogInvNext == CatalogInv /\ [Next]_vars => CatalogInv'
<1>. SUFFICES ASSUME CatalogInv, [Next]_vars
              PROVE  CatalogInv'
  OBVIOUS
<1>. USE DEF Goto, End, Move, Done, Fail
<1>1. CASE Begin
  BY <1>1 DEF Begin, CatalogInv, Verified, Underway, Own
<1>2. CASE Loading
  BY <1>2, CatalogInvVerify
<1>3. CASE Loaded
  BY <1>3 DEF Loaded, CatalogInv, Verified, Underway, Own
<1>4. CASE Ask \/ Screen \/ Answer \/ Record \/ Gate \/ WriteOwner \/ NameOwner \/ Under
  BY <1>4, Apart DEF Ask, Screen, Answer, Record, Gate, WriteOwner, NameOwner,
                     Under, catalogVars
<1>5. CASE Fetch \/ Extract \/ StripRoot \/ WriteNotices \/ Convert \/ Filled
  BY <1>5, Apart DEF Fetch, Extract, StripRoot, WriteNotices, Convert, Filled,
                     Doing, catalogVars
<1>6. CASE Supply
  BY <1>6, Apart DEF Supply, Doing, catalogVars
<1>7. CASE Resolve
  BY <1>7 DEF Resolve, Doing, CatalogInv, Verified, Underway, Own
<1>8. CASE Consult
  BY <1>8, ReleaseAssumption DEF Consult, CatalogInv, Verified, Underway, Own
<1>9. CASE EnsureTool \/ Inspect \/ Select
  BY <1>9, Apart DEF EnsureTool, Inspect, Select, catalogVars
<1>10. CASE Kill
  BY <1>10 DEF Kill, CatalogInv, Verified, Underway, Own
<1>11. CASE LoseReceipt \/ Meddle \/ InstallPrerequisite \/ Settle
  BY <1>11, Apart DEF LoseReceipt, Meddle, InstallPrerequisite, Settle,
                      catalogVars, callVars
<1>12. CASE Upgrade
  BY <1>12, Apart DEF Upgrade, ReplaceFile, callVars
<1>13. CASE Finished \/ UNCHANGED vars
  BY <1>13, Apart DEF Finished, vars, catalogVars, callVars
<1>. QED
  BY <1>1, <1>2, <1>3, <1>4, <1>5, <1>6, <1>7, <1>8, <1>9, <1>10, <1>11, <1>12,
     <1>13 DEF Next, Continue

\* Whatever replaces the packaged files and whenever, only the release's catalog
\* is acted on.
THEOREM ActsOnPinnedOnlyHolds == Spec => []ActsOnPinnedOnly
<1>1. CatalogInv => ActsOnPinnedOnly
  BY DEF CatalogInv, Verified, Own, ActsOnPinnedOnly
<1>. QED  BY <1>1, CatalogInvInit, CatalogInvNext, PTL DEF Spec
-----------------------------------------------------------------------------
(* Type correctness.                                                       *)

\* A call that looks for the converter is at a step of its plan.
AtStep == pc \in {"resolving", "tool"} => at <= Len(Plan[way])

TInv == TypeOK /\ AtStep

\* Each way of filling the stage has a plan of so many steps.
LEMMA PlanLength ==
  ASSUME way \in DOMAIN Plan
  PROVE  Len(Plan[way]) \in Nat
  BY DEF Plan

\* The types hold before the first call,
LEMMA TInvInit == Init /\ FileTypeOK => TInv
<1>. SUFFICES ASSUME Init, FileTypeOK
              PROVE  TInv
  OBVIOUS
<1>1. CatalogTypeOK
  BY DEF Init, CatalogInit, CatalogTypeOK
<1>2. at \in 1..Len(Plan[way]) + 1
  BY PlanLength DEF Init
<1>3. calls \in 0..MaxCalls /\ faults \in 0..MaxFaults
  BY BoundAssumption DEF Init
<1>. QED  BY <1>1, <1>2, <1>3 DEF Init, TInv, TypeOK, AtStep

\* while the catalog is verified,
LEMMA TInvVerify ==
  ASSUME TInv, CatalogInv, FileTypeOK', Loading
  PROVE  TInv'
<1>1. CatalogTypeOK'
  BY ReleaseAssumption
     DEF TInv, TypeOK, CatalogTypeOK, CatalogInv, Verified, Loading, Verify,
         ReadSchema, ReadBytes, Parse
<1>. QED
  BY <1>1 DEF TInv, TypeOK, AtStep, Loading, world, scene, callVars, staged, bounds

\* and in every step.
LEMMA TInvNext ==
  TInv /\ CatalogInv /\ FileTypeOK' /\ [Next]_vars => TInv'
<1>. SUFFICES ASSUME TInv, CatalogInv, FileTypeOK', [Next]_vars
              PROVE  TInv'
  OBVIOUS
<1>. USE PlanLength
     DEF TInv, TypeOK, AtStep, Goto, End, Move, Done, Fail, catalogVars, world,
         scene, staged, bounds, callVars
<1>1. CASE Begin
  <2>1. CatalogTypeOK'
    BY <1>1 DEF Begin, CatalogTypeOK, Cached
  <2>2. way' = way /\ at' = 1 /\ tree' = FALSE /\ calls' \in 0..MaxCalls
    BY <1>1, BoundAssumption DEF Begin
  <2>3. pc' \in {"load", "ask"} /\ (pc' = "ask" => spec' \in Version /\ spec' # NoVersion)
    BY <1>1, ReleaseAssumption DEF Begin, Cached, CatalogTypeOK
  <2>4. spec' \in Version \union {NoVersion}
    BY <1>1, <2>3 DEF Begin
  <2>5. at' \in 1..Len(Plan[way']) + 1
    BY <2>2
  <2>6. UNCHANGED <<archive, plain, tmp, tool, receipt, dest, faults, calm>>
    BY <1>1 DEF Begin
  <2>7. result' = "none"
    BY <1>1 DEF Begin
  <2>8. pc' \notin {"idle", "load"} => spec' # NoVersion
    BY <2>3
  <2>9. /\ archive' \in {"fits", "unsafe", "rooted", "notice", "other"}
        /\ plain' \in BOOLEAN /\ tmp' \in BOOLEAN /\ calm' \in BOOLEAN
        /\ tool' \in {"path", "catalog", "external"}
        /\ receipt' \in [Bindings -> {"none", "torn", "whole"}]
        /\ dest' \in {"none", "foreign"} \union Listings
        /\ faults' \in 0..MaxFaults
    BY <2>6
  <2>10. TypeOK'
    BY <2>1, <2>2, <2>3, <2>4, <2>5, <2>7, <2>8, <2>9
  <2>. QED  BY <2>3, <2>10
<1>2. CASE Loading
  BY <1>2, TInvVerify
<1>3. CASE Loaded
  BY <1>3, ReleaseAssumption DEF Loaded, CatalogTypeOK, CatalogInv, Verified
<1>4. CASE Ask \/ Screen \/ Answer \/ Record
  <2>1. receipt' \in [Bindings -> {"none", "torn", "whole"}]
    BY <1>4 DEF Ask, Screen, Answer, Record
  <2>. QED  BY <1>4, <2>1 DEF Ask, Screen, Answer, Record, CatalogTypeOK
<1>5. CASE Gate \/ WriteOwner \/ NameOwner \/ Under
  BY <1>5 DEF Gate, WriteOwner, NameOwner, Under, CatalogTypeOK
<1>6. CASE Fetch \/ Extract \/ StripRoot
  <2>1. tree' \in BOOLEAN
    BY <1>6 DEF Fetch, Extract, StripRoot
  <2>2. at' \in 1..Len(Plan[way]) + 1
    BY <1>6 DEF Fetch, Extract, StripRoot, Doing
  <2>. QED
    BY <1>6, <2>1, <2>2 DEF Fetch, Extract, StripRoot, Doing, CatalogTypeOK
<1>7. CASE WriteNotices \/ Convert
  <2>1. tree' \in BOOLEAN
    BY <1>7 DEF WriteNotices, Convert
  <2>2. at' \in 1..Len(Plan[way]) + 1
    <3>1. at' \in {at, at + 1} /\ at <= Len(Plan[way])
      BY <1>7 DEF WriteNotices, Convert, Doing
    <3>. QED  BY <3>1
  <2>. QED
    BY <1>7, <2>1, <2>2 DEF WriteNotices, Convert, Doing, CatalogTypeOK
<1>8. CASE Resolve
  BY <1>8 DEF Resolve, Doing, CatalogTypeOK
<1>9. CASE Consult
  BY <1>9 DEF Consult, CatalogTypeOK
<1>10. CASE EnsureTool
  BY <1>10 DEF EnsureTool, CatalogTypeOK
<1>11. CASE Supply
  <2>1. tree' \in BOOLEAN
    BY <1>11 DEF Supply
  <2>2. at' \in 1..Len(Plan[way]) + 1
    BY <1>11 DEF Supply, Doing
  <2>. QED  BY <1>11, <2>1, <2>2 DEF Supply, Doing, CatalogTypeOK
<1>12. CASE Filled \/ Inspect \/ Select
  <2>1. dest' \in {"none", "foreign"} \union Listings
    BY <1>12 DEF Filled, Inspect, Select, Listings
  <2>. QED  BY <1>12, <2>1 DEF Filled, Inspect, Select, CatalogTypeOK
<1>13. CASE Kill
  BY <1>13, BoundAssumption DEF Kill, Fault, CatalogTypeOK
<1>14. CASE LoseReceipt
  <2>1. receipt' \in [Bindings -> {"none", "torn", "whole"}]
    BY <1>14 DEF LoseReceipt
  <2>. QED  BY <1>14, <2>1, BoundAssumption DEF LoseReceipt, Fault, CatalogTypeOK
<1>15. CASE Upgrade
  <2>1. CatalogTypeOK'
    BY <1>15 DEF Upgrade, ReplaceFile, CatalogTypeOK
  <2>2. faults' \in 0..MaxFaults
    BY <1>15, BoundAssumption DEF Upgrade, Fault
  <2>. QED  BY <1>15, <2>1, <2>2 DEF Upgrade, Fault
<1>16. CASE Meddle \/ InstallPrerequisite
  BY <1>16 DEF Meddle, InstallPrerequisite, CatalogTypeOK
<1>17. CASE Settle
  BY <1>17, BoundAssumption DEF Settle, CatalogTypeOK
<1>18. CASE Finished \/ UNCHANGED vars
  BY <1>18 DEF Finished, vars, CatalogTypeOK
<1>. QED
  BY <1>1, <1>2, <1>3, <1>4, <1>5, <1>6, <1>7, <1>8, <1>9, <1>10, <1>11, <1>12,
     <1>13, <1>14, <1>15, <1>16, <1>17, <1>18 DEF Next, Continue

\* The variables of FirstUse keep their types, and a call that is past the
\* catalog has an asset.
THEOREM TypeCorrect == Spec => []TypeOK
<1>1. Spec => []FileTypeOK
  BY SuppliedFileInUse, FileTypeCorrect, PTL
<1>2. TInv => TypeOK
  BY DEF TInv
<1>. QED
  BY <1>1, <1>2, TInvInit, TInvNext, CatalogInvInit, CatalogInvNext, PTL DEF Spec
-----------------------------------------------------------------------------
(* The owner file's temporary.                                             *)

\* A call that named its owner file left no temporary.
Renamed == pc \in {"under", "fill", "resolving", "tool", "inspect", "select"} => ~tmp

\* The owner file's temporary is made and renamed in two steps, and nobody else
\* touches it.
LEMMA TemporarySteps ==
  ASSUME [Next]_vars
  PROVE  \/ pc = "own" /\ ~tmp /\ tmp' /\ pc' = "name" /\ dest' = dest
         \/ pc = "name" /\ ~tmp' /\ pc' = "under" /\ dest' = dest
         \/ /\ tmp' = tmp
            /\ pc = "name" => pc' = "name" \/ (pc' = "idle" /\ ~calm)
            /\ pc' = "name" => pc = "name"
            /\ pc' = "under" => pc = "under"
            /\ dest' # dest => pc = "select" /\ pc' = "idle"
<1>. USE DEF Goto, End, Move, Done, Fail, world, scene, callVars, staged
<1>1. CASE Begin
  BY <1>1 DEF Begin
<1>2. CASE Loading \/ Loaded \/ Ask \/ Screen \/ Answer \/ Record \/ Gate \/ Under
  BY <1>2 DEF Loading, Loaded, Ask, Screen, Answer, Record, Gate, Under
<1>3. CASE WriteOwner \/ NameOwner
  BY <1>3 DEF WriteOwner, NameOwner
<1>4. CASE Fetch \/ Extract \/ StripRoot \/ WriteNotices \/ Convert \/ Supply
  BY <1>4 DEF Fetch, Extract, StripRoot, WriteNotices, Convert, Supply, Doing
<1>5. CASE Resolve \/ Consult \/ EnsureTool \/ Filled \/ Inspect \/ Select
  BY <1>5 DEF Resolve, Consult, EnsureTool, Filled, Inspect, Select, Doing
<1>6. CASE Kill \/ LoseReceipt \/ Upgrade \/ Meddle
  BY <1>6 DEF Kill, LoseReceipt, Upgrade, Meddle, Fault
<1>7. CASE InstallPrerequisite \/ Settle \/ Finished \/ UNCHANGED vars
  BY <1>7 DEF InstallPrerequisite, Settle, Finished, vars
<1>. QED
  BY <1>1, <1>2, <1>3, <1>4, <1>5, <1>6, <1>7 DEF Next, Continue

\* Only a call that renamed its temporary gets under the lock and fills a stage.
LEMMA PastUnder ==
  ASSUME [Next]_vars, pc' \in {"fill", "resolving", "tool", "inspect", "select"}
  PROVE  pc \in {"under", "fill", "resolving", "tool", "inspect", "select"}
<1>. USE DEF Goto, End, Move, Done, Fail, callVars
<1>1. CASE Begin \/ Loading \/ Loaded \/ Ask \/ Screen \/ Answer \/ Record \/ Gate
  BY <1>1 DEF Begin, Loading, Loaded, Ask, Screen, Answer, Record, Gate
<1>2. CASE WriteOwner \/ NameOwner \/ Under
  BY <1>2 DEF WriteOwner, NameOwner, Under
<1>3. CASE Fetch \/ Extract \/ StripRoot \/ WriteNotices \/ Convert \/ Supply
  BY <1>3 DEF Fetch, Extract, StripRoot, WriteNotices, Convert, Supply, Doing
<1>4. CASE Resolve \/ Consult \/ EnsureTool \/ Filled \/ Inspect \/ Select
  BY <1>4 DEF Resolve, Consult, EnsureTool, Filled, Inspect, Select, Doing
<1>5. CASE Kill \/ LoseReceipt \/ Upgrade \/ Meddle
  BY <1>5 DEF Kill, LoseReceipt, Upgrade, Meddle
<1>6. CASE InstallPrerequisite \/ Settle \/ Finished \/ UNCHANGED vars
  BY <1>6 DEF InstallPrerequisite, Settle, Finished, vars
<1>. QED
  BY <1>1, <1>2, <1>3, <1>4, <1>5, <1>6 DEF Next, Continue

\* So there is no temporary while it does.
LEMMA RenamedNext == Renamed /\ [Next]_vars => Renamed'
<1>. SUFFICES ASSUME Renamed, [Next]_vars,
                     pc' \in {"under", "fill", "resolving", "tool", "inspect", "select"}
              PROVE  ~tmp'
  BY DEF Renamed
<1>. QED  BY TemporarySteps, PastUnder DEF Renamed

\* No temporary is there before the first call.
LEMMA RenamedInit == Init => Renamed
  BY DEF Init, Renamed

\* A temporary that a call left behind stays for good, and nothing is selected
\* any more: no later call gets past O_EXCL.
LockedOutForGood == [][LockedOut => LockedOut' /\ dest' = dest]_vars

\* An asset whose owner file's temporary was left behind is never installed again.
THEOREM LockedOutForGoodHolds == Spec => LockedOutForGood
<1>1. Renamed /\ [Next]_vars => [LockedOut => LockedOut' /\ dest' = dest]_vars
  <2>. SUFFICES ASSUME Renamed, [Next]_vars, LockedOut
                PROVE  LockedOut' /\ dest' = dest
    OBVIOUS
  <2>. QED  BY TemporarySteps DEF LockedOut, Renamed
<1>. QED
  BY <1>1, RenamedInit, RenamedNext, PTL DEF Spec, LockedOutForGood

\* It is left by a mishap only, a kill or a failed write, never once all is calm.
LockedOutByMishap == [][~LockedOut /\ LockedOut' => ~calm /\ pc = "name"]_vars

\* A call that is neither killed nor fails to write its owner file locks nobody out.
THEOREM LockedOutByMishapHolds == Spec => LockedOutByMishap
<1>1. [Next]_vars => [~LockedOut /\ LockedOut' => ~calm /\ pc = "name"]_vars
  <2>. SUFFICES ASSUME [Next]_vars, ~LockedOut, LockedOut'
                PROVE  ~calm /\ pc = "name"
    OBVIOUS
  <2>. QED  BY TemporarySteps DEF LockedOut
<1>. QED  BY <1>1, PTL DEF Spec, LockedOutByMishap
-----------------------------------------------------------------------------
(* What is selected.                                                       *)

\* A stage is filled while nothing is at the path, and checked before it is
\* selected.
Selected == /\ pc \in {"fill", "resolving", "tool", "inspect", "select"} => dest = "none"
            /\ pc = "select" => tree

\* What is at the asset's path stays, of whatever version; it comes there from a
\* stage that was checked against its spec while a receipt covered it.
InstalledOnce ==
  [][dest' # dest \/ (pc # "select" /\ pc' = "select") =>
       \/ pc = "select" /\ dest = "none" /\ dest' = Lists[spec]
       \/ pc = "inspect" /\ tree /\ Covered /\ dest' = dest]_vars

\* A selection is the one step that changes the path, a check the one before it.
LEMMA SelectionSteps ==
  ASSUME [Next]_vars
  PROVE  /\ dest' # dest => /\ pc = "select" /\ pc' = "idle"
                            /\ dest' = IF tree THEN Lists[spec] ELSE "foreign"
         /\ pc' = "select" => \/ pc = "select" /\ UNCHANGED tree
                              \/ pc = "inspect" /\ tree /\ tree' /\ Covered
         /\ pc = "under" /\ pc' \in {"fill", "resolving", "tool", "inspect", "select"}
              => dest = "none"
<1>. USE DEF Goto, End, Move, Done, Fail, callVars, staged
<1>1. CASE Begin \/ Loading \/ Loaded \/ Ask \/ Screen \/ Answer \/ Record \/ Gate
  BY <1>1 DEF Begin, Loading, Loaded, Ask, Screen, Answer, Record, Gate
<1>2. CASE WriteOwner \/ NameOwner \/ Under
  BY <1>2 DEF WriteOwner, NameOwner, Under
<1>3. CASE Fetch \/ Extract \/ StripRoot \/ WriteNotices \/ Convert \/ Supply
  BY <1>3 DEF Fetch, Extract, StripRoot, WriteNotices, Convert, Supply, Doing
<1>4. CASE Resolve \/ Consult \/ EnsureTool \/ Filled
  BY <1>4 DEF Resolve, Consult, EnsureTool, Filled, Doing
<1>5. CASE Inspect \/ Select
  BY <1>5 DEF Inspect, Select
<1>6. CASE Kill \/ LoseReceipt \/ Upgrade \/ Meddle
  BY <1>6 DEF Kill, LoseReceipt, Upgrade, Meddle
<1>7. CASE InstallPrerequisite \/ Settle \/ Finished \/ UNCHANGED vars
  BY <1>7 DEF InstallPrerequisite, Settle, Finished, vars
<1>. QED
  BY <1>1, <1>2, <1>3, <1>4, <1>5, <1>6, <1>7 DEF Next, Continue

\* Nothing is selected before the first call,
LEMMA SelectedInit == Init => Selected
  BY DEF Init, Selected

\* and only checked trees, onto a free path, afterwards.
LEMMA SelectedNext == Selected /\ [Next]_vars => Selected'
<1>. SUFFICES ASSUME Selected, [Next]_vars
              PROVE  Selected'
  OBVIOUS
<1>1. pc' = "select" => tree'
  BY SelectionSteps DEF Selected
<1>2. ASSUME pc' \in {"fill", "resolving", "tool", "inspect", "select"}
      PROVE  dest' = "none"
  BY <1>2, SelectionSteps, PastUnder DEF Selected
<1>. QED  BY <1>1, <1>2 DEF Selected

\* What first use selects is what the call's catalog lists for the asset, in any
\* world, and no later call, of any version, failure or kill takes it away again
\* or replaces it.
THEOREM InstalledOnceHolds == Spec => InstalledOnce
<1>1. Selected /\ [Next]_vars =>
        [dest' # dest \/ (pc # "select" /\ pc' = "select") =>
           \/ pc = "select" /\ dest = "none" /\ dest' = Lists[spec]
           \/ pc = "inspect" /\ tree /\ Covered /\ dest' = dest]_vars
  BY SelectionSteps DEF Selected
<1>. QED  BY <1>1, SelectedInit, SelectedNext, PTL DEF Spec, InstalledOnce
-----------------------------------------------------------------------------
(* A call that begins when all is calm.                                    *)

CalmWorld == /\ file = Release /\ frozen
             /\ archive = "fits" /\ plain /\ tool # "external"
             /\ way = "supplied" => name \in Inode /\ data[name] = Pinned

\* The calm stays.
StaysCalm == calm => CalmWorld

\* The supplied file is open only while the stage is filled from it.
OpenWhileFilling == step # "shut" => pc = "fill" /\ way = "supplied" /\ at = 1

\* The passes over the supplied file have found the listed blocks so far.
PassesAgree ==
  \/ step = "shut"
  \/ /\ held = name /\ size = Len(Pinned)
     /\ \/ step = "hash" /\ IsPrefixOf(pass, Pinned)
        \/ step = "copy" /\ pass = copy /\ IsPrefixOf(copy, Pinned)
        \/ step = "recheck" /\ copy = Pinned
        \/ step = "again" /\ copy = Pinned /\ IsPrefixOf(pass, Pinned)
        \/ step = "good" /\ copy = Pinned

Beginning == {"ask", "screen", "answer", "record"}
Entering == {"gate", "own", "name", "under"}

\* Where a call may be with which of its steps done.
Whereabouts ==
  \/ pc \in {"load"} \union Beginning \union Entering /\ at = 1
  \/ pc \in {"resolving", "tool"} /\ way = "convert" /\ at = 1
  \/ pc = "fill" /\ (tree \/ at = 1 \/ (way = "convert" /\ at = 2))
  \/ pc \in {"inspect", "select"} /\ tree

\* Nothing has gone wrong with the call so far, wherever it is.
Promising ==
  /\ calm
  /\ PassesAgree
  /\ pc \in {"load", "resolving"} => load \in {"schema", "bytes", "parse", "given"}
  /\ pc \notin {"load"} \union Beginning => receipt[Binds[Release]] = "whole"
  /\ pc # "load" => spec = Release
  /\ Whereabouts

\* A call that begins when all is calm goes well in each of its steps until the
\* release's asset is there, unless one of two things is in the way: an owner file's
\* temporary, or anything else at the asset's path.  Together with the fact that
\* calls end, this is AgreeingInstalls.
CalmCallGoesWell ==
  [][/\ calm /\ Begin => Promising'
     /\ Promising => Promising' \/ dest' = Lists[Release] \/ LockedOut' \/ Taken']_vars

\* What each way of filling does at which of its steps.
LEMMA PlanSteps ==
  ASSUME way \in DOMAIN Plan, at \in 1..Len(Plan[way]) + 1
  PROVE  /\ Doing("supply") => way = "supplied" /\ at = 1
         /\ Doing("resolve") => way = "convert" /\ at = 1
         /\ Doing("strip") \/ Doing("notices") => at # 1 /\ ~(way = "convert" /\ at = 2)
         /\ at > Len(Plan[way]) => at # 1 /\ ~(way = "convert" /\ at = 2)
<1>. DEFINE p == Plan[way]
<1>1. CASE way = "archive"
  <2>1. p = <<"fetch", "extract", "strip", "notices">>
    BY <1>1 DEF Plan
  <2>. HIDE DEF p
  <2>2. Len(p) = 4 /\ p[1] = "fetch" /\ p[2] = "extract"
    BY <2>1
  <2>3. \A k \in 1..4 : p[k] \notin {"supply", "resolve"}
    BY <2>1
  <2>. QED  BY <1>1, <2>2, <2>3 DEF Doing, p
<1>2. CASE way \in {"files", "registry"}
  <2>1. p = <<"fetch", "fetch", "notices">>
    BY <1>2 DEF Plan
  <2>. HIDE DEF p
  <2>2. Len(p) = 3 /\ p[1] = "fetch"
    BY <2>1
  <2>3. \A k \in 1..3 : p[k] \notin {"supply", "resolve"}
    BY <2>1
  <2>. QED  BY <1>2, <2>2, <2>3 DEF Doing, p
<1>3. CASE way = "convert"
  <2>1. p = <<"resolve", "fetch", "fetch", "convert", "notices">>
    BY <1>3 DEF Plan
  <2>. HIDE DEF p
  <2>2. Len(p) = 5 /\ p[1] = "resolve" /\ p[2] = "fetch"
    BY <2>1
  <2>3. \A k \in 1..5 : p[k] # "supply" /\ (k # 1 => p[k] # "resolve")
    BY <2>1
  <2>. QED  BY <1>3, <2>2, <2>3 DEF Doing, p
<1>4. CASE way = "supplied"
  <2>1. p = <<"supply", "notices">>
    BY <1>4 DEF Plan
  <2>. HIDE DEF p
  <2>2. Len(p) = 2 /\ p[1] = "supply" /\ p[2] = "notices"
    BY <2>1
  <2>. QED  BY <1>4, <2>2 DEF Doing, p
<1>. QED  BY <1>1, <1>2, <1>3, <1>4 DEF Plan

\* Each pass over an undisturbed file finds the listed blocks.
LEMMA PassesAgreeHandle ==
  ASSUME IInv, PassesAgree, name \in Inode, data[name] = Pinned, Handle
  PROVE  PassesAgree'
<1>. USE DEF PassesAgree
<1>1. UNCHANGED <<name, data>>
  BY DEF Handle, OpenBeneath, Hash, Copy, Recheck, HashAgain, source
<1>2. /\ pass \in Seq(Block) /\ copy \in Seq(Block) /\ Pinned \in Seq(Block)
      /\ IsPrefixOf(<<>>, Pinned)
  BY PinnedAssumption, PrefixEmpty DEF IInv, Typed
<1>3. CASE OpenBeneath
  <2>1. name # Odd /\ step = "shut" /\ pass = <<>>
    BY <1>3, OddAssumption DEF OpenBeneath, IInv, Fresh
  <2>. QED  BY <1>1, <1>2, <1>3, <2>1 DEF OpenBeneath
<1>4. ASSUME step \in {"hash", "copy", "again"}, IsPrefixOf(pass, Pinned)
      PROVE  /\ held = name /\ data[held] = Pinned
             /\ More /\ Read => IsPrefixOf(pass', Pinned)
             /\ ~More => pass = Pinned
  <2>1. held = name /\ data[held] = Pinned
    BY <1>4
  <2>2. ASSUME More, Read
        PROVE  IsPrefixOf(pass', Pinned)
    <3>1. Len(pass) < Len(Pinned) /\ pass' = Append(pass, Pinned[Len(pass) + 1])
      BY <2>1, <2>2 DEF More, Read
    <3>. QED  BY <1>2, <1>4, <3>1, PrefixGrows
  <2>3. ASSUME ~More
        PROVE  pass = Pinned
    <3>1. ~(Len(pass) < Len(Pinned))
      BY <2>1, <2>3 DEF More
    <3>. QED  BY <1>2, <1>4, <3>1, PrefixWhole
  <2>. QED  BY <2>1, <2>2, <2>3
<1>5. CASE Hash
  <2>1. step = "hash" /\ copy = <<>> /\ IsPrefixOf(pass, Pinned) /\ UNCHANGED <<held, size, copy>>
    BY <1>5 DEF Hash, IInv, Passes
  <2>2. CASE More /\ Read /\ UNCHANGED step
    BY <1>1, <1>4, <2>1, <2>2
  <2>3. CASE ~More /\ pass' = <<>> /\ step' = IF Listed THEN "copy" ELSE "bad"
    BY <1>1, <1>2, <1>4, <2>1, <2>3 DEF Listed
  <2>. QED  BY <1>5, <2>2, <2>3 DEF Hash
<1>6. CASE Copy
  <2>1. /\ step = "copy" /\ pass = copy /\ IsPrefixOf(pass, Pinned)
        /\ UNCHANGED <<held, size>> /\ copy' = pass'
    BY <1>6 DEF Copy
  <2>2. CASE More /\ Read /\ UNCHANGED step
    BY <1>1, <1>4, <2>1, <2>2
  <2>3. CASE ~More /\ UNCHANGED pass /\ step' = "recheck"
    BY <1>1, <1>4, <2>1, <2>3
  <2>. QED  BY <1>6, <2>2, <2>3 DEF Copy
<1>7. CASE Recheck
  BY <1>1, <1>2, <1>7 DEF Recheck
<1>8. CASE HashAgain
  <2>1. /\ step = "again" /\ copy = Pinned /\ IsPrefixOf(pass, Pinned)
        /\ UNCHANGED <<held, size, copy>>
    BY <1>8 DEF HashAgain
  <2>2. CASE More /\ Read /\ UNCHANGED step
    BY <1>1, <1>4, <2>1, <2>2
  <2>3. CASE ~More /\ UNCHANGED pass /\ step' = IF Listed THEN "good" ELSE "bad"
    BY <1>1, <1>4, <2>1, <2>3 DEF Listed
  <2>. QED  BY <1>8, <2>2, <2>3 DEF HashAgain
<1>. QED  BY <1>3, <1>5, <1>6, <1>7, <1>8 DEF Handle

\* The calm stays: nothing replaces a file of the release, of the user or of the
\* prerequisite any more.
LEMMA StaysCalmNext == StaysCalm /\ [Next]_vars => StaysCalm'
<1>. SUFFICES ASSUME StaysCalm, [Next]_vars, calm'
              PROVE  CalmWorld'
  BY DEF StaysCalm
<1>. USE DEF StaysCalm, CalmWorld, world, scene, source
<1>1. CASE Begin \/ Loaded \/ Ask \/ Screen \/ Answer \/ Record \/ Gate
  BY <1>1 DEF Begin, Loaded, Ask, Screen, Answer, Record, Gate, fileVars,
              catalogVars, bounds
<1>2. CASE Loading
  BY <1>2 DEF Loading, Verify, ReadSchema, ReadBytes, Parse, fileVars, bounds
<1>3. CASE WriteOwner \/ NameOwner \/ Under \/ Filled \/ Inspect \/ Select
  BY <1>3 DEF WriteOwner, NameOwner, Under, Filled, Inspect, Select, fileVars,
              catalogVars, bounds
<1>4. CASE Fetch \/ Extract \/ StripRoot \/ WriteNotices \/ Convert
  BY <1>4 DEF Fetch, Extract, StripRoot, WriteNotices, Convert, fileVars,
              catalogVars, bounds
<1>5. CASE Resolve \/ Consult \/ EnsureTool
  BY <1>5 DEF Resolve, Consult, EnsureTool, fileVars, catalogVars, bounds
<1>6. CASE Supply
  <2>1. UNCHANGED <<name, data>>
    BY <1>6 DEF Supply, Handle, OpenBeneath, Hash, Copy, Recheck, HashAgain, Close
  <2>. QED  BY <1>6, <2>1 DEF Supply, catalogVars, bounds
<1>7. CASE Kill \/ LoseReceipt \/ Upgrade \/ Meddle
  BY <1>7 DEF Kill, LoseReceipt, Upgrade, Meddle, Fault, bounds
<1>8. CASE InstallPrerequisite
  BY <1>8 DEF InstallPrerequisite, fileVars, catalogVars, bounds
<1>9. CASE Settle
  BY <1>9 DEF Settle, fileVars, catalogVars
<1>10. CASE Finished \/ UNCHANGED vars
  BY <1>10 DEF Finished, vars, fileVars, catalogVars, bounds
<1>. QED
  BY <1>1, <1>2, <1>3, <1>4, <1>5, <1>6, <1>7, <1>8, <1>9, <1>10 DEF Next, Continue

\* The descriptor is closed on every way out of the step that opened it.
LEMMA OpenWhileFillingNext ==
  TypeOK /\ OpenWhileFilling /\ [Next]_vars => OpenWhileFilling'
<1>. SUFFICES ASSUME TypeOK, OpenWhileFilling, [Next]_vars, step' # "shut"
              PROVE  pc' = "fill" /\ way' = "supplied" /\ at' = 1
  BY DEF OpenWhileFilling
<1>0. way \in DOMAIN Plan /\ at \in 1..Len(Plan[way]) + 1
  BY DEF TypeOK
<1>. USE DEF OpenWhileFilling, Goto, End, Move, Done, Fail, world, scene, fileVars,
             handle
<1>1. CASE Begin \/ Loading \/ Loaded \/ Ask \/ Screen \/ Answer \/ Record \/ Gate
  BY <1>1 DEF Begin, Loading, Loaded, Ask, Screen, Answer, Record, Gate
<1>2. CASE WriteOwner \/ NameOwner \/ Under \/ Inspect \/ Select
  BY <1>2 DEF WriteOwner, NameOwner, Under, Inspect, Select
<1>3. CASE Fetch \/ Extract \/ StripRoot \/ WriteNotices \/ Convert \/ Resolve \/ Filled
  <2>1. step # "shut" => Doing("supply")
    BY <1>0 DEF Doing, Plan
  <2>2. Doing("supply") => ~(Doing("fetch") \/ Doing("extract") \/ Doing("strip")
                                \/ Doing("notices") \/ Doing("convert") \/ Doing("resolve"))
    BY DEF Doing
  <2>3. step' = step
    BY <1>3 DEF Fetch, Extract, StripRoot, WriteNotices, Convert, Resolve, Filled
  <2>4. Filled => ~Doing("supply")
    BY <1>0, PlanLength DEF Filled, Doing
  <2>. QED
    BY <1>3, <2>1, <2>2, <2>3, <2>4
       DEF Fetch, Extract, StripRoot, WriteNotices, Convert, Resolve
<1>4. CASE Consult \/ EnsureTool
  BY <1>4 DEF Consult, EnsureTool
<1>5. CASE Supply
  <2>1. way = "supplied" /\ at = 1
    BY <1>0, <1>5, PlanSteps DEF Supply
  <2>2. UNCHANGED <<at, pc>> /\ way' = way
    BY <1>5 DEF Supply, Close, staged
  <2>. QED  BY <1>5, <2>1, <2>2 DEF Supply, Doing
<1>6. CASE Kill
  BY <1>6 DEF Kill, Close
<1>7. CASE LoseReceipt \/ Upgrade \/ InstallPrerequisite \/ Settle
  BY <1>7 DEF LoseReceipt, Upgrade, InstallPrerequisite, Settle, callVars, staged
<1>8. CASE Meddle
  BY <1>8 DEF Meddle, Disturb, Swap, WriteFile, callVars, staged
<1>9. CASE Finished \/ UNCHANGED vars
  BY <1>9 DEF Finished, vars, callVars, staged
<1>. QED
  BY <1>1, <1>2, <1>3, <1>4, <1>5, <1>6, <1>7, <1>8, <1>9 DEF Next, Continue

\* What is known of every state.
Known == /\ TypeOK /\ IInv /\ CatalogInv /\ Selected
         /\ StaysCalm /\ OpenWhileFilling

\* A step that leaves the supplied file, the receipt and the asset in hand alone
\* keeps the promise, if the call is somewhere it may be.
LEMMA PromiseKept ==
  ASSUME Promising, UNCHANGED <<fileVars, calm, receipt, spec, way>>,
         pc # "load", pc' # "load", Whereabouts',
         pc' = "resolving" => load' \in {"schema", "bytes", "parse", "given"},
         pc \in Beginning => pc' \in Beginning \/ receipt[Binds[Release]] = "whole"
  PROVE  Promising'
<1>1. PassesAgree'
  BY DEF Promising, PassesAgree, fileVars, handle, source, IsPrefixOf
<1>. QED  BY <1>1 DEF Promising

\* A call that begins when all is calm has nothing against it.
LEMMA PromiseMade ==
  ASSUME Known, calm, Begin
  PROVE  Promising'
<1>1. step' = "shut"
  BY DEF Known, OpenWhileFilling, Begin, fileVars, handle
<1>2. pc' = "load" /\ load' = "schema" /\ at' = 1 /\ calm'
  BY DEF Begin
<1>. QED  BY <1>1, <1>2 DEF Promising, PassesAgree, Whereabouts, Beginning

\* The catalog is verified and gives the release's asset,
LEMMA PromiseLoading ==
  ASSUME Known, Promising, Loading \/ Loaded \/ Consult
  PROVE  Promising'
<1>. USE DEF Goto, End
<1>1. CalmWorld /\ CatalogInv /\ calm
  BY DEF Known, StaysCalm, Promising
<1>2. UNCHANGED <<fileVars, calm, receipt, way>>
  BY DEF Loading, Loaded, Consult, world, scene, bounds
<1>3. PassesAgree'
  BY <1>2 DEF Promising, PassesAgree, fileVars, handle, source, IsPrefixOf
<1>4. CASE Loading
  <2>1. load' \in {"bytes", "parse", "given"}
    BY <1>1, <1>4 DEF Loading, Verify, ReadSchema, ReadBytes, Parse, CalmWorld
  <2>2. UNCHANGED <<spec, at, tree, pc>>
    BY <1>4 DEF Loading, callVars, staged
  <2>. QED  BY <1>2, <1>3, <2>1, <2>2 DEF Promising, Whereabouts
<1>5. CASE Loaded
  <2>1. load = "given" /\ pc = "load" /\ parsed = Release
    BY <1>1, <1>5 DEF Loaded, Promising, CatalogInv, Verified
  <2>2. spec' = Release /\ pc' = "ask" /\ UNCHANGED <<at, tree>>
    BY <1>5, <2>1 DEF Loaded, staged
  <2>. QED  BY <1>2, <1>3, <2>1, <2>2 DEF Promising, Whereabouts, Beginning, Entering
<1>6. CASE Consult
  <2>1. load = "given" /\ spec = parsed /\ tool # "external" /\ pc = "resolving"
    BY <1>1, <1>6 DEF Consult, Promising, CatalogInv, Verified, CalmWorld
  <2>2. pc' = "tool" /\ UNCHANGED <<at, tree, spec>>
    BY <1>6, <2>1 DEF Consult, staged
  <2>. QED  BY <1>2, <1>3, <2>1, <2>2 DEF Promising, Whereabouts, Beginning, Entering
<1>. QED  BY <1>4, <1>5, <1>6

\* the user agrees and the receipt is written,
LEMMA PromiseAgreeing ==
  ASSUME Known, Promising, Ask \/ Screen \/ Answer \/ Record
  PROVE  Promising'
<1>. USE DEF Goto, End
<1>1. calm /\ plain /\ pc \in Beginning /\ at = 1
  BY DEF Known, StaysCalm, CalmWorld, Promising, Whereabouts, Ask, Screen, Answer,
         Record, Beginning
<1>2. UNCHANGED <<fileVars, calm, spec, way, at, tree>>
  BY DEF Ask, Screen, Answer, Record, world, scene, bounds, staged
<1>3. spec = Release /\ spec' = Release
  BY <1>1, <1>2 DEF Promising, Beginning
<1>4. pc' \in Beginning \union {"gate"}
  BY <1>1 DEF Ask, Screen, Answer, Record, Beginning
<1>5. pc' = "gate" => receipt'[Binds[Release]] = "whole"
  <2>1. CASE Ask \/ Screen \/ Answer
    BY <1>3, <2>1 DEF Ask, Screen, Answer, Covered
  <2>2. CASE Record
    <3>1. Binds[Release] \in Bindings /\ DOMAIN receipt = Bindings
      BY ReleaseAssumption DEF Bindings, Known, TypeOK
    <3>2. pc' = "gate" => receipt' = [receipt EXCEPT ![Binds[Release]] = "whole"]
      BY <1>3, <2>2 DEF Record
    <3>. QED  BY <3>1, <3>2
  <2>. QED  BY <2>1, <2>2
<1>6. PassesAgree'
  BY <1>2 DEF Promising, PassesAgree, fileVars, handle, source, IsPrefixOf
<1>. QED
  BY <1>1, <1>2, <1>3, <1>4, <1>5, <1>6 DEF Promising, Whereabouts, Beginning, Entering

\* the gates open and the lock is taken, but for a temporary left behind or what is
\* at the path,
LEMMA PromiseEntering ==
  ASSUME Known, Promising, Gate \/ WriteOwner \/ NameOwner \/ Under
  PROVE  Promising' \/ dest' = Lists[Release] \/ LockedOut' \/ Taken'
<1>. USE DEF Goto, End
<1>1. calm /\ pc \in Entering /\ at = 1 /\ receipt[Binds[Release]] = "whole"
      /\ spec = Release
  BY DEF Known, Promising, Whereabouts, Gate, WriteOwner, NameOwner, Under,
         Beginning, Entering
<1>2. UNCHANGED <<fileVars, calm, receipt, spec, way, at, tree, dest>>
  BY DEF Gate, WriteOwner, NameOwner, Under, world, scene, bounds, staged
<1>3. CASE Gate
  BY <1>1, <1>2, <1>3, PromiseKept DEF Gate, Covered, IntegrityReady, Whereabouts,
     Beginning, Entering
<1>4. CASE WriteOwner
  BY <1>1, <1>2, <1>4, PromiseKept DEF WriteOwner, LockedOut, Whereabouts, Beginning, Entering
<1>5. CASE NameOwner
  BY <1>1, <1>2, <1>5, PromiseKept DEF NameOwner, Whereabouts, Beginning, Entering
<1>6. CASE Under
  BY <1>1, <1>2, <1>6, PromiseKept DEF Under, Covered, IntegrityReady, Taken, Whereabouts,
     Beginning, Entering
<1>. QED  BY <1>3, <1>4, <1>5, <1>6

\* the stage is filled from downloads and from the converter,
LEMMA PromiseFilling ==
  ASSUME Known, Promising,
         \/ Fetch \/ Extract \/ StripRoot \/ WriteNotices \/ Convert
         \/ Resolve \/ EnsureTool
  PROVE  Promising'
<1>. USE DEF Goto, End, Done, Fail
<1>0. pc \in {"fill", "tool"}
  BY DEF Fetch, Extract, StripRoot, WriteNotices, Convert, Resolve, EnsureTool, Doing
<1>1. /\ calm /\ archive = "fits" /\ receipt[Binds[Release]] = "whole"
      /\ at \in Nat
  <2>1. calm /\ archive = "fits"
    BY DEF Known, StaysCalm, CalmWorld, Promising
  <2>2. receipt[Binds[Release]] = "whole"
    BY <1>0 DEF Promising, Beginning
  <2>3. at \in Nat
    BY PlanLength DEF Known, TypeOK
  <2>. QED  BY <2>1, <2>2, <2>3
<1>2. UNCHANGED <<fileVars, calm, receipt, spec, way>>
  BY DEF Fetch, Extract, StripRoot, WriteNotices, Convert, Resolve, EnsureTool,
         world, scene, bounds
<1>3. way \in DOMAIN Plan /\ at \in 1..Len(Plan[way]) + 1
  BY DEF Known, TypeOK
<1>4. CASE Fetch \/ Extract \/ Convert
  <2>1. pc' = "fill" /\ tree' = TRUE
    BY <1>0, <1>1, <1>4 DEF Fetch, Extract, Convert
  <2>. QED  BY <1>0, <1>1, <1>2, <2>1, PromiseKept DEF Whereabouts, Beginning
<1>5. CASE StripRoot \/ WriteNotices
  <2>1. tree
    BY <1>3, <1>5, PlanSteps DEF StripRoot, WriteNotices, Doing, Promising, Whereabouts,
                                 Beginning, Entering
  <2>2. pc' = "fill" /\ tree' = tree
    BY <1>1, <1>5 DEF StripRoot, WriteNotices
  <2>. QED  BY <1>0, <1>1, <1>2, <2>1, <2>2, PromiseKept DEF Whereabouts, Beginning
<1>6. CASE Resolve
  <2>1. way = "convert" /\ at = 1
    BY <1>3, <1>6, PlanSteps DEF Resolve
  <2>2. \/ pc' = "fill" /\ at' = 2
        \/ pc' = "resolving" /\ at' = 1 /\ load' = "schema"
    BY <1>6, <2>1 DEF Resolve
  <2>. QED  BY <1>0, <1>1, <1>2, <2>1, <2>2, PromiseKept DEF Whereabouts, Beginning
<1>7. CASE EnsureTool
  <2>1. way = "convert" /\ at = 1
    BY <1>7 DEF EnsureTool, Promising, Whereabouts, Beginning, Entering
  <2>2. pc' = "fill" /\ at' = 2
    BY <1>1, <1>7, <2>1 DEF EnsureTool
  <2>. QED  BY <1>0, <1>1, <1>2, <2>1, <2>2, PromiseKept DEF Whereabouts, Beginning
<1>. QED  BY <1>4, <1>5, <1>6, <1>7

\* or from the supplied file,
LEMMA PromiseSupply ==
  ASSUME Known, Promising, Supply
  PROVE  Promising'
<1>. USE DEF Goto, Done, Fail
<1>1. way = "supplied" /\ at = 1 /\ pc = "fill"
  BY PlanSteps DEF Known, TypeOK, Supply, Doing
<1>2. /\ calm /\ name \in Inode /\ data[name] = Pinned
      /\ receipt[Binds[Release]] = "whole" /\ spec = Release
  BY <1>1 DEF Known, StaysCalm, CalmWorld, Promising, Beginning
<1>3. UNCHANGED <<calm, receipt, spec, way>>
  BY DEF Supply, world, scene, bounds
<1>4. CASE Handle /\ UNCHANGED <<staged, pc, result>>
  <2>1. PassesAgree'
    BY <1>2, <1>4, PassesAgreeHandle DEF Known, Promising
  <2>. QED
    BY <1>1, <1>2, <1>3, <1>4, <2>1 DEF Promising, Whereabouts, staged, Beginning
<1>5. CASE step = "good" /\ Close /\ Done /\ tree' = (copy = Pinned)
  <2>1. copy = Pinned
    BY <1>5 DEF Promising, PassesAgree
  <2>2. PassesAgree' /\ pc' = "fill" /\ tree'
    BY <1>5, <2>1 DEF Close, PassesAgree
  <2>. QED  BY <1>1, <1>2, <1>3, <2>2 DEF Promising, Whereabouts, Beginning
<1>6. step # "bad"
  BY DEF Promising, PassesAgree
<1>. QED  BY <1>4, <1>5, <1>6 DEF Supply

\* and what was staged is checked and selected.
LEMMA PromiseSelecting ==
  ASSUME Known, Promising, Filled \/ Inspect \/ Select
  PROVE  Promising' \/ dest' = Lists[Release]
<1>. USE DEF Goto, End, Move
<1>1. UNCHANGED <<fileVars, calm, receipt, spec, way, at, tree>>
  BY DEF Filled, Inspect, Select, world, scene, bounds, staged
<1>2. calm /\ receipt[Binds[Release]] = "whole" /\ spec = Release
  BY DEF Promising, Filled, Inspect, Select, Beginning
<1>3. tree
  <2>1. way \in DOMAIN Plan /\ at \in 1..Len(Plan[way]) + 1
    BY DEF Known, TypeOK
  <2>. QED
    BY <2>1, PlanSteps DEF Promising, Whereabouts, Filled, Inspect, Select, Beginning, Entering
<1>. QED
  BY <1>1, <1>2, <1>3, PromiseKept DEF Filled, Inspect, Select, Covered, Whereabouts, Beginning

\* While nothing has gone wrong with a call, every step keeps it so or ends with
\* the asset, or finds the temporary or other files at the asset's path.
LEMMA PromiseNext ==
  ASSUME Known, Promising, [Next]_vars
  PROVE  Promising' \/ dest' = Lists[Release] \/ LockedOut' \/ Taken'
<1>1. calm /\ pc # "idle" /\ tool # "external"
  BY DEF Promising, Whereabouts, Beginning, Entering, Known, StaysCalm, CalmWorld
<1>2. CASE Loading \/ Loaded \/ Consult
  BY <1>2, PromiseLoading
<1>3. CASE Ask \/ Screen \/ Answer \/ Record
  BY <1>3, PromiseAgreeing
<1>4. CASE Gate \/ WriteOwner \/ NameOwner \/ Under
  BY <1>4, PromiseEntering
<1>5. CASE \/ Fetch \/ Extract \/ StripRoot \/ WriteNotices \/ Convert
           \/ Resolve \/ EnsureTool
  BY <1>5, PromiseFilling
<1>6. CASE Supply
  BY <1>6, PromiseSupply
<1>7. CASE Filled \/ Inspect \/ Select
  BY <1>7, PromiseSelecting
<1>8. ~(Begin \/ Finished)
  BY <1>1 DEF Begin, Finished
<1>9. ~(Kill \/ LoseReceipt \/ Upgrade \/ Meddle \/ Settle \/ InstallPrerequisite)
  BY <1>1 DEF Kill, LoseReceipt, Upgrade, Meddle, Settle, InstallPrerequisite, Fault
<1>10. CASE UNCHANGED vars
  BY <1>10 DEF vars, fileVars, handle, source, catalogVars, world, scene, callVars,
               staged, bounds, Promising, PassesAgree, Whereabouts, IsPrefixOf
<1>. QED
  BY <1>2, <1>3, <1>4, <1>5, <1>6, <1>7, <1>8, <1>9, <1>10 DEF Next, Continue

\* What is known of every state is so at first, and stays.
LEMMA KnownHolds == Spec => []Known
<1>1. Init => CatalogInv /\ Selected /\ StaysCalm /\ OpenWhileFilling
  BY CatalogInvInit, SelectedInit DEF Init, StaysCalm, OpenWhileFilling, FileInit
<1>2. Spec => [](TypeOK /\ IInv)
  BY TypeCorrect, SuppliedFileInUse, FileInvariance, PTL
<1>. QED
  BY <1>1, <1>2, CatalogInvNext, SelectedNext, StaysCalmNext, OpenWhileFillingNext, PTL
     DEF Spec, Known

\* A call that begins when all is calm goes well until the release's asset is there,
\* unless an owner file's temporary was left behind or other files, such as another
\* version's, are at the asset's path: nothing else ends it in an error.
THEOREM CalmCallGoesWellHolds == Spec => CalmCallGoesWell
<1>1. Known /\ [Next]_vars =>
        [/\ calm /\ Begin => Promising'
         /\ Promising => Promising' \/ dest' = Lists[Release] \/ LockedOut' \/ Taken']_vars
  BY PromiseMade, PromiseNext
<1>. QED  BY <1>1, KnownHolds, PTL DEF Spec, CalmCallGoesWell
-----------------------------------------------------------------------------
(* And it comes to an end.                                                 *)

\* How many steps the passes over the supplied file still take at most,
Passing ==
  LET left == Len(Pinned) - Len(pass)
  IN  CASE step = "shut" -> 3 * Len(Pinned) + 6
        [] step = "hash" -> 2 * Len(Pinned) + 5 + left
        [] step = "copy" -> Len(Pinned) + 4 + left
        [] step = "recheck" -> Len(Pinned) + 3
        [] step = "again" -> 2 + left
        [] step = "good" -> 1
        [] step = "bad" -> 0

\* the verification of the catalog,
Verifying == CASE load = "schema" -> 4
               [] load = "bytes" -> 3
               [] load = "parse" -> 2
               [] load = "given" -> 1
               [] OTHER -> 0

\* the stage, from the lock on,
Entered == 3 * Len(Pinned) + 15

\* and the whole call.
Ahead == CASE pc = "load" -> Entered + 7 + Verifying
           [] pc = "ask" -> Entered + 7
           [] pc = "screen" -> Entered + 6
           [] pc = "answer" -> Entered + 5
           [] pc = "record" -> Entered + 4
           [] pc = "gate" -> Entered + 3
           [] pc = "own" -> Entered + 2
           [] pc = "name" -> Entered + 1
           [] pc = "under" -> Entered
           [] pc = "fill" /\ at = 1 -> 8 + (IF way = "supplied" THEN Passing ELSE 5)
           [] pc = "resolving" -> 8 + Verifying
           [] pc = "tool" -> 8
           [] pc = "fill" /\ at # 1 -> 9 - at
           [] pc = "inspect" -> 2
           [] pc = "select" -> 1
           [] pc = "idle" -> 0

\* A call of the calm comes nearer to its end with each of its steps: none of the
\* checks sends it back, and the passes over the file it copies are as long as
\* the file that is listed.
CalmCallAdvances == /\ [](Promising => Ahead \in Nat)
                    /\ [][Promising /\ Continue => Ahead' < Ahead]_vars

\* The numbers of steps are numbers.
LEMMA AheadTyped ==
  ASSUME Known, Promising
  PROVE  /\ Len(Pinned) \in Nat /\ Len(pass) \in Nat
         /\ Passing \in Nat /\ Verifying \in 0..4
         /\ at \in 1..6
         /\ Ahead \in Nat
<1>1. Len(Pinned) \in Nat /\ Len(pass) \in Nat
  BY PinnedAssumption DEF Known, IInv, Typed
<1>2. step \in {"shut", "hash", "copy", "recheck", "again", "good"}
  BY DEF Promising, PassesAgree
<1>3. step \in {"hash", "copy", "again"} => Len(pass) <= Len(Pinned)
  BY DEF Promising, PassesAgree, IsPrefixOf
<1>4. Passing \in Nat
  BY <1>1, <1>2, <1>3 DEF Passing
<1>5. Verifying \in 0..4
  BY DEF Verifying
<1>6. at \in 1..6
  <2>1. at \in 1..Len(Plan[way]) + 1 /\ way \in DOMAIN Plan
    BY DEF Known, TypeOK
  <2>2. Len(Plan[way]) \in 2..5
    BY <2>1 DEF Plan
  <2>3. \A n \in 2..5 : \A k \in 1..n + 1 : k \in 1..6
    OBVIOUS
  <2>. QED  BY <2>1, <2>2, <2>3
<1>7. pc \in {"load", "ask", "screen", "answer", "record", "gate", "own", "name", "under",
              "fill", "resolving", "tool", "inspect", "select"}
  BY DEF Promising, Whereabouts, Beginning, Entering
<1>8. Entered \in Nat
  BY <1>1 DEF Entered
<1>9. Ahead \in Nat
  BY <1>4, <1>5, <1>6, <1>7, <1>8 DEF Ahead
<1>. QED  BY <1>1, <1>4, <1>5, <1>6, <1>9

\* A pass over the undisturbed file ends with its last block.
LEMMA PassingHandle ==
  ASSUME Known, Promising, name \in Inode, data[name] = Pinned, Handle
  PROVE  Passing' < Passing
<1>. USE DEF Passing
<1>0. /\ Len(Pinned) \in Nat /\ pass \in Seq(Block) /\ Len(<<>>) = 0
      /\ step # "shut" => held = name /\ data[held] = Pinned
  BY PinnedAssumption DEF Known, IInv, Typed, Promising, PassesAgree
<1>1. step \in {"hash", "copy", "again"} => Len(pass) <= Len(Pinned)
  BY DEF Promising, PassesAgree, IsPrefixOf
<1>2. ASSUME step # "shut", More, Read
      PROVE  Len(pass') = Len(pass) + 1
  BY <1>0, <1>2, LenProperties, AppendProperties, PinnedAssumption, ElementOfSeq DEF Read, More
<1>3. CASE OpenBeneath
  <2>1. pass = <<>> /\ pass' = pass /\ step = "shut" /\ step' \in {"bad", "hash"}
    BY <1>3 DEF OpenBeneath, Known, IInv, Fresh
  <2>. QED  BY <1>0, <2>1
<1>4. CASE Hash
  <2>1. CASE More /\ Read /\ step' = "hash" /\ step = "hash"
    BY <1>0, <1>1, <1>2, <2>1
  <2>2. CASE pass' = <<>> /\ step' \in {"copy", "bad"} /\ step = "hash"
    BY <1>0, <1>1, <2>2
  <2>. QED  BY <1>4, <2>1, <2>2 DEF Hash
<1>5. CASE Copy
  <2>1. CASE More /\ Read /\ step' = "copy" /\ step = "copy"
    BY <1>0, <1>1, <1>2, <2>1
  <2>2. CASE pass' = pass /\ step' = "recheck" /\ step = "copy"
    BY <1>0, <1>1, <2>2
  <2>. QED  BY <1>5, <2>1, <2>2 DEF Copy
<1>6. CASE Recheck
  <2>1. pass' = <<>> /\ step = "recheck" /\ step' \in {"again", "bad"}
    BY <1>6 DEF Recheck
  <2>. QED  BY <1>0, <2>1
<1>7. CASE HashAgain
  <2>1. CASE More /\ Read /\ step' = "again" /\ step = "again"
    BY <1>0, <1>1, <1>2, <2>1
  <2>2. CASE pass' = pass /\ step' \in {"good", "bad"} /\ step = "again"
    BY <1>0, <1>1, <2>2
  <2>. QED  BY <1>7, <2>1, <2>2 DEF HashAgain
<1>. QED  BY <1>3, <1>4, <1>5, <1>6, <1>7 DEF Handle

\* Each step of a call leads onwards.
LEMMA AheadNext ==
  ASSUME Known, Promising, Continue
  PROVE  Ahead' < Ahead
<1>. USE DEF Goto, End, Move, Done, Fail
<1>0. /\ Len(Pinned) \in Nat /\ Passing \in Nat /\ Verifying \in 0..4 /\ at \in 1..6
      /\ Ahead \in Nat
  BY AheadTyped
<1>1. Entered \in Nat /\ Entered = 3 * Len(Pinned) + 15
  BY <1>0 DEF Entered
<1>2. pc # "fill" => step = "shut"
  BY DEF Known, OpenWhileFilling
<1>3. pc' = "idle" /\ pc # "idle" => Ahead' < Ahead
  <2>1. pc' = "idle" => Ahead' = 0
    BY DEF Ahead
  <2>2. pc # "idle" => Ahead > 0
    <3>1. pc \in {"load", "ask", "screen", "answer", "record", "gate", "own", "name", "under",
                  "fill", "resolving", "tool", "inspect", "select"}
      BY DEF Promising, Whereabouts, Beginning, Entering
    <3>. QED  BY <1>0, <1>1, <3>1 DEF Ahead
  <2>. QED  BY <2>1, <2>2
<1>4. CASE Loading
  <2>1. Verifying' < Verifying
    BY <1>4 DEF Loading, Verify, ReadSchema, ReadBytes, Parse, Verifying
  <2>2. pc' = pc /\ pc \in {"load", "resolving"} /\ Verifying' \in 0..4
    BY <1>4 DEF Loading, callVars, Verifying
  <2>. QED  BY <1>0, <1>1, <2>1, <2>2 DEF Ahead, Entered
<1>5. CASE Loaded
  <2>1. pc = "load" /\ pc' \in {"ask", "idle"} /\ Verifying > 0
    BY <1>5 DEF Loaded, Verifying, Promising
  <2>. QED  BY <1>0, <1>1, <1>3, <2>1 DEF Ahead, Entered
<1>6. CASE Ask \/ Screen \/ Answer \/ Record
  <2>1. \/ pc' = "idle" /\ pc # "idle"
        \/ pc = "ask" /\ pc' \in {"screen", "gate"}
        \/ pc = "screen" /\ pc' = "answer"
        \/ pc = "answer" /\ pc' = "record"
        \/ pc = "record" /\ pc' = "gate"
    BY <1>6 DEF Ask, Screen, Answer, Record
  <2>2. CASE pc = "ask" /\ pc' \in {"screen", "gate"}
    BY <1>1, <2>2 DEF Ahead, Entered
  <2>3. CASE pc = "screen" /\ pc' = "answer"
    BY <1>1, <2>3 DEF Ahead, Entered
  <2>4. CASE pc = "answer" /\ pc' = "record"
    BY <1>1, <2>4 DEF Ahead, Entered
  <2>5. CASE pc = "record" /\ pc' = "gate"
    BY <1>1, <2>5 DEF Ahead, Entered
  <2>. QED  BY <1>3, <2>1, <2>2, <2>3, <2>4, <2>5
<1>7. CASE Gate \/ WriteOwner \/ NameOwner
  <2>1. \/ pc' = "idle" /\ pc # "idle"
        \/ pc = "gate" /\ pc' = "own"
        \/ pc = "own" /\ pc' = "name"
        \/ pc = "name" /\ pc' = "under"
    BY <1>7 DEF Gate, WriteOwner, NameOwner
  <2>2. CASE pc = "gate" /\ pc' = "own"
    BY <1>1, <2>2 DEF Ahead, Entered
  <2>3. CASE pc = "own" /\ pc' = "name"
    BY <1>1, <2>3 DEF Ahead, Entered
  <2>4. CASE pc = "name" /\ pc' = "under"
    BY <1>1, <2>4 DEF Ahead, Entered
  <2>. QED  BY <1>3, <2>1, <2>2, <2>3, <2>4
<1>8. CASE Under
  <2>1. /\ pc = "under" /\ pc' \in {"idle", "fill"}
        /\ at' = at /\ way' = way /\ step' = step
    BY <1>8 DEF Under, world, scene, staged, fileVars, handle
  <2>2. at = 1 /\ step = "shut"
    BY <1>2, <2>1 DEF Promising, Whereabouts, Beginning, Entering
  <2>3. Passing' = 3 * Len(Pinned) + 6
    BY <2>1, <2>2 DEF Passing
  <2>. QED  BY <1>0, <1>1, <1>3, <2>1, <2>2, <2>3 DEF Ahead
<1>9. ASSUME pc = "fill", at' = at + 1, pc' = "fill", way' = way,
             at = 1 /\ way = "supplied" => Passing > 0
      PROVE  Ahead' < Ahead
  <2>1. Ahead' = 9 - (at + 1)
    BY <1>0, <1>9 DEF Ahead
  <2>2. Ahead > 9 - (at + 1)
    BY <1>0, <1>9 DEF Ahead
  <2>. QED  BY <2>1, <2>2
<1>10. CASE Fetch \/ Extract \/ StripRoot \/ WriteNotices \/ Convert
  <2>1. /\ pc = "fill" /\ way' = way
        /\ pc' = "idle" \/ (at' = at + 1 /\ pc' = "fill")
    BY <1>10 DEF Fetch, Extract, StripRoot, WriteNotices, Convert, Doing, world, scene
  <2>2. at = 1 /\ way = "supplied" => Doing("supply")
    BY <2>1 DEF Doing, Plan
  <2>3. ~Doing("supply")
    BY <1>10 DEF Fetch, Extract, StripRoot, WriteNotices, Convert, Doing
  <2>. QED  BY <1>3, <1>9, <2>1, <2>2, <2>3
<1>11. CASE Resolve
  <2>1. way \in DOMAIN Plan /\ at \in 1..Len(Plan[way]) + 1
    BY DEF Known, TypeOK
  <2>2. way = "convert" /\ at = 1 /\ pc = "fill" /\ way' = way
    BY <1>11, <2>1, PlanSteps DEF Resolve, Doing, world, scene
  <2>3. \/ at' = at + 1 /\ pc' = "fill"
        \/ pc' = "resolving" /\ load' = "schema"
    BY <1>11 DEF Resolve
  <2>4. load' = "schema" => Verifying' = 4
    BY DEF Verifying
  <2>. QED  BY <1>0, <1>9, <2>2, <2>3, <2>4 DEF Ahead
<1>12. CASE Consult
  <2>1. pc = "resolving" /\ pc' \in {"idle", "tool"} /\ Verifying > 0
    BY <1>12 DEF Consult, Verifying, Promising
  <2>. QED  BY <1>0, <1>3, <2>1 DEF Ahead
<1>13. CASE EnsureTool
  <2>1. pc = "tool" /\ (pc' = "idle" \/ (pc' = "fill" /\ at' = at + 1))
    BY <1>13 DEF EnsureTool
  <2>. QED  BY <1>0, <1>3, <2>1 DEF Ahead
<1>14. CASE Supply
  <2>1. way = "supplied" /\ at = 1 /\ pc = "fill"
    BY <1>14, PlanSteps DEF Known, TypeOK, Supply, Doing
  <2>2. name \in Inode /\ data[name] = Pinned /\ way' = way
    BY <1>14, <2>1 DEF Known, StaysCalm, CalmWorld, Promising, Supply, world, scene
  <2>3. CASE Handle /\ UNCHANGED <<staged, pc, result>>
    <3>1. Passing' < Passing
      BY <2>2, <2>3, PassingHandle
    <3>2. pc' = pc /\ at' = at
      BY <2>3 DEF staged
    <3>3. Ahead = 8 + Passing /\ Ahead' = 8 + Passing'
      BY <2>1, <2>2, <3>2 DEF Ahead
    <3>4. Passing' \in Int
      <4>1. IInv'
        BY <2>3, IInvNext DEF Known, FileNext
      <4>2. Len(pass') \in Nat /\ step' \in Step
        BY <4>1 DEF IInv, Typed
      <4>. QED  BY <1>0, <4>2 DEF Passing, Step
    <3>5. \A m, n \in Int : m < n => 8 + m < 8 + n
      OBVIOUS
    <3>6. Passing \in Int
      BY <1>0
    <3>. QED  BY <3>1, <3>3, <3>4, <3>5, <3>6
  <2>4. CASE step = "bad" /\ Fail
    BY <1>3, <2>1, <2>4
  <2>5. CASE step = "good" /\ Done
    <3>1. Passing = 1
      BY <2>5 DEF Passing
    <3>. QED  BY <1>9, <2>1, <2>2, <2>5, <3>1
  <2>. QED  BY <1>14, <2>3, <2>4, <2>5 DEF Supply
<1>15. CASE Filled \/ Inspect \/ Select
  <2>1. \/ pc' = "idle" /\ pc # "idle"
        \/ pc = "fill" /\ pc' = "inspect"
        \/ pc = "inspect" /\ pc' = "select"
    BY <1>15 DEF Filled, Inspect, Select
  <2>2. CASE pc = "fill" /\ pc' = "inspect"
    <3>1. Ahead' = 2 /\ Ahead > 2
      BY <1>0, <2>2 DEF Ahead
    <3>. QED  BY <3>1
  <2>3. CASE pc = "inspect" /\ pc' = "select"
    BY <2>3 DEF Ahead
  <2>. QED  BY <1>3, <2>1, <2>2, <2>3
<1>. QED
  BY <1>4, <1>5, <1>6, <1>7, <1>8, <1>10, <1>11, <1>12, <1>13, <1>14, <1>15 DEF Continue

\* A call that begins when all is calm takes a bounded number of steps.
THEOREM CalmCallAdvancesHolds == Spec => CalmCallAdvances
<1>1. Known => (Promising => Ahead \in Nat)
  BY AheadTyped
<1>2. Known /\ [Next]_vars => [Promising /\ Continue => Ahead' < Ahead]_vars
  BY AheadNext
<1>. QED  BY <1>1, <1>2, KnownHolds, PTL DEF Spec, CalmCallAdvances
=============================================================================
