----------------------------- MODULE FetchExact -----------------------------
(***************************************************************************)
(* fetch_exact and _fetch_one of kilix_content/fetch.py: one exact file    *)
(* from a list of candidate URLs, kept as a partial file and a sidecar     *)
(* when the call is interrupted and resumed by the next call for the same  *)
(* asset.  The file is Blocks reads long and big enough to be resumed.     *)
(*                                                                         *)
(* The upstream may fail, ignore ranges, cut a body short, serve another   *)
(* version of the file or change it between requests; the caller may       *)
(* cancel at any check; the process may be killed between two system calls.*)
(***************************************************************************)
EXTENDS Naturals, Sequences

CONSTANTS Blocks,       \* reads in the whole file (expected_bytes)
          Candidates,   \* the URLs, in the order they are tried
          NoFile,       \* "no such file"
          NoUrl,        \* "no sidecar"
          MaxTroubles,  \* bound: failures and changes of the upstream, cancels
          MaxFaults     \* bound: failed system calls and killed processes

Url == {Candidates[k] : k \in DOMAIN Candidates}

ASSUME FileAssumption  == Blocks \in Nat \ {0} /\ NoUrl \notin Url
\* fetch_exact refuses an empty list before it does anything.
ASSUME ListAssumption == Candidates \in Seq(Url) /\ Candidates # <<>>
\* No mirror is listed twice: every caller in the repository passes one URL.
ASSUME DistinctAssumption ==
         \A m, n \in DOMAIN Candidates : Candidates[m] = Candidates[n] => m = n
ASSUME BoundAssumption == {MaxTroubles, MaxFaults} \subseteq Nat

VARIABLES part,     \* 0.part: the versions its blocks come from, or NoFile
          side,     \* 0.part.sidecar: [url, tag]
          tmp,      \* 0.part.sidecar.tmp exists
          dest,     \* the destination, in the stage of this call
          upstream, \* [ver: what each URL serves, tags, ranges: what it supports]
          pc, k,    \* where the call is, and the candidate it is at
          already,  \* length of the partial when the call began
          start,    \* offset this request resumes at
          tag,      \* validator this request sends or its response carries
          body,     \* version of the file the response carries
          fed,      \* blocks fed to the digest
          stalled,  \* a read of this response has timed out
          kind,     \* why the current candidate failed (DownloadError.kind)
          outcome,  \* what the last call came to
          tainted,  \* the upstream has ever sent a block of another version
          owed,     \* blocks an interrupted call left, until they are asked past
          hurt,     \* a fault happened during this call
          troubles, faults

disk == <<part, side, tmp, dest>>
request == <<already, start, tag, body, fed, stalled>>
history == <<tainted, owed>>
bounds == <<troubles, faults, hurt>>
vars == <<disk, upstream, pc, k, request, kind, outcome, history, bounds>>

Version == {"good", "bad"}             \* "good": the pinned bytes
Pinned == [n \in 1..Blocks |-> "good"]
FileOf(n) == UNION {[1..m -> Version] : m \in 0..n}
ASSUME NoFileAssumption == NoFile \notin FileOf(Blocks)
NoTag == "none"
NoSidecar == [url |-> NoUrl, tag |-> NoTag]
Kinds == {"offline", "http-status", "size-mismatch", "digest-mismatch",
          "cancelled", "no-space"}     \* "offline" for every failed connection,
                                       \* "cancelled" for the deadline too

TypeOK == /\ part \in FileOf(Blocks) \union {NoFile}
          /\ side \in [url : Url \union {NoUrl}, tag : Version \union {NoTag}]
          /\ tmp \in BOOLEAN
          /\ dest \in FileOf(Blocks) \union {NoFile}
          /\ upstream \in [ver : [Url -> Version], tags : BOOLEAN, ranges : BOOLEAN]
          /\ pc \in {"idle", "candidate", "prepare", "connect", "file", "read",
                     "verify", "clean", "failed", "keep", "name"}
          /\ k \in DOMAIN Candidates
          /\ already \in 0..Blocks /\ start \in 0..Blocks - 1
          /\ tag \in Version \union {NoTag}
          /\ body \in Version
          /\ fed \in FileOf(Blocks)
          /\ stalled \in BOOLEAN
          /\ kind \in Kinds \union {"none"}
          /\ outcome \in Kinds \union {"none", "ok", "killed", "oserror"}
          /\ tainted \in BOOLEAN /\ hurt \in BOOLEAN
          /\ owed \in 0..Blocks
          /\ troubles \in 0..MaxTroubles
          /\ faults \in 0..MaxFaults

Init == /\ part = NoFile
        /\ side = NoSidecar
        /\ tmp = FALSE
        /\ dest = NoFile
        /\ upstream \in [ver : [Url -> Version], tags : BOOLEAN, ranges : BOOLEAN]
        /\ pc = "idle" /\ k = 1
        /\ already = 0 /\ start = 0
        /\ tag = NoTag /\ body = "good" /\ fed = <<>> /\ stalled = FALSE
        /\ kind = "none" /\ outcome = "none"
        /\ tainted = FALSE /\ hurt = FALSE
        /\ owed = 0
        /\ troubles = 0
        /\ faults = 0
-----------------------------------------------------------------------------
url == Candidates[k]

Trouble == troubles < MaxTroubles /\ troubles' = troubles + 1
           /\ UNCHANGED <<faults, hurt>>
Fault == faults < MaxFaults /\ faults' = faults + 1 /\ hurt' = TRUE
         /\ UNCHANGED troubles

\* DownloadError: on to the next candidate, or, keeping the partial, the sidecar.
Fail(why) == pc' = "failed" /\ kind' = why
FailKeeping(why) == pc' = "keep" /\ kind' = why

\* The call ends with what it raises or returns.
End(what) == pc' = "idle" /\ outcome' = what /\ kind' = "none"

DeletePartial == part' = NoFile /\ side' = NoSidecar

\* fetch_exact begins: a partial that is not shorter than the file is dropped.
\* The stage, and with it the destination, is new.
Call ==
  /\ pc = "idle" /\ outcome # "ok"
  /\ \/ /\ part # NoFile /\ Len(part) >= Blocks
        /\ DeletePartial
        /\ already' = 0
     \/ /\ part # NoFile /\ Len(part) < Blocks
        /\ already' = Len(part)
        /\ UNCHANGED <<part, side>>
     \/ part = NoFile /\ already' = 0 /\ UNCHANGED <<part, side>>
  /\ dest' = NoFile
  /\ k' = 1
  /\ hurt' = FALSE
  /\ outcome' = "none"
  /\ pc' = "candidate"
  /\ UNCHANGED <<tmp, upstream, start, tag, body, fed, stalled, kind, history,
                 troubles, faults>>

\* The caller cancels, or the deadline passes, at the check before a request; or
\* the disk preflight refuses.
StopBeforeRequest ==
  /\ pc = "candidate"
  /\ Trouble
  /\ \/ End("cancelled")
     \/ k = 1 /\ End("no-space")
  /\ UNCHANGED <<disk, upstream, k, request, history>>

\* _fetch_one decides to resume when the sidecar is this URL's.
Prepare ==
  /\ pc = "candidate"
  /\ pc' = "connect"
  /\ \/ /\ already \in 1..Blocks - 1 /\ side.url = url
        /\ start' = already /\ tag' = side.tag
        /\ UNCHANGED <<part, side>>
     \/ /\ already \in 1..Blocks - 1 /\ side.url # url
        /\ DeletePartial
        /\ start' = 0 /\ tag' = NoTag
     \/ /\ already \notin 1..Blocks - 1
        /\ start' = 0 /\ tag' = NoTag
        /\ UNCHANGED <<part, side>>
  /\ UNCHANGED <<tmp, dest, upstream, k, already, body, fed, stalled, kind, outcome,
                 history, bounds>>

\* The range is honoured when it is supported and If-Range, if sent, matches.
Honoured == upstream.ranges /\ tag \in {NoTag, upstream.ver[url]}

\* The response: 206 from the offset asked for, or 200 and the partial goes.
Connect ==
  /\ pc = "connect"
  /\ pc' = "file"
  /\ body' = upstream.ver[url]
  /\ \/ (start = 0 \/ Honoured) /\ UNCHANGED <<part, side, start>>
     \/ start > 0 /\ ~Honoured /\ DeletePartial /\ start' = 0
  /\ stalled' = FALSE
  /\ owed' = 0
  /\ UNCHANGED <<tmp, dest, upstream, k, already, tag, fed, kind, outcome, tainted,
                 bounds>>

\* No connection, another status, or a Content-Range that is not what was asked
\* for; a wrong Content-Length is noticed after a 200 has dropped the partial.
ConnectFails ==
  /\ pc = "connect"
  /\ Trouble
  /\ \/ \E why \in {"offline", "http-status", "size-mismatch"} :
          Fail(why) /\ UNCHANGED <<part, side, owed>>
     \/ Fail("size-mismatch") /\ start > 0 /\ DeletePartial /\ owed' = 0
  /\ UNCHANGED <<tmp, dest, upstream, k, request, outcome, tainted>>

\* Mutant: what the partial already holds is not fed to the digest.
MutOpenFileUnhashed ==
  /\ pc = "file"
  /\ pc' = "read"
  /\ fed' = <<>>
  /\ part' = IF start > 0 THEN SubSeq(part, 1, start) ELSE <<>>
  /\ UNCHANGED <<side, tmp, dest, upstream, k, already, start, tag, body, stalled,
                 kind, outcome, history, bounds>>

\* The partial is hashed whole and cut at the offset, or opened empty.
OpenFile ==
  /\ pc = "file"
  /\ pc' = "read"
  /\ \/ start > 0 /\ fed' = part /\ part' = SubSeq(part, 1, start)
     \/ start = 0 /\ fed' = <<>> /\ part' = <<>>
  /\ UNCHANGED <<side, tmp, dest, upstream, k, already, start, tag, body, stalled,
                 kind, outcome, history, bounds>>

\* count of the code: the body is read until it reaches expected_bytes.
Count == Len(part)

\* Mutant: the body is read to its end, however long.
MutReadBlockUnbounded ==
  /\ pc = "read" /\ ~stalled
  /\ part' = Append(part, body)
  /\ fed' = Append(fed, body)
  /\ tainted' = (tainted \/ body = "bad") /\ UNCHANGED owed
  /\ UNCHANGED <<side, tmp, dest, upstream, pc, k, already, start, tag, body,
                 stalled, kind, outcome, bounds>>

ReadBlock ==
  /\ pc = "read" /\ Count < Blocks /\ ~stalled
  /\ part' = Append(part, body)
  /\ fed' = Append(fed, body)
  /\ tainted' = (tainted \/ body = "bad") /\ UNCHANGED owed
  /\ UNCHANGED <<side, tmp, dest, upstream, pc, k, already, start, tag, body,
                 stalled, kind, outcome, bounds>>

\* Mutant: a cancelled read writes no sidecar.
MutStopReadingForgets ==
  /\ pc = "read" /\ Count < Blocks
  /\ Trouble
  /\ Fail("cancelled")
  /\ UNCHANGED <<disk, upstream, k, request, outcome, history>>

\* cancelled() or the deadline, between two reads or after one that timed out.
StopReading ==
  /\ pc = "read" /\ Count < Blocks
  /\ Trouble
  /\ FailKeeping("cancelled")
  /\ UNCHANGED <<disk, upstream, k, request, outcome, history>>

\* A read times out; the loop continues, but the socket answers no read again.
ReadTimesOut ==
  /\ pc = "read" /\ Count < Blocks /\ ~stalled
  /\ Trouble
  /\ stalled' = TRUE
  /\ UNCHANGED <<disk, upstream, pc, k, already, start, tag, body, fed, kind,
                 outcome, history>>

\* Mutant: the refusal is taken for one more timeout.
MutReadAfterTimeoutWaits ==
  /\ pc = "read" /\ Count < Blocks /\ stalled
  /\ UNCHANGED vars

ReadAfterTimeout ==
  /\ pc = "read" /\ Count < Blocks /\ stalled
  /\ FailKeeping("offline")
  /\ UNCHANGED <<disk, upstream, k, request, outcome, history, bounds>>

\* Reset; end before or data after the last byte.  The latter drops the partial.
ReadFails ==
  /\ pc = "read"
  /\ Trouble
  /\ \/ Count < Blocks /\ FailKeeping("offline") /\ UNCHANGED <<part, side>>
     \/ Count < Blocks /\ Fail("size-mismatch") /\ UNCHANGED <<part, side>>
     \/ Fail("size-mismatch") /\ DeletePartial
  /\ UNCHANGED <<tmp, dest, upstream, k, request, outcome, history>>

ReadEnds ==
  /\ pc = "read" /\ Count = Blocks
  /\ pc' = "verify"
  /\ UNCHANGED <<disk, upstream, k, request, kind, outcome, history, bounds>>

\* Mutant: the length is taken for the digest.
MutVerifyLength ==
  /\ pc = "verify"
  /\ dest' = part /\ part' = NoFile
  /\ pc' = "clean"
  /\ UNCHANGED <<side, tmp, upstream, k, request, kind, outcome, history, bounds>>

\* The digest decides: os.replace onto the destination, or the partial goes.
Verify ==
  /\ pc = "verify"
  /\ \/ fed = Pinned /\ dest' = part /\ part' = NoFile /\ pc' = "clean"
        /\ UNCHANGED <<side, kind>>
     \/ fed # Pinned /\ Fail("digest-mismatch") /\ DeletePartial /\ UNCHANGED dest
  /\ UNCHANGED <<tmp, upstream, k, request, outcome, history, bounds>>

\* The sidecar is unlinked once the destination is in place.
Clean ==
  /\ pc = "clean"
  /\ side' = NoSidecar
  /\ End("ok")
  /\ UNCHANGED <<part, tmp, dest, upstream, k, request, history, bounds>>

\* The next candidate is tried with the same `already`; the last error is raised.
NextCandidate ==
  /\ pc = "failed"
  /\ IF kind = "cancelled" \/ k = Len(Candidates)
       THEN /\ End(kind)
            /\ owed' = IF kind = "cancelled" /\ k = 1 THEN Len(part) ELSE owed
            /\ UNCHANGED k
       ELSE /\ k' = k + 1 /\ pc' = "candidate" /\ kind' = "none"
            /\ owed' = 0
            /\ UNCHANGED outcome
  /\ UNCHANGED <<disk, upstream, request, tainted, bounds>>

\* _write_sidecar: a new file (O_EXCL); one that exists, or a failed write or
\* sync, raises OSError in place of the DownloadError.
WriteSidecar ==
  /\ pc = "keep"
  /\ \/ ~tmp /\ tmp' = TRUE /\ pc' = "name" /\ UNCHANGED <<kind, outcome, bounds>>
     \/ ~tmp /\ tmp' = TRUE /\ Fault /\ End("oserror")
     \/ tmp /\ End("oserror") /\ UNCHANGED <<tmp, bounds>>
  /\ UNCHANGED <<part, side, dest, upstream, k, request, history>>

\* os.replace onto the sidecar: this URL, and the response's validator if any.
NameSidecar ==
  /\ pc = "name"
  /\ tmp' = FALSE
  /\ side' = [url |-> url, tag |-> IF upstream.tags THEN body ELSE tag]
  /\ pc' = "failed"
  /\ UNCHANGED <<part, dest, upstream, k, request, kind, outcome, history, bounds>>
-----------------------------------------------------------------------------
\* What is buffered of the partial when a call ends abruptly may be lost.
Cut == \/ UNCHANGED part
       \/ /\ pc \in {"read", "verify"}
          /\ \E n \in start..Len(part) : part' = SubSeq(part, 1, n)

\* The process is killed.
Crash ==
  /\ pc # "idle"
  /\ Fault
  /\ End("killed")
  /\ Cut
  /\ UNCHANGED <<side, tmp, dest, upstream, k, request, history>>

\* Opening, writing, replacing or unlinking raises OSError, or the peek past a
\* body of unstated length times out: no handler keeps it.
DiskFails ==
  /\ pc \in {"file", "read", "verify", "clean"}
  /\ Fault
  /\ End("oserror")
  /\ Cut
  /\ UNCHANGED <<side, tmp, dest, upstream, k, request, history>>

\* The file behind a URL becomes another version.
Change ==
  /\ Trouble
  /\ \E u \in Url, v \in Version :
       v # upstream.ver[u] /\ upstream' = [upstream EXCEPT !.ver[u] = v]
  /\ UNCHANGED <<disk, pc, k, request, kind, outcome, history>>

\* The file is there.
Finished == pc = "idle" /\ outcome = "ok" /\ UNCHANGED vars

\* What the program does, given what the upstream sends.
Progress ==
  \/ Call \/ Prepare \/ Connect \/ OpenFile \/ ReadBlock \/ ReadAfterTimeout
  \/ ReadEnds \/ Verify \/ Clean \/ NextCandidate \/ WriteSidecar \/ NameSidecar

Disturbance ==
  \/ StopBeforeRequest \/ ConnectFails \/ StopReading \/ ReadTimesOut \/ ReadFails
  \/ Crash \/ DiskFails \/ Change

Next == Progress \/ Disturbance \/ Finished

Spec == Init /\ [][Next]_vars

\* The program keeps running, and its user calls again until it has the file.
FairSpec == Spec /\ WF_vars(Progress)
-----------------------------------------------------------------------------
\* The destination never holds anything but the pinned bytes, whichever parts of
\* it came from an earlier call, another response or another version.
OnlyPinnedBytes == dest \in {NoFile, Pinned}

\* A mirror's bytes fail the digest only when an upstream really sent other bytes:
\* no mix of partial, offset, range and crash makes good bytes fail the digest
\* (_REMEDY: "upstream bytes differ from the pin; refusing; report it").
BlameIsUpstreams == "digest-mismatch" \in {kind, outcome} => tainted

\* What a call interrupted in the body of the first candidate left is where the
\* next request to it resumes, whichever calls ended before theirs in between:
\* cancelled, out of space or killed (_REMEDY: "nothing installed; re-run to
\* resume").  Interrupted at a later mirror, the partial is lost: the next call's
\* first candidate finds another URL in the sidecar.
InterruptionIsResumed ==
  pc = "connect" /\ k = 1 /\ owed > 0 =>
    start = owed /\ part # NoFile /\ Len(part) = owed

\* Once the upstream serves the pinned file and nobody interrupts, calling again
\* gets it: no leftover of earlier calls stands in the way for ever.
Served == \A u \in Url : upstream.ver[u] = "good"
CallingAgainSucceeds == <>[]Served => <>(outcome = "ok")

\* A call that meets no fault of its own ends in a DownloadError or the file
\* (DownloadError: "Closed download failure").
FailuresAreClosed == outcome = "oserror" => hurt
=============================================================================
