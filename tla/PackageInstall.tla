--------------------------- MODULE PackageInstall ---------------------------
(***************************************************************************)
(* Installer.ensure of kilix_content/install.py for one install id: the    *)
(* readiness probes, the lock, the staged fetch and build, the atomic      *)
(* selection and the removal of what it superseded.                        *)
(*                                                                         *)
(* The lock is the abstract one of Mutex, which InstallLock implements.    *)
(* Callers may hold different catalog entries for the install id: another  *)
(* pinned commit, or an archive instead of a Git source.  A user may write *)
(* below the content root at any time; the installer has no lock on that.  *)
(***************************************************************************)
EXTENDS Naturals

CONSTANTS Proc,       \* threads, of any number of processes, that call ensure()
          NoProc,     \* "no thread"
          Ref,        \* commits or archive digests a catalog entry may pin
          NoRef,      \* content that came from no catalog entry
          Entry,      \* catalog entries of the install id: [source, ref] records
          MaxCalls,   \* bound: calls of ensure(), of all threads together
          MaxFaults,  \* bound: failed system calls and killed processes
          MaxEdits    \* bound: writes of the user into the content path

ASSUME NullAssumption  == NoProc \notin Proc /\ NoRef \notin Ref
ASSUME EntryAssumption == /\ Entry \subseteq [source : {"git", "archive"}, ref : Ref]
                          /\ Entry # {}
ASSUME BoundAssumption == {MaxCalls, MaxFaults, MaxEdits} \subseteq Nat

VARIABLES holder,   \* the thread inside the install lock
          dest,     \* the tree at the content path
          stage,    \* [Proc -> the tree in its staging directory]
          litter,   \* a staging directory is left that no call will remove
          want,     \* [Proc -> the entry its call installs]
          pc,       \* [Proc -> where the call is]
          probe,    \* [Proc -> which readiness probe: before the lock, under it,
                    \*          after the selection]
          seen,     \* [Proc -> the tree that `git status` of this probe read]
          result,   \* [Proc -> what its last call returned, or will]
          calls, faults, edits

vars == <<holder, dest, stage, litter, want, pc, probe, seen, result,
          calls, faults, edits>>

Lock == INSTANCE Mutex
-----------------------------------------------------------------------------
(* A tree, as far as ensure() looks.  kind: none, a file or symlink, a     *)
(* plain directory, a Git checkout, or an interrupted `git init`.  spoilt: *)
(* what of it is not as pinned.  "files": a HEAD that is not detached, a   *)
(* tracked file that was changed, or files that no installer put there.    *)
(* bin: the entry's binary is there and runnable.                          *)

Part == {"files", "origin", "submodules"}
Tree == [kind : {"none", "file", "plain", "initial", "checkout"},
         ref : Ref \union {NoRef}, spoilt : SUBSET Part, bin : BOOLEAN]

Bare(k) == [kind |-> k, ref |-> NoRef, spoilt |-> {}, bin |-> FALSE]
NoTree == Bare("none")
Shell == Bare("initial")          \* a staging directory before the source is in
UserFile == [Bare("file") EXCEPT !.spoilt = {"files"}]
UserDir == [Bare("plain") EXCEPT !.spoilt = {"files"}]
UserInit == [Bare("initial") EXCEPT !.spoilt = {"files"}]

Directory(t) == t.kind \notin {"none", "file"}

\* Something no catalog source can bring back.
UserWork(t) == t.kind # "none" /\ t.spoilt # {}

\* Mutant: the branch head is fetched, not the pinned commit.
MutFetchedHead(e) == [kind |-> IF e.source = "git" THEN "checkout" ELSE "plain",
                      ref |-> "HEAD", spoilt |-> {}, bin |-> FALSE]

\* What one entry's fetch puts in the stage.
Fetched(e) == [kind |-> IF e.source = "git" THEN "checkout" ELSE "plain",
               ref |-> e.ref, spoilt |-> {}, bin |-> FALSE]
Installed(e) == [Fetched(e) EXCEPT !.bin = TRUE]

\* ready_provided's first half: lstat of the binary.
Runnable(t) == Directory(t) /\ t.bin

\* Mutant: a checkout at another commit will do.
MutAtCommit(e, t) == t.kind = "checkout" /\ "files" \notin t.spoilt

\* Its second half, verify_git_checkout, is what three git commands say: `git
\* status` of the HEAD and the tracked files, `git config` of the origin, which the
\* entries of an install id share, and `git submodule status`.
AtCommit(e, t) == t.kind = "checkout" /\ t.ref = e.ref /\ "files" \notin t.spoilt
OwnOrigin(t) == t.kind = "checkout" /\ "origin" \notin t.spoilt
OwnSubmodules(t) == "submodules" \notin t.spoilt

Verified(e, t) ==
  e.source = "git" => AtCommit(e, t) /\ OwnOrigin(t) /\ OwnSubmodules(t)

\* An archive has no second half.
ReadyFor(e, t) == Runnable(t) /\ Verified(e, t)

\* Mutant: tracked changes and extra files in a checkout are not looked for.
MutReplaceableDirty(e, t) ==
  \/ t.kind = "none"
  \/ e.source = "git" /\ t.kind \in {"checkout", "initial"}

\* _existing_git_is_replaceable, and the check that opens _ensure_archive.
Replaceable(e, t) ==
  \/ t.kind = "none"
  \/ e.source = "git" /\ t.kind \in {"checkout", "initial"} /\ t.spoilt = {}
-----------------------------------------------------------------------------
Phase == {"out", "stat", "status", "origin", "submodules", "acquire", "begin",
          "mkstage", "fetch", "build", "inspect", "look", "rename", "swap",
          "discard", "cleanup", "unlock"}

TypeOK == /\ Lock!TypeOK
          /\ dest \in Tree
          /\ stage \in [Proc -> Tree]
          /\ litter \in BOOLEAN
          /\ want \in [Proc -> Entry]
          /\ pc \in [Proc -> Phase]
          /\ probe \in [Proc -> 1..3]
          /\ seen \in [Proc -> Tree]
          /\ result \in [Proc -> {"none", "ready", "error"}]
          /\ calls \in 0..MaxCalls
          /\ faults \in 0..MaxFaults
          /\ edits \in 0..MaxEdits

\* Earlier installs, of any entry, complete or not, and what users put there.
InitialTrees ==
  {NoTree, UserFile, UserDir, UserInit, Bare("initial")}
    \union {Installed(e) : e \in Entry}
    \union {[Installed(e) EXCEPT !.bin = FALSE] : e \in Entry}
    \union {[Installed(e) EXCEPT !.spoilt = {d}] : e \in Entry, d \in Part}

Init == /\ Lock!Init
        /\ dest \in InitialTrees
        /\ stage = [p \in Proc |-> NoTree]
        /\ litter = FALSE
        /\ want = [p \in Proc |-> CHOOSE e \in Entry : TRUE]   \* Begin sets it
        /\ pc = [p \in Proc |-> "out"]
        /\ probe = [p \in Proc |-> 1]
        /\ seen = [p \in Proc |-> NoTree]
        /\ result = [p \in Proc |-> "none"]
        /\ calls = 0
        /\ faults = 0
        /\ edits = 0
-----------------------------------------------------------------------------
Goto(p, c) == pc' = [pc EXCEPT ![p] = c]
Outcome(p, r) == result' = [result EXCEPT ![p] = r]

\* InstallError is raised: the finally clauses from c on still run.
Raise(p, c) == Goto(p, c) /\ Outcome(p, "error")

Fault == faults < MaxFaults /\ faults' = faults + 1

Begin(p) ==
  /\ pc[p] = "out"
  /\ calls < MaxCalls
  /\ calls' = calls + 1
  /\ \E e \in Entry : want' = [want EXCEPT ![p] = e]
  /\ probe' = [probe EXCEPT ![p] = 1]
  /\ Outcome(p, "none")
  /\ Goto(p, "stat")
  /\ UNCHANGED <<holder, dest, stage, litter, seen, faults, edits>>

\* The probe answers: ensure() returns, or goes on to what the miss leads to.
Hit(p) == Goto(p, IF probe[p] = 1 THEN "out" ELSE "unlock") /\ Outcome(p, "ready")
Miss(p) == \/ probe[p] = 1 /\ Goto(p, "acquire") /\ UNCHANGED result
           \/ probe[p] = 2 /\ Goto(p, "begin") /\ UNCHANGED result
           \/ probe[p] = 3 /\ Raise(p, "unlock")

\* ready(): the binary is looked at first ...
Stat(p) ==
  /\ pc[p] = "stat"
  /\ \/ Runnable(dest) /\ want[p].source = "git" /\ Goto(p, "status") /\ UNCHANGED result
     \/ Runnable(dest) /\ want[p].source = "archive" /\ Hit(p)
     \/ ~Runnable(dest) /\ Miss(p)
  /\ UNCHANGED <<holder, dest, stage, litter, want, probe, seen, calls, faults, edits>>

\* ... and then the checkout, one git command after the other, each of which reads
\* what the path names by then.  What `git status` found is compared after `git
\* config`, but a miss is a miss either way.
Status(p) ==
  /\ pc[p] = "status"
  /\ \/ /\ AtCommit(want[p], dest)
        /\ seen' = [seen EXCEPT ![p] = dest]
        /\ Goto(p, "origin")
        /\ UNCHANGED result
     \/ ~AtCommit(want[p], dest) /\ Miss(p) /\ UNCHANGED seen
  /\ UNCHANGED <<holder, dest, stage, litter, want, probe, calls, faults, edits>>

Origin(p) ==
  /\ pc[p] = "origin"
  /\ \/ OwnOrigin(dest) /\ Goto(p, "submodules") /\ UNCHANGED <<seen, result>>
     \/ ~OwnOrigin(dest) /\ Miss(p) /\ seen' = [seen EXCEPT ![p] = NoTree]
  /\ UNCHANGED <<holder, dest, stage, litter, want, probe, calls, faults, edits>>

Submodules(p) ==
  /\ pc[p] = "submodules"
  /\ \/ OwnSubmodules(dest) /\ Hit(p)
     \/ ~OwnSubmodules(dest) /\ Miss(p)
  /\ seen' = [seen EXCEPT ![p] = NoTree]
  /\ UNCHANGED <<holder, dest, stage, litter, want, probe, calls, faults, edits>>

\* Mutant: the waiter does not look whether the holder before it installed.
MutAcquireBlind(p) ==
  /\ pc[p] = "acquire"
  /\ Lock!Acquire(p)
  /\ probe' = [probe EXCEPT ![p] = 2]
  /\ Goto(p, "begin")
  /\ UNCHANGED <<dest, stage, litter, want, seen, result, calls, faults, edits>>

Acquire(p) ==
  /\ pc[p] = "acquire"
  /\ Lock!Acquire(p)
  /\ probe' = [probe EXCEPT ![p] = 2]
  /\ Goto(p, "stat")
  /\ UNCHANGED <<dest, stage, litter, want, seen, result, calls, faults, edits>>

AcquireFails(p) ==
  /\ pc[p] = "acquire"
  /\ Fault
  /\ Raise(p, "out")
  /\ UNCHANGED <<holder, dest, stage, litter, want, probe, seen, calls, edits>>

\* _ensure_git and _ensure_archive open with a look at what they would replace.  Its
\* git commands are one step: under the lock only the user changes the tree, and
\* what none of them found spoilt was whole at the first.
CheckExisting(p) ==
  /\ pc[p] = "begin"
  /\ \/ Replaceable(want[p], dest) /\ Goto(p, "mkstage") /\ UNCHANGED result
     \/ ~Replaceable(want[p], dest) /\ Raise(p, "unlock")
  /\ UNCHANGED <<holder, dest, stage, litter, want, probe, seen, calls, faults, edits>>

MakeStage(p) ==
  /\ pc[p] = "mkstage"
  /\ \/ /\ stage' = [stage EXCEPT ![p] = Shell]
        /\ Goto(p, "fetch")
        /\ UNCHANGED <<result, faults>>
     \/ Fault /\ Raise(p, "unlock") /\ UNCHANGED stage
  /\ UNCHANGED <<holder, dest, litter, want, probe, seen, calls, edits>>

\* The git commands and their verification, or download and extraction.
Fetch(p) ==
  /\ pc[p] = "fetch"
  /\ \/ /\ stage' = [stage EXCEPT ![p] = Fetched(want[p])]
        /\ Goto(p, "build")
        /\ UNCHANGED result
     \/ Raise(p, "cleanup") /\ UNCHANGED stage
  /\ UNCHANGED <<holder, dest, litter, want, probe, seen, calls, faults, edits>>

\* The build command: it may fail, forget the binary, rewrite tracked files or move
\* a submodule.
Build(p) ==
  /\ pc[p] = "build"
  /\ \/ /\ \E b \in BOOLEAN, d \in SUBSET Part :
             /\ want[p].source = "archive" => d = {}      \* nothing pins its files
             /\ stage' = [stage EXCEPT ![p] = [@ EXCEPT !.bin = b, !.spoilt = d]]
        /\ Goto(p, "inspect")
        /\ UNCHANGED result
     \/ Raise(p, "cleanup") /\ UNCHANGED stage
  /\ UNCHANGED <<holder, dest, litter, want, probe, seen, calls, faults, edits>>

\* Mutant: what the build left is selected unseen.
MutInspectNothing(p) ==
  /\ pc[p] = "inspect"
  /\ Goto(p, "look")
  /\ UNCHANGED <<holder, dest, stage, litter, want, probe, seen, result,
                 calls, faults, edits>>

\* _build's check of the binary and the second verification of a checkout, in a
\* directory nobody else knows.
Inspect(p) ==
  /\ pc[p] = "inspect"
  /\ \/ ReadyFor(want[p], stage[p]) /\ Goto(p, "look") /\ UNCHANGED result
     \/ ~ReadyFor(want[p], stage[p]) /\ Raise(p, "cleanup")
  /\ UNCHANGED <<holder, dest, stage, litter, want, probe, seen, calls, faults, edits>>

\* _replace_stage: lexists(destination) chooses rename or exchange.
Look(p) ==
  /\ pc[p] = "look"
  /\ Goto(p, IF dest.kind = "none" THEN "rename" ELSE "swap")
  /\ UNCHANGED <<holder, dest, stage, litter, want, probe, seen, result,
                 calls, faults, edits>>

\* An archive's staging directory outlives the rename of the tree inside it.
AfterRename(e) == IF e.source = "git" THEN NoTree ELSE Shell

\* os.rename onto nothing selects; onto a directory it falls to the exchange.
Rename(p) ==
  /\ pc[p] = "rename"
  /\ \/ /\ dest.kind = "none"
        /\ dest' = stage[p]
        /\ stage' = [stage EXCEPT ![p] = AfterRename(want[p])]
        /\ Goto(p, "cleanup")
        /\ UNCHANGED <<result, faults>>
     \/ dest.kind = "none" /\ Fault /\ Raise(p, "cleanup") /\ UNCHANGED <<dest, stage>>
     \/ Directory(dest) /\ Goto(p, "swap") /\ UNCHANGED <<dest, stage, result, faults>>
     \/ dest.kind = "file" /\ Raise(p, "cleanup") /\ UNCHANGED <<dest, stage, faults>>
  /\ UNCHANGED <<holder, litter, want, probe, seen, calls, edits>>

\* Mutant: the destination is removed before the stage is renamed onto it.
MutSwapByRemoval(p) ==
  /\ pc[p] = "swap"
  /\ Directory(dest)
  /\ dest' = NoTree
  /\ Goto(p, "rename")
  /\ UNCHANGED <<holder, stage, litter, want, probe, seen, result, calls, faults, edits>>

\* renameat2(RENAME_EXCHANGE), refused for anything but a directory.
Swap(p) ==
  /\ pc[p] = "swap"
  /\ \/ /\ Directory(dest)
        /\ dest' = stage[p]
        /\ stage' = [stage EXCEPT ![p] = dest]
        /\ Goto(p, "discard")
        /\ UNCHANGED <<result, faults>>
     \/ Fault /\ Raise(p, "cleanup") /\ UNCHANGED <<dest, stage>>
     \/ ~Directory(dest) /\ Raise(p, "cleanup") /\ UNCHANGED <<dest, stage, faults>>
  /\ UNCHANGED <<holder, litter, want, probe, seen, calls, edits>>

\* rmtree of the superseded tree; its failure is an error of a call that selected.
Discard(p) ==
  /\ pc[p] = "discard"
  /\ \/ /\ stage' = [stage EXCEPT ![p] = AfterRename(want[p])]
        /\ Goto(p, "cleanup")
        /\ UNCHANGED <<result, faults>>
     \/ Fault /\ Raise(p, "cleanup") /\ UNCHANGED stage
  /\ UNCHANGED <<holder, dest, litter, want, probe, seen, calls, edits>>

\* finally: rmtree(stage, ignore_errors=True); then the closing probe.
Cleanup(p) ==
  /\ pc[p] = "cleanup"
  /\ stage' = [stage EXCEPT ![p] = NoTree]
  /\ \/ UNCHANGED <<litter, faults>>
     \/ stage[p] # NoTree /\ Fault /\ litter' = TRUE
  /\ Goto(p, IF result[p] = "error" THEN "unlock" ELSE "stat")
  /\ probe' = [probe EXCEPT ![p] = 3]
  /\ UNCHANGED <<holder, dest, want, seen, result, calls, edits>>

\* Mutant: the lock is left to whoever comes next only when the call succeeded.
MutUnlockOnSuccess(p) ==
  /\ pc[p] = "unlock"
  /\ IF result[p] = "ready" THEN Lock!Release(p) ELSE UNCHANGED holder
  /\ Goto(p, "out")
  /\ UNCHANGED <<dest, stage, litter, want, probe, seen, result, calls, faults, edits>>

Unlock(p) ==
  /\ pc[p] = "unlock"
  /\ Lock!Release(p)
  /\ Goto(p, "out")
  /\ UNCHANGED <<dest, stage, litter, want, probe, seen, result, calls, faults, edits>>

\* The process is killed: the kernel frees the lock, the stage stays behind.
Crash(p) ==
  /\ pc[p] # "out"
  /\ Fault
  /\ Raise(p, "out")
  /\ holder' = IF holder = p THEN NoProc ELSE holder
  /\ litter' = (litter \/ stage[p] # NoTree)
  /\ stage' = [stage EXCEPT ![p] = NoTree]
  /\ seen' = [seen EXCEPT ![p] = NoTree]
  /\ UNCHANGED <<dest, want, probe, calls, edits>>

\* The user changes a tracked file, the origin or a submodule of the checkout, or
\* makes the directory.
Edit ==
  /\ edits < MaxEdits
  /\ edits' = edits + 1
  /\ \/ /\ dest.kind = "checkout" /\ dest.spoilt = {}
        /\ \E d \in Part : dest' = [dest EXCEPT !.spoilt = {d}]
     \/ dest.kind = "none" /\ dest' = UserDir
  /\ UNCHANGED <<holder, stage, litter, want, pc, probe, seen, result, calls, faults>>

\* No call is left to make.
Finished == /\ calls = MaxCalls
            /\ \A p \in Proc : pc[p] = "out"
            /\ UNCHANGED vars

\* A readiness probe.
Ready(p) == Stat(p) \/ Status(p) \/ Origin(p) \/ Submodules(p)

Continue(p) ==
  \/ Ready(p) \/ Acquire(p) \/ CheckExisting(p) \/ MakeStage(p) \/ Fetch(p)
  \/ Build(p) \/ Inspect(p) \/ Look(p) \/ Rename(p) \/ Swap(p) \/ Discard(p) \/ Cleanup(p) \/ Unlock(p)

Next == \/ \E p \in Proc : Begin(p) \/ Continue(p) \/ AcquireFails(p) \/ Crash(p)
        \/ Edit
        \/ Finished

Spec == Init /\ [][Next]_vars

\* A call keeps running: every command it waits for is bounded by
\* command_timeout, and a free lock goes to one of its waiters.
FairSpec == Spec /\ \A p \in Proc : WF_vars(Continue(p))
-----------------------------------------------------------------------------
\* Whatever an installer makes the content path name is a whole installation of
\* its own entry: never a partial fetch, an unbuilt or a rewritten source.
SelectionComplete ==
  [][dest' # dest /\ edits' = edits
       => \E p \in Proc : holder = p /\ dest' = Installed(want[p])]_vars

\* The content path, once it names something, never names nothing again
\* (tests/test_content.py: "replacement uses exchange without hiding destination").
NeverHidden == [][dest.kind # "none" => dest'.kind # "none"]_vars

\* No installer ever displaces a user's work from the content path (ensure():
\* "refusing modified managed checkout", "refusing to replace existing archive
\* content").
UserWorkKept == [][UserWork(dest) => dest' = dest]_vars

\* User's work that is there while no call is past its look at the path stays
\* there for good, whatever the calls that are running or still to come want.
PastCheck == {"mkstage", "fetch", "build", "inspect", "look", "rename", "swap"}
Settled == UserWork(dest) /\ \A p \in Proc : pc[p] \notin PastCheck
UserWorkRefused == [][Settled => Settled' /\ dest' = dest]_vars

\* Nobody fetches or builds what is already selected: a caller that waited for
\* the lock adopts the result of the one before it (README.md: "simultaneous
\* launchers share a single fetch and build").
OneBuildShared ==
  \A p \in Proc : pc[p] \in {"fetch", "build"} => ~ReadyFor(want[p], dest)

\* A ready answer is true of the tree that `git status` read, though the binary was
\* looked at before and the origin and the submodules after it, and others may have
\* selected in between; and if it was given under the lock, of what the path holds
\* now.  (Before the lock the path may by then hold another commit.)  A user who
\* writes meanwhile may spoil what was looked at already.
Whole(e, t) == /\ t.kind = "checkout" /\ t.ref = e.ref /\ t.bin
               /\ edits = 0 => t = Installed(e)
ReadyIsTrue ==
  [][\A p \in Proc : result[p] # "ready" /\ result'[p] = "ready" /\ want[p].source = "git"
                       => /\ Whole(want[p], seen[p])
                          /\ probe[p] # 1 => Whole(want[p], dest)]_vars

\* Calls that ended without a fault left no staging directory and no lock.
NothingLeft ==
  (\A p \in Proc : pc[p] = "out") =>
    /\ holder = NoProc
    /\ \A p \in Proc : stage[p] = NoTree
    /\ faults = 0 => ~litter

\* Every call ends, with its entry's content ready or with an error, and leaves
\* nothing behind.
CallsEnd == \A p \in Proc : pc[p] # "out" ~> pc[p] = "out" /\ NothingLeft
=============================================================================
