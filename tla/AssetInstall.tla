---------------------------- MODULE AssetInstall ----------------------------
(***************************************************************************)
(* Installer._select_asset of kilix_content/install.py for one asset: the  *)
(* three receipt checks, the polled lock of _asset_lock with its owner     *)
(* file, staging, selection, the closing verification and the withdrawal   *)
(* of a selection that fails it.  What fills the stage (a download, a      *)
(* conversion or supplied bytes) is one step that may fail or may leave a  *)
(* tree that does not match the manifest.                                  *)
(*                                                                         *)
(* Unlike _acquire_install_lock, _asset_lock unlinks its lock file without *)
(* any waiter comparing inodes; path, descriptors and flocks are apart.    *)
(***************************************************************************)
EXTENDS Naturals

CONSTANTS Proc,        \* threads, of any number of processes, that install
          Inode,       \* inodes the file system may give the lock file
          NoProc,      \* "no thread"
          NoInode,     \* "no inode"
          MaxCalls,    \* bound: calls of ensure_*_asset, of all threads together
          MaxFaults,   \* bound: failed system calls and killed processes
          MaxTampers   \* bound: staged trees changed after their check

ASSUME NullAssumption  == NoProc \notin Proc /\ NoInode \notin Inode
ASSUME BoundAssumption == {MaxCalls, MaxFaults, MaxTampers} \subseteq Nat

VARIABLES path, fd, flock,   \* the lock file, as in InstallLock
          tmp,      \* the .owner.tmp file exists
          owner,    \* the thread the .owner file names
          covered,  \* the receipt store covers the asset
          dest,     \* the tree at the asset's path
          stage,    \* [Proc -> the tree in its staging directory]
          litter,   \* a staging directory is left that no call will remove
          pc,       \* [Proc -> where the call is]
          result,   \* [Proc -> what its last call returned, or will]
          calls, faults, tampers

locks == <<path, fd, flock>>
owners == <<tmp, owner>>
trees == <<dest, stage, litter>>
bounds == <<calls, faults, tampers>>
vars == <<locks, owners, covered, trees, pc, result, bounds>>

\* A tree: which call's stage it came from, and whether it matches the manifest.
Tree == [there : BOOLEAN, by : Proc \union {NoProc}, ok : BOOLEAN]
NoTree == [there |-> FALSE, by |-> NoProc, ok |-> FALSE]
Shell(p) == [there |-> TRUE, by |-> p, ok |-> FALSE]

Phase == {"out", "gate", "poll", "try", "owner", "name", "recheck", "absent",
          "mkstage", "populate", "inspect", "look", "rename", "swap",
          "discard", "final", "withdraw", "unstage", "disown", "unlink", "close"}

\* The phases of the with block of _asset_lock.
Inside == {"recheck", "absent", "mkstage", "populate", "inspect", "look",
           "rename", "swap", "discard", "final", "withdraw", "unstage"}

TypeOK == /\ path \in Inode \union {NoInode}
          /\ fd \in [Proc -> Inode \union {NoInode}]
          /\ flock \in [Inode -> Proc \union {NoProc}]
          /\ tmp \in BOOLEAN
          /\ owner \in Proc \union {NoProc}
          /\ covered \in BOOLEAN
          /\ dest \in Tree
          /\ stage \in [Proc -> Tree]
          /\ litter \in BOOLEAN
          /\ pc \in [Proc -> Phase]
          /\ result \in [Proc -> {"none", "ready", "error"}]
          /\ calls \in 0..MaxCalls
          /\ faults \in 0..MaxFaults
          /\ tampers \in 0..MaxTampers

\* Nothing installed, a matching tree, or one that does not match.
Init == /\ path = NoInode
        /\ fd = [p \in Proc |-> NoInode]
        /\ flock = [i \in Inode |-> NoProc]
        /\ tmp = FALSE
        /\ owner = NoProc
        /\ covered = TRUE
        /\ dest \in {NoTree, [Shell(NoProc) EXCEPT !.ok = TRUE], Shell(NoProc)}
        /\ stage = [p \in Proc |-> NoTree]
        /\ litter = FALSE
        /\ pc = [p \in Proc |-> "out"]
        /\ result = [p \in Proc |-> "none"]
        /\ calls = 0
        /\ faults = 0
        /\ tampers = 0
-----------------------------------------------------------------------------
Goto(p, c) == pc' = [pc EXCEPT ![p] = c]
Return(p, c, r) == Goto(p, c) /\ result' = [result EXCEPT ![p] = r]
Step(p, from, to) == pc[p] = from /\ Goto(p, to) /\ UNCHANGED result

Fault == faults < MaxFaults /\ faults' = faults + 1 /\ UNCHANGED <<calls, tampers>>

Begin(p) ==
  /\ pc[p] = "out"
  /\ calls < MaxCalls
  /\ calls' = calls + 1
  /\ Return(p, "gate", "none")
  /\ UNCHANGED <<locks, owners, covered, trees, faults, tampers>>

\* require_license, then _asset_integrity_ready: on a miss the call goes to c.
Gate(p, back, c) ==
  \/ ~covered /\ Return(p, back, "error")
  \/ covered /\ dest.ok /\ Return(p, back, "ready")
  \/ covered /\ ~dest.ok /\ Goto(p, c) /\ UNCHANGED result

\* Before the lock.
GateOutside(p) ==
  /\ pc[p] = "gate"
  /\ Gate(p, "out", "poll")
  /\ UNCHANGED <<locks, owners, covered, trees, bounds>>
-----------------------------------------------------------------------------
(* _asset_lock                                                             *)

Unused(i) == i # path /\ \A q \in Proc : fd[q] # i
Unlocked(p) == [i \in Inode |-> IF flock[i] = p THEN NoProc ELSE flock[i]]

\* cancelled() or the deadline ends the wait; otherwise the lock file is opened.
Poll(p) ==
  /\ pc[p] = "poll"
  /\ \/ Return(p, "out", "error") /\ UNCHANGED <<path, fd>>
     \/ /\ \E i \in Inode : /\ i = path \/ (path = NoInode /\ Unused(i))
                            /\ path' = i
                            /\ fd' = [fd EXCEPT ![p] = i]
        /\ Goto(p, "try")
        /\ UNCHANGED result
  /\ UNCHANGED <<flock, owners, covered, trees, bounds>>

\* flock(LOCK_EX | LOCK_NB): granted, or closed and polled again.
TryLock(p) ==
  /\ pc[p] = "try"
  /\ \/ /\ flock[fd[p]] = NoProc
        /\ flock' = [flock EXCEPT ![fd[p]] = p]
        /\ Goto(p, "owner")
        /\ UNCHANGED fd
     \/ /\ flock[fd[p]] # NoProc
        /\ fd' = [fd EXCEPT ![p] = NoInode]
        /\ Goto(p, "poll")
        /\ UNCHANGED flock
  /\ UNCHANGED <<path, owners, covered, trees, result, bounds>>

\* The owner's name goes to a new file first (O_EXCL); writing it may fail.
WriteOwner(p) ==
  /\ pc[p] = "owner"
  /\ \/ ~tmp /\ tmp' = TRUE /\ Goto(p, "name") /\ UNCHANGED <<result, bounds>>
     \/ ~tmp /\ tmp' = TRUE /\ Fault /\ Return(p, "disown", "error")
     \/ tmp /\ Return(p, "disown", "error") /\ UNCHANGED <<tmp, bounds>>
  /\ UNCHANGED <<locks, owner, covered, trees>>

\* Mutant: the owner file names the lock file, not the thread.
MutNameOwnerInode(p) ==
  /\ Step(p, "name", "recheck")
  /\ tmp' = FALSE
  /\ owner' = fd[p]
  /\ UNCHANGED <<locks, covered, trees, bounds>>

NameOwner(p) ==
  /\ Step(p, "name", "recheck")
  /\ tmp' = FALSE
  /\ owner' = p
  /\ UNCHANGED <<locks, covered, trees, bounds>>

\* finally: unlink the owner file, unlink the lock file, close.
Disown(p) ==
  /\ Step(p, "disown", "unlink")
  /\ owner' = NoProc
  /\ UNCHANGED <<locks, tmp, covered, trees, bounds>>

Unlink(p) ==
  /\ Step(p, "unlink", "close")
  /\ path' = NoInode
  /\ UNCHANGED <<fd, flock, owners, covered, trees, bounds>>

Close(p) ==
  /\ Step(p, "close", "out")
  /\ flock' = Unlocked(p)
  /\ fd' = [fd EXCEPT ![p] = NoInode]
  /\ UNCHANGED <<path, owners, covered, trees, bounds>>
-----------------------------------------------------------------------------
(* _select_asset under the lock                                            *)

GateInside(p) ==
  /\ pc[p] = "recheck"
  /\ Gate(p, "disown", "absent")
  /\ UNCHANGED <<locks, owners, covered, trees, bounds>>

\* Mutant: a tree that does not match is waited for instead of refused.
MutRequireAbsentWaits(p) ==
  /\ pc[p] = "absent"
  /\ Goto(p, IF dest.there THEN "recheck" ELSE "mkstage")
  /\ UNCHANGED <<locks, owners, covered, trees, result, bounds>>

\* Anything at the path that did not match is refused.
RequireAbsent(p) ==
  /\ pc[p] = "absent"
  /\ \/ dest.there /\ Return(p, "disown", "error")
     \/ ~dest.there /\ Goto(p, "mkstage") /\ UNCHANGED result
  /\ UNCHANGED <<locks, owners, covered, trees, bounds>>

MakeStage(p) ==
  /\ pc[p] = "mkstage"
  /\ \/ /\ stage' = [stage EXCEPT ![p] = Shell(p)]
        /\ Goto(p, "populate")
        /\ UNCHANGED <<result, bounds>>
     \/ Fault /\ Return(p, "disown", "error") /\ UNCHANGED stage
  /\ UNCHANGED <<locks, owners, covered, dest, litter>>

\* populate(stage): a tree of some quality, or an error.
Populate(p) ==
  /\ pc[p] = "populate"
  /\ \/ /\ \E good \in BOOLEAN : stage' = [stage EXCEPT ![p].ok = good]
        /\ Goto(p, "inspect")
        /\ UNCHANGED result
     \/ Return(p, "unstage", "error") /\ UNCHANGED stage
  /\ UNCHANGED <<locks, owners, covered, dest, litter, bounds>>

\* Mutant: the staged tree is not compared with its manifest.
MutInspectReceiptOnly(p) ==
  /\ pc[p] = "inspect"
  /\ \/ covered /\ Goto(p, "look") /\ UNCHANGED result
     \/ ~covered /\ Return(p, "unstage", "error")
  /\ UNCHANGED <<locks, owners, covered, trees, bounds>>

\* Mutant: the receipt is not required again once the tree is staged.
MutInspectTreeOnly(p) ==
  /\ pc[p] = "inspect"
  /\ \/ stage[p].ok /\ Goto(p, "look") /\ UNCHANGED result
     \/ ~stage[p].ok /\ Return(p, "unstage", "error")
  /\ UNCHANGED <<locks, owners, covered, trees, bounds>>

\* _verify_asset_directory of the stage, then require_license once more.
Inspect(p) ==
  /\ pc[p] = "inspect"
  /\ \/ stage[p].ok /\ covered /\ Goto(p, "look") /\ UNCHANGED result
     \/ ~(stage[p].ok /\ covered) /\ Return(p, "unstage", "error")
  /\ UNCHANGED <<locks, owners, covered, trees, bounds>>

\* _replace_stage: rename onto nothing, exchange with a directory.
Look(p) ==
  /\ pc[p] = "look"
  /\ Goto(p, IF dest.there THEN "swap" ELSE "rename")
  /\ UNCHANGED <<locks, owners, covered, trees, result, bounds>>

\* The tree leaves the staging directory, which stays for the finally clause.
Rename(p) ==
  /\ pc[p] = "rename"
  /\ \/ /\ ~dest.there
        /\ dest' = stage[p]
        /\ stage' = [stage EXCEPT ![p] = Shell(p)]
        /\ Goto(p, "final")
        /\ UNCHANGED <<result, bounds>>
     \/ ~dest.there /\ Fault /\ Return(p, "unstage", "error") /\ UNCHANGED <<dest, stage>>
     \/ dest.there /\ Goto(p, "swap") /\ UNCHANGED <<dest, stage, result, bounds>>
  /\ UNCHANGED <<locks, owners, covered, litter>>

Swap(p) ==
  /\ pc[p] = "swap"
  /\ \/ /\ dest.there
        /\ dest' = stage[p]
        /\ stage' = [stage EXCEPT ![p] = dest]
        /\ Goto(p, "discard")
        /\ UNCHANGED <<result, bounds>>
     \/ Fault /\ Return(p, "unstage", "error") /\ UNCHANGED <<dest, stage>>
     \/ ~dest.there /\ Return(p, "unstage", "error") /\ UNCHANGED <<dest, stage, bounds>>
  /\ UNCHANGED <<locks, owners, covered, litter>>

\* rmtree of the tree the exchange brought back.
Discard(p) ==
  /\ pc[p] = "discard"
  /\ \/ Goto(p, "final") /\ UNCHANGED <<result, bounds>>
     \/ Fault /\ Return(p, "unstage", "error")
  /\ stage' = [stage EXCEPT ![p] = Shell(p)]
  /\ UNCHANGED <<locks, owners, covered, dest, litter>>

\* _asset_integrity_ready on the selected tree.
Final(p) ==
  /\ pc[p] = "final"
  /\ \/ dest.ok /\ Return(p, "unstage", "ready")
     \/ ~dest.ok /\ Return(p, "withdraw", "error")
  /\ UNCHANGED <<locks, owners, covered, trees, bounds>>

\* Mutant: the refused selection is left where it is.
MutWithdrawNothing(p) ==
  /\ pc[p] = "withdraw"
  /\ Goto(p, "unstage")
  /\ UNCHANGED <<locks, owners, covered, trees, result, bounds>>

\* _withdraw_selection removes whatever the path names.
Withdraw(p) ==
  /\ pc[p] = "withdraw"
  /\ \/ dest' = NoTree /\ UNCHANGED bounds
     \/ dest.there /\ Fault /\ UNCHANGED dest
  /\ Goto(p, "unstage")
  /\ UNCHANGED <<locks, owners, covered, stage, litter, result>>

\* finally: rmtree(stage, ignore_errors=True).
Unstage(p) ==
  /\ Step(p, "unstage", "disown")
  /\ stage' = [stage EXCEPT ![p] = NoTree]
  /\ \/ UNCHANGED <<litter, bounds>>
     \/ Fault /\ litter' = TRUE
  /\ UNCHANGED <<locks, owners, covered, dest>>
-----------------------------------------------------------------------------
\* The process is killed; its descriptor closes, all its files stay.
Crash(p) ==
  /\ pc[p] # "out"
  /\ Fault
  /\ Return(p, "out", "error")
  /\ flock' = Unlocked(p)
  /\ fd' = [fd EXCEPT ![p] = NoInode]
  /\ litter' = (litter \/ stage[p].there)
  /\ stage' = [stage EXCEPT ![p] = NoTree]
  /\ UNCHANGED <<path, owners, covered, dest>>

\* The user deletes the receipt.
Revoke ==
  /\ covered
  /\ covered' = FALSE
  /\ UNCHANGED <<locks, owners, trees, pc, result, bounds>>

\* Something else writes into p's tree after its check: a file of it is still
\* open elsewhere, or the disk fails.  This is what the closing check is for.
Tamper(p) ==
  /\ tampers < MaxTampers
  /\ tampers' = tampers + 1
  /\ \/ /\ pc[p] \in {"look", "rename", "swap"}
        /\ stage[p].ok
        /\ stage' = [stage EXCEPT ![p].ok = FALSE]
        /\ UNCHANGED dest
     \/ /\ pc[p] \in {"discard", "final"}
        /\ dest.by = p /\ dest.ok
        /\ dest' = [dest EXCEPT !.ok = FALSE]
        /\ UNCHANGED stage
  /\ UNCHANGED <<locks, owners, covered, litter, pc, result, calls, faults>>

\* No call is left to make.
Finished == /\ calls = MaxCalls
            /\ \A p \in Proc : pc[p] = "out"
            /\ UNCHANGED vars

Continue(p) ==
  \/ GateOutside(p) \/ Poll(p) \/ TryLock(p) \/ WriteOwner(p) \/ NameOwner(p)
  \/ GateInside(p) \/ RequireAbsent(p) \/ MakeStage(p) \/ Populate(p)
  \/ Inspect(p) \/ Look(p) \/ Rename(p) \/ Swap(p) \/ Discard(p) \/ Final(p)
  \/ Withdraw(p) \/ Unstage(p) \/ Disown(p) \/ Unlink(p) \/ Close(p)

Next == \/ \E p \in Proc : Begin(p) \/ Continue(p) \/ Crash(p) \/ Tamper(p)
        \/ Revoke
        \/ Finished

Spec == Init /\ [][Next]_vars

\* A call keeps running and its populate() ends.
FairSpec == Spec /\ \A p \in Proc : WF_vars(Continue(p))
-----------------------------------------------------------------------------
\* What an installer put at the asset's path matches the manifest, unless it
\* was changed after its check ("a tree that does not match its manifest is
\* never selected").
OnlyMatchingSelected == tampers = 0 /\ dest.by # NoProc => dest.ok

\* When every call has returned, no call's bytes are at the path unless they
\* match, whatever happened between check and selection ("a refusal never
\* leaves non-matching bytes at the installed path").
RefusalLeavesNothing ==
  (faults = 0 /\ \A p \in Proc : pc[p] = "out") => (dest.by # NoProc => dest.ok)

\* Once the receipt is gone and no call is past its third check, nothing is
\* selected any more, by calls begun before or after.
PastReceipt == {"look", "rename", "swap"}
Revoked == ~covered /\ \A p \in Proc : pc[p] \notin PastReceipt
RevocationHolds ==
  [][Revoked => Revoked' /\ (dest'.by = dest.by \/ ~dest'.there)]_vars

\* Calls that ended without a fault left no lock, owner or staging file.
NothingLeft ==
  (faults = 0 /\ \A p \in Proc : pc[p] = "out") =>
    /\ path = NoInode
    /\ ~tmp /\ owner = NoProc
    /\ ~litter /\ \A p \in Proc : stage[p] = NoTree

\* Every call ends, the polled lock is not polled for ever, and nothing is left
\* behind.
CallsEnd == \A p \in Proc : pc[p] # "out" ~> pc[p] = "out" /\ NothingLeft

\* The tree a call verifies and may withdraw is the one it just selected
\* (_select_asset: "the tree at `destination` is the one this call just
\* selected and nobody else's -- which is what makes withdrawing it safe").
SelectionIsOwn == \A p \in Proc : pc[p] = "final" => dest.by = p
=============================================================================
