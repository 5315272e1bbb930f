------------------------- MODULE AssetInstallProofs -------------------------
(***************************************************************************)
(* Proofs about AssetInstall, for any number of threads, inodes, calls,    *)
(* faults and tampered trees.                                              *)
(*                                                                         *)
(* The asset lock does not exclude: two calls may be inside at once, each  *)
(* on an inode of its own.  What is proved here therefore rests on what    *)
(* each call checks for itself, and holds whoever else is inside.          *)
(***************************************************************************)
EXTENDS AssetInstall, TLAPS

\* The phases from a granted flock to its close().
Owning == {"owner", "name", "disown", "unlink", "close"} \union Inside

\* A flock is held exactly by the thread that was granted it on that inode.
FlockOwned == \A p \in Proc, i \in Inode :
                flock[i] = p <=> fd[p] = i /\ pc[p] \in Owning

\* A thread has a descriptor exactly from its open() to its close().
DescriptorOpen == \A p \in Proc :
                    fd[p] # NoInode <=> pc[p] \in Owning \union {"try"}

\* A thread that has unlinked the lock file is not on the one the path names.
ClosingIsUnlinked == \A p \in Proc : pc[p] = "close" => fd[p] # path

\* O_EXCL: at most one thread has the temporary of the owner file.
OneNames == \A p, q \in Proc : pc[p] = "name" => tmp /\ (pc[q] = "name" => p = q)

\* A staging directory is a call's own, from mkdtemp to rmtree.
Staging == {"populate", "inspect", "look", "rename", "swap", "discard", "final",
            "withdraw", "unstage"}
StageOwned == \A p \in Proc : pc[p] \notin Staging => stage[p] = NoTree

\* Without a fault, whatever is there has somebody who will remove it.
PathKept == path # NoInode =>
              \E p \in Proc : fd[p] = path /\ pc[p] \in (Owning \ {"close"}) \union {"try"}
TmpKept == tmp => \E p \in Proc : pc[p] = "name"
OwnerKept == owner # NoProc => pc[owner] \in Inside \union {"disown"}
Tidy == faults = 0 => PathKept /\ TmpKept /\ OwnerKept /\ ~litter

\* A staged tree on its way to the path passed the check, unless changed since.
StageChecked == \A p \in Proc : tampers = 0 /\ pc[p] \in PastReceipt => stage[p].ok

\* A tree of an installer that does not match is still to be withdrawn.
Closing == {"discard", "final", "withdraw"}
BadIsWithdrawn == faults = 0 /\ dest.by # NoProc /\ ~dest.ok
                    => \E p \in Proc : pc[p] \in Closing

\* The inductive invariants: of the trees, and of what a call leaves behind.
TreeInv == TypeOK /\ StageChecked /\ BadIsWithdrawn /\ OnlyMatchingSelected
FileInv == /\ FlockOwned /\ DescriptorOpen /\ ClosingIsUnlinked /\ OneNames
           /\ StageOwned /\ Tidy
-----------------------------------------------------------------------------
(* Type correctness.                                                       *)

\* The trees that occur: none, an empty stage, one with its files changed.
LEMMA Trees ==
  /\ NoTree \in Tree
  /\ \A p \in Proc \union {NoProc} : Shell(p) \in Tree
  /\ \A t \in Tree, good \in BOOLEAN : [t EXCEPT !.ok = good] \in Tree
  /\ \A t \in Tree : [t EXCEPT !.ok = TRUE] \in Tree /\ [t EXCEPT !.ok = FALSE] \in Tree
  /\ NoTree.by = NoProc /\ \A p \in Proc : Shell(p).by = p
  /\ \A t \in Tree, good \in BOOLEAN : /\ [t EXCEPT !.ok = good].by = t.by
                                       /\ [t EXCEPT !.ok = good].ok = good
  BY DEF Tree, NoTree, Shell

\* The variables have their types before the first call,
LEMMA TypeOKInit == Init => TypeOK
<1>. SUFFICES ASSUME Init
              PROVE  TypeOK
  OBVIOUS
<1>1. dest \in Tree
  <2>1. Shell(NoProc) \in Tree /\ NoTree \in Tree
    BY Trees
  <2>2. [Shell(NoProc) EXCEPT !.ok = TRUE] \in Tree
    BY <2>1, Trees
  <2>. QED  BY <2>1, <2>2 DEF Init
<1>2. {tmp, covered, litter} \subseteq BOOLEAN
  BY DEF Init
<1>3. stage \in [Proc -> Tree]
  BY Trees DEF Init
<1>. QED
  BY <1>1, <1>2, <1>3, BoundAssumption DEF Init, TypeOK, Phase

\* and every step keeps them.
LEMMA TypeOKNext == TypeOK /\ [Next]_vars => TypeOK'
<1>. SUFFICES ASSUME TypeOK, [Next]_vars
              PROVE  TypeOK'
  OBVIOUS
<1>. USE NullAssumption, BoundAssumption
     DEF TypeOK, Phase, Goto, Return, Step, Fault, locks, owners, trees, bounds
<1>1. ASSUME NEW p \in Proc, Begin(p) PROVE TypeOK'
  BY <1>1 DEF Begin
<1>2. ASSUME NEW p \in Proc, GateOutside(p) \/ GateInside(p) PROVE TypeOK'
  BY <1>2 DEF GateOutside, GateInside, Gate
<1>3. ASSUME NEW p \in Proc, Poll(p) PROVE TypeOK'
  BY <1>3 DEF Poll
<1>4. ASSUME NEW p \in Proc, TryLock(p) PROVE TypeOK'
  BY <1>4 DEF TryLock
<1>5. ASSUME NEW p \in Proc, WriteOwner(p) \/ NameOwner(p) PROVE TypeOK'
  <2>1. tmp' \in BOOLEAN
    BY <1>5 DEF WriteOwner, NameOwner
  <2>. QED  BY <1>5, <2>1 DEF WriteOwner, NameOwner
<1>6. ASSUME NEW p \in Proc, RequireAbsent(p) \/ Inspect(p) \/ Look(p) \/ Final(p)
      PROVE  TypeOK'
  BY <1>6 DEF RequireAbsent, Inspect, Look, Final
<1>7. ASSUME NEW p \in Proc, MakeStage(p) PROVE TypeOK'
  BY <1>7, Trees DEF MakeStage
<1>8. ASSUME NEW p \in Proc, Populate(p) PROVE TypeOK'
  <2>1. stage' \in [Proc -> Tree]
    <3>1. CASE UNCHANGED stage
      BY <3>1
    <3>2. CASE \E good \in BOOLEAN : stage' = [stage EXCEPT ![p].ok = good]
      BY <3>2, Trees
    <3>. QED  BY <1>8, <3>1, <3>2 DEF Populate
  <2>. QED  BY <1>8, <2>1 DEF Populate
<1>9. ASSUME NEW p \in Proc, Rename(p) \/ Swap(p) PROVE TypeOK'
  BY <1>9, Trees DEF Rename, Swap
<1>10. ASSUME NEW p \in Proc, Discard(p) PROVE TypeOK'
  BY <1>10, Trees DEF Discard
<1>11. ASSUME NEW p \in Proc, Withdraw(p) \/ Unstage(p) PROVE TypeOK'
  <2>1. litter' \in BOOLEAN
    BY <1>11 DEF Withdraw, Unstage
  <2>. QED  BY <1>11, <2>1, Trees DEF Withdraw, Unstage
<1>12. ASSUME NEW p \in Proc, Disown(p) \/ Unlink(p) \/ Close(p) PROVE TypeOK'
  BY <1>12 DEF Disown, Unlink, Close, Unlocked
<1>13. ASSUME NEW p \in Proc, Crash(p) PROVE TypeOK'
  BY <1>13, Trees DEF Crash, Unlocked
<1>14. ASSUME NEW p \in Proc, Tamper(p) PROVE TypeOK'
  <2>1. dest' \in Tree /\ stage' \in [Proc -> Tree]
    <3>1. dest' = dest \/ dest' = [dest EXCEPT !.ok = FALSE]
      BY <1>14 DEF Tamper
    <3>2. \/ stage' = stage
          \/ stage' = [stage EXCEPT ![p] = [stage[p] EXCEPT !.ok = FALSE]]
      BY <1>14 DEF Tamper
    <3>3. [stage[p] EXCEPT !.ok = FALSE] \in Tree /\ [dest EXCEPT !.ok = FALSE] \in Tree
      BY Trees
    <3>4. dest' \in Tree
      BY <3>1, <3>3
    <3>5. stage' \in [Proc -> Tree]
      BY <3>2, <3>3
    <3>. QED  BY <3>4, <3>5
  <2>. QED  BY <1>14, <2>1 DEF Tamper
<1>15. CASE Revoke \/ Finished \/ UNCHANGED vars
  BY <1>15 DEF Revoke, Finished, vars
<1>. QED
  BY <1>1, <1>2, <1>3, <1>4, <1>5, <1>6, <1>7, <1>8, <1>9, <1>10, <1>11, <1>12,
     <1>13, <1>14, <1>15 DEF Next, Continue

\* The variables of the asset installer keep their types.
THEOREM TypeCorrect == Spec => []TypeOK
  BY TypeOKInit, TypeOKNext, PTL DEF Spec
-----------------------------------------------------------------------------
(* The trees.                                                              *)

\* No tree is selected before the first call.
LEMMA TreeInvInit == Init => TreeInv
<1>. SUFFICES ASSUME Init
              PROVE  TreeInv
  OBVIOUS
<1>1. dest.by = NoProc
  BY Trees DEF Init, NoTree, Shell
<1>. QED
  BY <1>1, TypeOKInit
     DEF TreeInv, Init, StageChecked, BadIsWithdrawn, OnlyMatchingSelected, PastReceipt

\* A step of p that leaves the path alone: p goes on to select only what is
\* checked, and does not leave a tree it selected unless that matches.
LEMMA TreeInvMove ==
  ASSUME TreeInv, TypeOK', NEW p \in Proc, NEW c \in Phase,
         pc' = [pc EXCEPT ![p] = c],
         UNCHANGED <<dest, tampers>>, faults' = 0 => faults = 0,
         \A q \in Proc \ {p} : stage'[q] = stage[q],
         c \in PastReceipt => tampers # 0 \/ stage'[p].ok,
         pc[p] \in Closing => c \in Closing \/ faults' # 0 \/ dest.ok
  PROVE  TreeInv'
<1>1. pc'[p] = c /\ \A q \in Proc \ {p} : pc'[q] = pc[q]
  BY DEF TreeInv, TypeOK
<1>2. StageChecked'
  BY <1>1 DEF TreeInv, StageChecked
<1>3. BadIsWithdrawn'
  BY <1>1 DEF TreeInv, BadIsWithdrawn
<1>4. OnlyMatchingSelected'
  BY DEF TreeInv, OnlyMatchingSelected
<1>. QED  BY <1>2, <1>3, <1>4 DEF TreeInv

\* p puts its staged tree at the path, and goes on to verify it.
LEMMA TreeInvSelect ==
  ASSUME TreeInv, TypeOK', NEW p \in Proc, NEW c \in Closing,
         pc[p] \in PastReceipt, pc' = [pc EXCEPT ![p] = c],
         dest' = stage[p], UNCHANGED <<tampers, faults>>,
         \A q \in Proc \ {p} : stage'[q] = stage[q]
  PROVE  TreeInv'
<1>1. pc'[p] = c /\ \A q \in Proc \ {p} : pc'[q] = pc[q]
  BY DEF TreeInv, TypeOK
<1>2. StageChecked'
  BY <1>1 DEF TreeInv, StageChecked, PastReceipt, Closing
<1>3. BadIsWithdrawn'
  BY <1>1 DEF BadIsWithdrawn
<1>4. OnlyMatchingSelected'
  BY DEF TreeInv, OnlyMatchingSelected, StageChecked
<1>. QED  BY <1>2, <1>3, <1>4 DEF TreeInv

\* Every step keeps what is known of the trees: they are checked before they are
\* selected and after, and only withdrawn by the call that found them wrong.
LEMMA TreeInvNext == TreeInv /\ [Next]_vars => TreeInv'
<1>. SUFFICES ASSUME TreeInv, [Next]_vars
              PROVE  TreeInv'
  OBVIOUS
<1>0. TypeOK /\ TypeOK'
  BY TypeOKNext DEF TreeInv
<1>. USE <1>0, BoundAssumption
     DEF Goto, Return, Step, Fault, locks, owners, trees, bounds, PastReceipt, Closing, Phase
<1>1. ASSUME NEW p \in Proc, Begin(p) \/ GateOutside(p) \/ GateInside(p) PROVE TreeInv'
  BY <1>1, TreeInvMove DEF Begin, GateOutside, GateInside, Gate
<1>2. ASSUME NEW p \in Proc, Poll(p) \/ TryLock(p) PROVE TreeInv'
  BY <1>2, TreeInvMove DEF Poll, TryLock
<1>3. ASSUME NEW p \in Proc, WriteOwner(p) \/ NameOwner(p) PROVE TreeInv'
  BY <1>3, TreeInvMove DEF WriteOwner, NameOwner, TypeOK
<1>4. ASSUME NEW p \in Proc, Disown(p) \/ Unlink(p) \/ Close(p) PROVE TreeInv'
  BY <1>4, TreeInvMove DEF Disown, Unlink, Close
<1>5. ASSUME NEW p \in Proc, RequireAbsent(p) \/ MakeStage(p) \/ Populate(p) PROVE TreeInv'
  BY <1>5, TreeInvMove DEF RequireAbsent, MakeStage, Populate, TypeOK
<1>6. ASSUME NEW p \in Proc, Inspect(p) PROVE TreeInv'
  BY <1>6, TreeInvMove DEF Inspect
<1>7. ASSUME NEW p \in Proc, Look(p) PROVE TreeInv'
  BY <1>7, TreeInvMove DEF Look, TreeInv, StageChecked
<1>8. ASSUME NEW p \in Proc, Rename(p) PROVE TreeInv'
  <2>1. CASE /\ dest' = stage[p] /\ stage' = [stage EXCEPT ![p] = Shell(p)]
             /\ Goto(p, "final") /\ UNCHANGED bounds
    <3>1. pc[p] \in PastReceipt /\ \A q \in Proc \ {p} : stage'[q] = stage[q]
      BY <1>8, <2>1 DEF Rename, TypeOK
    <3>. QED  BY <2>1, <3>1, TreeInvSelect
  <2>2. CASE Fault /\ Goto(p, "unstage") /\ UNCHANGED <<dest, stage>>
    <3>1. /\ pc' = [pc EXCEPT ![p] = "unstage"] /\ pc[p] = "rename"
          /\ UNCHANGED <<dest, stage, tampers>>
          /\ faults' # 0
      BY <1>8, <2>2 DEF Rename, TypeOK
    <3>. QED  BY <3>1, TreeInvMove
  <2>3. CASE Goto(p, "swap") /\ UNCHANGED <<dest, stage, bounds>>
    BY <1>8, <2>3, TreeInvMove DEF Rename, TreeInv, StageChecked
  <2>. QED  BY <1>8, <2>1, <2>2, <2>3 DEF Rename
<1>9. ASSUME NEW p \in Proc, Swap(p) PROVE TreeInv'
  <2>1. CASE /\ dest' = stage[p] /\ stage' = [stage EXCEPT ![p] = dest]
             /\ Goto(p, "discard") /\ UNCHANGED bounds
    <3>1. pc[p] \in PastReceipt /\ \A q \in Proc \ {p} : stage'[q] = stage[q]
      BY <1>9, <2>1 DEF Swap, TypeOK
    <3>. QED  BY <2>1, <3>1, TreeInvSelect
  <2>2. CASE Goto(p, "unstage") /\ UNCHANGED <<dest, stage>> /\ (Fault \/ UNCHANGED bounds)
    <3>1. /\ pc' = [pc EXCEPT ![p] = "unstage"] /\ pc[p] = "swap"
          /\ UNCHANGED <<dest, stage, tampers>>
      BY <1>9, <2>2 DEF Swap
    <3>2. faults' = 0 => faults = 0
      BY <2>2 DEF TypeOK
    <3>. QED  BY <3>1, <3>2, TreeInvMove
  <2>. QED  BY <1>9, <2>1, <2>2 DEF Swap
<1>10. ASSUME NEW p \in Proc, Discard(p) \/ Final(p) PROVE TreeInv'
  BY <1>10, TreeInvMove DEF Discard, Final, TypeOK
<1>11. ASSUME NEW p \in Proc, Withdraw(p) PROVE TreeInv'
  <2>1. CASE dest' = NoTree /\ UNCHANGED bounds
    BY <1>11, <2>1, Trees
       DEF Withdraw, TreeInv, StageChecked, BadIsWithdrawn, OnlyMatchingSelected, TypeOK
  <2>2. CASE Fault /\ UNCHANGED dest
    <3>1. faults' # 0 /\ tampers' = tampers /\ stage' = stage /\ pc' = [pc EXCEPT ![p] = "unstage"]
      BY <1>11, <2>2 DEF Withdraw, TypeOK
    <3>. QED  BY <2>2, <3>1, TreeInvMove
  <2>. QED  BY <1>11, <2>1, <2>2 DEF Withdraw
<1>12. ASSUME NEW p \in Proc, Unstage(p) PROVE TreeInv'
  <2>1. /\ pc[p] = "unstage" /\ pc' = [pc EXCEPT ![p] = "disown"]
        /\ UNCHANGED <<dest, tampers>>
        /\ \A q \in Proc \ {p} : stage'[q] = stage[q]
    BY <1>12 DEF Unstage, TypeOK
  <2>2. faults' = 0 => faults = 0
    BY <1>12 DEF Unstage, TypeOK
  <2>. QED  BY <2>1, <2>2, TreeInvMove
<1>13. ASSUME NEW p \in Proc, Crash(p) PROVE TreeInv'
  <2>1. /\ pc' = [pc EXCEPT ![p] = "out"] /\ UNCHANGED <<dest, tampers>>
        /\ \A q \in Proc \ {p} : stage'[q] = stage[q]
    BY <1>13 DEF Crash, TypeOK
  <2>2. faults' # 0
    BY <1>13 DEF Crash, TypeOK
  <2>. QED  BY <2>1, <2>2, TreeInvMove
<1>14. ASSUME NEW p \in Proc, Tamper(p) PROVE TreeInv'
  <2>1. tampers' # 0 /\ UNCHANGED <<pc, faults>>
    BY <1>14 DEF Tamper, TypeOK
  <2>2. CASE UNCHANGED dest
    BY <2>1, <2>2 DEF TreeInv, StageChecked, BadIsWithdrawn, OnlyMatchingSelected
  <2>3. CASE pc[p] \in Closing
    BY <2>1, <2>3 DEF TreeInv, StageChecked, BadIsWithdrawn, OnlyMatchingSelected
  <2>. QED  BY <1>14, <2>2, <2>3 DEF Tamper
<1>15. CASE Revoke \/ Finished \/ UNCHANGED vars
  BY <1>15 DEF Revoke, Finished, vars, TreeInv, StageChecked, BadIsWithdrawn,
               OnlyMatchingSelected
<1>. QED
  BY <1>1, <1>2, <1>3, <1>4, <1>5, <1>6, <1>7, <1>8, <1>9, <1>10, <1>11, <1>12,
     <1>13, <1>14, <1>15 DEF Next, Continue

\* Whoever else is inside the asset lock, no call puts a tree at the path that it
\* did not find to match, unless somebody changed that tree afterwards.
THEOREM OnlyMatchingSelectedHolds == Spec => []OnlyMatchingSelected
<1>1. TreeInv => OnlyMatchingSelected
  BY DEF TreeInv
<1>. QED  BY <1>1, TreeInvInit, TreeInvNext, PTL DEF Spec

\* And a tree that was changed on its way is gone when all calls have returned.
THEOREM RefusalLeavesNothingHolds == Spec => []RefusalLeavesNothing
<1>1. TreeInv => RefusalLeavesNothing
  BY DEF TreeInv, BadIsWithdrawn, RefusalLeavesNothing, Closing
<1>. QED  BY <1>1, TreeInvInit, TreeInvNext, PTL DEF Spec

\* Once the receipt is gone, and the calls that had asked for it for the third
\* time are through, no tree of an installer appears at the path any more.
THEOREM RevocationHoldsAlways == Spec => RevocationHolds
<1>1. ASSUME TypeOK, [Next]_vars, Revoked
      PROVE  Revoked' /\ (dest'.by = dest.by \/ ~dest'.there)
  <2>. USE <1>1 DEF Revoked, PastReceipt, Goto, Return, Step, trees, TypeOK
  <2>1. ASSUME NEW p \in Proc, Begin(p) \/ GateOutside(p) \/ GateInside(p) \/ Poll(p)
                               \/ TryLock(p) \/ WriteOwner(p) \/ NameOwner(p)
        PROVE  Revoked' /\ dest' = dest
    BY <2>1 DEF Begin, GateOutside, GateInside, Gate, Poll, TryLock, WriteOwner, NameOwner
  <2>2. ASSUME NEW p \in Proc, RequireAbsent(p) \/ MakeStage(p) \/ Populate(p) \/ Inspect(p)
                               \/ Discard(p) \/ Final(p) \/ Unstage(p)
        PROVE  Revoked' /\ dest' = dest
    BY <2>2 DEF RequireAbsent, MakeStage, Populate, Inspect, Discard, Final, Unstage
  <2>3. ASSUME NEW p \in Proc, Disown(p) \/ Unlink(p) \/ Close(p) \/ Crash(p)
        PROVE  Revoked' /\ dest' = dest
    BY <2>3 DEF Disown, Unlink, Close, Crash
  <2>4. ASSUME NEW p \in Proc, Look(p) \/ Rename(p) \/ Swap(p)
        PROVE  FALSE
    BY <2>4 DEF Look, Rename, Swap
  <2>5. ASSUME NEW p \in Proc, Withdraw(p)
        PROVE  Revoked' /\ (dest' = dest \/ ~dest'.there)
    BY <2>5 DEF Withdraw, NoTree
  <2>6. ASSUME NEW p \in Proc, Tamper(p)
        PROVE  Revoked' /\ dest'.by = dest.by
    <3>1. dest' = dest \/ dest' = [dest EXCEPT !.ok = FALSE]
      BY <2>6 DEF Tamper
    <3>2. dest'.by = dest.by
      BY <3>1, Trees
    <3>. QED  BY <2>6, <3>2 DEF Tamper
  <2>7. CASE Revoke \/ Finished \/ UNCHANGED vars
    BY <2>7 DEF Revoke, Finished, vars
  <2>. QED
    BY <2>1, <2>2, <2>3, <2>4, <2>5, <2>6, <2>7 DEF Next, Continue
<1>2. TypeOK /\ [Next]_vars
        => (Revoked => Revoked' /\ (dest'.by = dest.by \/ ~dest'.there))
  BY <1>1
<1>. QED  BY <1>2, TypeCorrect, PTL DEF Spec, RevocationHolds
-----------------------------------------------------------------------------
(* What a call leaves behind.  Two calls may be inside, so a file is       *)
(* removed not by the one call that made it but by some call that still    *)
(* has to: the path's inode is always open in one that will unlink it.     *)

\* The steps that leave the lock file, its owner file and all faults alone.
Plain(p) ==
  /\ UNCHANGED <<locks, owners, litter, faults>>
  /\ pc[p] \in Inside /\ pc'[p] \in Inside \union {"disown"}
Outside(p) ==
  /\ UNCHANGED <<locks, owners, litter, faults>>
  /\ pc[p] \in {"out", "gate", "poll"} /\ pc'[p] \in {"out", "gate", "poll"}
Moves(p) == \A q \in Proc \ {p} : pc'[q] = pc[q] /\ stage'[q] = stage[q]

\* A step that fails inside changes no more than a plain one, but counts.
Failed(p) ==
  /\ UNCHANGED <<locks, owners>> /\ faults' # 0
  /\ pc[p] \in Inside /\ pc'[p] \in Inside \union {"disown"}

\* Each step of a call moves that call only, and is one of those that touch the
\* lock's files or one that leaves them alone.
LEMMA Steps ==
  ASSUME TypeOK, NEW p \in Proc, Begin(p) \/ Continue(p) \/ Crash(p) \/ Tamper(p)
  PROVE  /\ Moves(p)
         /\ \/ Poll(p) \/ TryLock(p) \/ WriteOwner(p) \/ NameOwner(p)
            \/ Disown(p) \/ Unlink(p) \/ Close(p) \/ Crash(p)
            \/ Plain(p) \/ Outside(p) \/ Failed(p) \/ (Tamper(p) /\ UNCHANGED pc)
<1>. USE DEF TypeOK, Moves, Goto, Return, Step, Fault, locks, owners, trees, bounds
<1>1. CASE Poll(p) \/ TryLock(p) \/ Disown(p) \/ Unlink(p) \/ Close(p)
  BY <1>1 DEF Poll, TryLock, Disown, Unlink, Close
<1>2. CASE WriteOwner(p) \/ NameOwner(p) \/ Crash(p)
  BY <1>2 DEF WriteOwner, NameOwner, Crash
<1>3. CASE Begin(p) \/ GateOutside(p)
  BY <1>3 DEF Begin, GateOutside, Gate, Outside
<1>4. CASE GateInside(p) \/ RequireAbsent(p) \/ Inspect(p) \/ Look(p) \/ Final(p)
  BY <1>4 DEF GateInside, Gate, RequireAbsent, Inspect, Look, Final, Plain, Inside
<1>5. CASE MakeStage(p)
  BY <1>5 DEF MakeStage, Plain, Failed, Inside
<1>6. CASE Populate(p)
  BY <1>6 DEF Populate, Plain, Inside
<1>7. CASE Rename(p)
  BY <1>7 DEF Rename, Plain, Failed, Inside
<1>8. CASE Swap(p)
  BY <1>8 DEF Swap, Plain, Failed, Inside
<1>9. CASE Discard(p)
  BY <1>9 DEF Discard, Plain, Failed, Inside
<1>10. CASE Withdraw(p)
  BY <1>10 DEF Withdraw, Plain, Failed, Inside
<1>11. CASE Unstage(p)
  BY <1>11 DEF Unstage, Plain, Failed, Inside
<1>12. CASE Tamper(p)
  BY <1>12 DEF Tamper
<1>. QED
  BY <1>1, <1>2, <1>3, <1>4, <1>5, <1>6, <1>7, <1>8, <1>9, <1>10, <1>11, <1>12 DEF Continue

\* The flocks and the descriptors they are held by.
LEMMA LocksNext ==
  ASSUME TypeOK, FlockOwned, DescriptorOpen, ClosingIsUnlinked, NEW p \in Proc,
         Begin(p) \/ Continue(p) \/ Crash(p) \/ Tamper(p)
  PROVE  FlockOwned' /\ DescriptorOpen' /\ ClosingIsUnlinked'
<1>. USE NullAssumption
     DEF TypeOK, FlockOwned, DescriptorOpen, ClosingIsUnlinked, Moves, Owning, Inside,
         Goto, Return, Step, locks
<1>0. Moves(p)
  BY Steps
<1>1. CASE Poll(p)
  BY <1>0, <1>1 DEF Poll, Unused
<1>2. CASE TryLock(p)
  BY <1>0, <1>2 DEF TryLock
<1>3. CASE WriteOwner(p) \/ NameOwner(p) \/ Disown(p)
  BY <1>0, <1>3 DEF WriteOwner, NameOwner, Disown
<1>4. CASE Unlink(p)
  BY <1>0, <1>4 DEF Unlink
<1>5. CASE Close(p) \/ Crash(p)
  BY <1>0, <1>5 DEF Close, Crash, Unlocked
<1>6. CASE Plain(p) \/ Outside(p) \/ Failed(p)
  BY <1>0, <1>6 DEF Plain, Outside, Failed
<1>7. CASE Tamper(p) /\ UNCHANGED pc
  BY <1>7 DEF Tamper
<1>. QED  BY <1>1, <1>2, <1>3, <1>4, <1>5, <1>6, <1>7, Steps

\* One call at a time is between the owner file's O_EXCL creation and its rename.
LEMMA OneNamesNext ==
  ASSUME TypeOK, OneNames, NEW p \in Proc, Begin(p) \/ Continue(p) \/ Crash(p) \/ Tamper(p)
  PROVE  OneNames'
<1>. USE DEF TypeOK, OneNames, Moves, Goto, Return, Step, owners
<1>0. Moves(p)
  BY Steps
<1>1. CASE WriteOwner(p) \/ NameOwner(p)
  BY <1>0, <1>1 DEF WriteOwner, NameOwner
<1>2. CASE Poll(p) \/ TryLock(p) \/ Disown(p) \/ Unlink(p) \/ Close(p) \/ Crash(p)
  BY <1>0, <1>2 DEF Poll, TryLock, Disown, Unlink, Close, Crash
<1>3. CASE Plain(p) \/ Outside(p) \/ Failed(p)
  BY <1>0, <1>3 DEF Plain, Outside, Failed, Inside
<1>4. CASE Tamper(p) /\ UNCHANGED pc
  BY <1>4 DEF Tamper
<1>. QED  BY <1>1, <1>2, <1>3, <1>4, Steps

\* Some other call that is waiting or inside still has the path's inode open
\* when one gives it up.
LEMMA PathKeptNext ==
  ASSUME TypeOK, FlockOwned, DescriptorOpen, ClosingIsUnlinked, Tidy, faults' = 0,
         NEW p \in Proc, Begin(p) \/ Continue(p) \/ Crash(p) \/ Tamper(p)
  PROVE  PathKept'
<1>. USE DEF TypeOK, PathKept, Moves, Owning, Inside, Goto, Return, Step, locks
<1>0. Moves(p)
  BY Steps
<1>1. CASE Poll(p)
  <2>1. CASE UNCHANGED <<path, fd>> /\ pc'[p] = "out"
    BY <1>0, <1>1, <2>1 DEF Poll, Tidy, bounds
  <2>2. CASE fd'[p] = path' /\ pc'[p] = "try"
    BY <2>2
  <2>. QED  BY <1>1, <2>1, <2>2 DEF Poll
<1>2. CASE TryLock(p)
  <2>0. PathKept /\ UNCHANGED path /\ pc[p] = "try"
    BY <1>2 DEF TryLock, Tidy, bounds
  <2>1. CASE pc'[p] = "owner" /\ UNCHANGED fd
    BY <1>0, <2>0, <2>1
  <2>2. CASE flock[fd[p]] # NoProc /\ fd' = [fd EXCEPT ![p] = NoInode]
    <3>1. fd[p] \in Inode
      BY <2>0 DEF DescriptorOpen
    <3>2. PICK q \in Proc : flock[fd[p]] = q
      BY <2>2, <3>1
    <3>3. fd[q] = fd[p] /\ pc[q] \in Owning /\ q # p
      BY <2>0, <3>1, <3>2 DEF FlockOwned
    <3>4. CASE fd[p] = path
      <4>1. fd'[q] = path' /\ pc'[q] \in Owning \ {"close"}
        BY <1>0, <2>0, <2>2, <3>3, <3>4 DEF ClosingIsUnlinked
      <4>. QED  BY <4>1
    <3>5. CASE fd[p] # path
      BY <1>0, <2>0, <2>2, <3>5
    <3>. QED  BY <3>4, <3>5
  <2>. QED  BY <1>2, <2>1, <2>2 DEF TryLock
<1>3. CASE WriteOwner(p) \/ NameOwner(p) \/ Disown(p)
  <2>1. /\ UNCHANGED locks /\ pc[p] \in Owning \ {"close"} /\ pc'[p] \in Owning \ {"close"}
        /\ faults = 0
    BY <1>3 DEF WriteOwner, NameOwner, Disown, Fault, bounds
  <2>. QED  BY <1>0, <2>1 DEF Tidy
<1>4. CASE Unlink(p)
  BY <1>4 DEF Unlink
<1>5. CASE Close(p)
  BY <1>0, <1>5 DEF Close, Tidy, bounds
<1>6. CASE Plain(p) \/ Outside(p)
  BY <1>0, <1>6 DEF Plain, Outside, Tidy
<1>7. CASE Crash(p) \/ Failed(p)
  BY <1>7 DEF Crash, Fault, Failed
<1>8. CASE Tamper(p) /\ UNCHANGED pc
  BY <1>8 DEF Tamper, Tidy
<1>. QED  BY <1>1, <1>2, <1>3, <1>4, <1>5, <1>6, <1>7, <1>8, Steps

\* Whoever still has the path's inode open will unlink it, and so with the owner
\* file and its temporary.
LEMMA TidyNext ==
  ASSUME TypeOK, FlockOwned, DescriptorOpen, ClosingIsUnlinked, OneNames, Tidy,
         NEW p \in Proc, Begin(p) \/ Continue(p) \/ Crash(p) \/ Tamper(p)
  PROVE  Tidy'
<1>. SUFFICES ASSUME faults' = 0
              PROVE  TmpKept' /\ OwnerKept' /\ litter' = FALSE
  BY PathKeptNext DEF Tidy
<1>. USE NullAssumption
     DEF TypeOK, Moves, TmpKept, OwnerKept, Inside, Goto, Return, Step, owners, trees
<1>0. Moves(p)
  BY Steps
<1>1. CASE WriteOwner(p)
  <2>1. /\ faults = 0 /\ litter' = litter /\ owner' = owner /\ pc[p] = "owner"
        /\ \/ tmp' = tmp /\ pc'[p] = "disown"
           \/ pc'[p] = "name"
    BY <1>1 DEF WriteOwner, Fault, bounds
  <2>. QED  BY <1>0, <2>1 DEF Tidy
<1>2. CASE NameOwner(p)
  BY <1>0, <1>2 DEF NameOwner, Tidy, bounds
<1>3. CASE Disown(p)
  BY <1>0, <1>3 DEF Disown, Tidy, bounds
<1>4. CASE Poll(p) \/ TryLock(p) \/ Unlink(p) \/ Close(p)
  <2>1. /\ faults = 0 /\ UNCHANGED <<tmp, owner, litter>>
        /\ pc[p] \in {"poll", "try", "unlink", "close"}
    BY <1>4 DEF Poll, TryLock, Unlink, Close, bounds
  <2>. QED  BY <1>0, <2>1 DEF Tidy
<1>5. CASE Plain(p) \/ Outside(p)
  BY <1>0, <1>5 DEF Plain, Outside, Tidy
<1>6. CASE Crash(p) \/ Failed(p)
  BY <1>6 DEF Crash, Fault, Failed
<1>7. CASE Tamper(p) /\ UNCHANGED pc
  BY <1>7 DEF Tamper, Tidy
<1>. QED  BY <1>1, <1>2, <1>3, <1>4, <1>5, <1>6, <1>7, Steps

\* A stage belongs to a call under way.
LEMMA StageOwnedNext ==
  ASSUME TypeOK, StageOwned, NEW p \in Proc,
         Begin(p) \/ Continue(p) \/ Crash(p) \/ Tamper(p)
  PROVE  StageOwned'
<1>. USE DEF TypeOK, StageOwned, Staging, NoTree, Moves, Goto, Return, Step, trees
<1>0. Moves(p)
  BY Steps
<1>1. ASSUME UNCHANGED stage, pc[p] \notin Staging \/ pc'[p] \in Staging PROVE StageOwned'
  BY <1>0, <1>1
<1>2. CASE Begin(p) \/ GateOutside(p) \/ GateInside(p) \/ Poll(p) \/ TryLock(p) \/ WriteOwner(p)
           \/ NameOwner(p) \/ RequireAbsent(p) \/ Disown(p) \/ Unlink(p) \/ Close(p)
  <2>1. UNCHANGED stage /\ pc[p] \notin Staging
    BY <1>2 DEF Begin, GateOutside, GateInside, Poll, TryLock, WriteOwner, NameOwner,
                RequireAbsent, Disown, Unlink, Close
  <2>. QED  BY <1>1, <2>1
<1>3. CASE Inspect(p) \/ Look(p) \/ Final(p) \/ Withdraw(p)
  <2>1. UNCHANGED stage /\ pc'[p] \in Staging
    BY <1>3 DEF Inspect, Look, Final, Withdraw
  <2>. QED  BY <1>1, <2>1
<1>4. CASE Populate(p) \/ Rename(p) \/ Swap(p) \/ Discard(p)
  <2>1. pc'[p] \in Staging
    BY <1>4 DEF Populate, Rename, Swap, Discard
  <2>. QED  BY <1>0, <2>1
<1>5. CASE MakeStage(p)
  BY <1>0, <1>5 DEF MakeStage
<1>6. CASE Unstage(p) \/ Crash(p)
  BY <1>0, <1>6 DEF Unstage, Crash
<1>7. CASE Tamper(p)
  <2>1. UNCHANGED pc /\ (stage' # stage => pc[p] \in Staging)
    BY <1>7 DEF Tamper
  <2>. QED  BY <1>0, <2>1
<1>. QED  BY <1>2, <1>3, <1>4, <1>5, <1>6, <1>7 DEF Continue

\* The invariant of the lock's files holds before the first call,
LEMMA FileInvInit == Init => TypeOK /\ FileInv
<1>. SUFFICES ASSUME Init
              PROVE  TypeOK /\ FileInv
  OBVIOUS
<1>1. TypeOK
  BY TypeOKInit
<1>2. StageOwned
  BY DEF Init, StageOwned, NoTree
<1>. QED
  BY <1>1, <1>2, NullAssumption
     DEF Init, FileInv, FlockOwned, DescriptorOpen, ClosingIsUnlinked, OneNames, Tidy, PathKept,
         TmpKept, OwnerKept, Owning, Inside

\* and every step keeps it.
LEMMA FileInvNext == TypeOK /\ FileInv /\ [Next]_vars => TypeOK' /\ FileInv'
<1>. SUFFICES ASSUME TypeOK, FileInv, [Next]_vars
              PROVE  FileInv'
  BY TypeOKNext
<1>1. ASSUME NEW p \in Proc, Begin(p) \/ Continue(p) \/ Crash(p) \/ Tamper(p) PROVE FileInv'
  BY <1>1, LocksNext, OneNamesNext, TidyNext, StageOwnedNext DEF FileInv
<1>2. CASE Revoke \/ Finished \/ UNCHANGED vars
  <2>1. UNCHANGED <<locks, owners, trees, pc, bounds>>
    BY <1>2 DEF Revoke, Finished, vars
  <2>2. FlockOwned' /\ DescriptorOpen' /\ ClosingIsUnlinked' /\ OneNames'
    BY <2>1 DEF FileInv, FlockOwned, DescriptorOpen, ClosingIsUnlinked, OneNames, locks, owners
  <2>3. StageOwned'
    BY <2>1 DEF FileInv, StageOwned, NoTree, trees
  <2>4. Tidy'
    BY <2>1 DEF FileInv, Tidy, PathKept, TmpKept, OwnerKept, locks, owners, trees, bounds
  <2>. QED  BY <2>2, <2>3, <2>4 DEF FileInv
<1>. QED  BY <1>1, <1>2 DEF Next

\* When all calls have returned without a fault, no lock file, owner file, staged
\* tree or staging directory is left, though two of them may have been inside the
\* asset lock at once and have unlinked each other's files.
THEOREM NothingLeftHolds == Spec => []NothingLeft
<1>1. TypeOK /\ FileInv => NothingLeft
  <2>. SUFFICES ASSUME TypeOK, FileInv, faults = 0, \A p \in Proc : pc[p] = "out"
                PROVE  /\ path = NoInode /\ ~tmp /\ owner = NoProc /\ ~litter
                       /\ \A p \in Proc : stage[p] = NoTree
    BY DEF NothingLeft
  <2>1. path = NoInode /\ ~tmp /\ owner = NoProc /\ ~litter
    BY DEF TypeOK, FileInv, Tidy, PathKept, TmpKept, OwnerKept, Owning, Inside
  <2>2. \A p \in Proc : stage[p] = NoTree
    BY DEF FileInv, StageOwned, Staging
  <2>. QED  BY <2>1, <2>2
<1>2. Spec => [](TypeOK /\ FileInv)
  BY FileInvInit, FileInvNext, PTL DEF Spec
<1>. QED  BY <1>1, <1>2, PTL
-----------------------------------------------------------------------------
(* Two holders.  The tree a call verifies need not be its own, as          *)
(* SelectionIsOwn shows.  What holds in its place: without tampering it is *)
(* some call's checked tree, so nobody withdraws it.                       *)

\* A stage is there until it is removed, and what matches is there.
Whole == /\ dest.ok => dest.there
         /\ \A p \in Proc : pc[p] \in Staging => stage[p].there

\* A call that found nothing at the path finds nothing there or a tree another
\* holder checked, which it exchanges with its own.
PastAbsent == {"mkstage", "populate", "inspect", "look", "rename", "swap"}
Agreeing(p) == /\ pc[p] \in PastAbsent => ~dest.there \/ dest.ok
               /\ pc[p] \in {"swap", "discard", "final"} => dest.ok
               /\ pc[p] \in PastReceipt => stage[p].ok
               /\ pc[p] # "withdraw"
Agreed == tampers = 0 => \A p \in Proc : Agreeing(p)

\* Without tampering, no holder of the lock takes away a tree that matches, and a
\* call that passed its three checks ends well unless a system call fails,
\* whoever else selects, verifies or is killed meanwhile.
HoldersHarmless ==
  [][tampers' = 0 =>
       /\ dest.ok => dest'.ok
       /\ \A p \in Proc :
            pc[p] \in PastReceipt \union Closing /\ pc'[p] = "unstage" /\ faults' = 0
              => result'[p] = "ready"]_vars

\* The parts of the trees that occur.
LEMMA TreeFields ==
  /\ ~NoTree.there /\ ~NoTree.ok
  /\ \A p \in Proc : Shell(p).there /\ ~Shell(p).ok
  /\ \A t \in Tree, good \in BOOLEAN : [t EXCEPT !.ok = good].there = t.there
  BY DEF Tree, NoTree, Shell

\* Nothing was selected before the first call that does not match, or it is no
\* installer's and every call refuses it.
LEMMA AgreedInit == Init => Whole /\ Agreed
<1>. SUFFICES ASSUME Init
              PROVE  Whole /\ Agreed
  OBVIOUS
<1>1. Whole
  BY DEF Init, Whole, Staging, NoTree, Shell
<1>2. Agreed
  BY DEF Init, Agreed, Agreeing, PastAbsent, PastReceipt
<1>. QED  BY <1>1, <1>2

\* A step of p that puts nothing but a checked tree at the path, if it changes
\* the path at all.
LEMMA AgreedMove ==
  ASSUME TypeOK, Whole, Agreed, NEW p \in Proc, NEW c \in Phase,
         pc' = [pc EXCEPT ![p] = c], UNCHANGED tampers,
         \A q \in Proc \ {p} : stage'[q] = stage[q],
         \/ dest' = dest
         \/ dest'.there /\ (tampers = 0 => dest'.ok)
         \/ dest' = NoTree /\ tampers # 0,
         c \in Staging => stage'[p].there,
         tampers = 0 => /\ c \in PastAbsent => ~dest'.there \/ dest'.ok
                        /\ c \in {"swap", "discard", "final"} => dest'.ok
                        /\ c \in PastReceipt => stage'[p].ok
                        /\ c # "withdraw"
  PROVE  Whole' /\ Agreed'
<1>1. pc'[p] = c /\ \A q \in Proc \ {p} : pc'[q] = pc[q]
  BY DEF TypeOK
<1>2. Whole'
  BY <1>1, TreeFields DEF Whole
<1>3. ASSUME tampers = 0, NEW q \in Proc
      PROVE  Agreeing(q)'
  <2>1. CASE q = p
    BY <1>1, <1>3, <2>1 DEF Agreeing
  <2>2. CASE q # p
    BY <1>1, <1>3, <2>2 DEF Agreed, Agreeing
  <2>. QED  BY <2>1, <2>2
<1>. QED  BY <1>2, <1>3 DEF Agreed

\* Every step keeps what the holders of the lock agree on.
LEMMA AgreedNext == TypeOK /\ Whole /\ Agreed /\ [Next]_vars => Whole' /\ Agreed'
<1>. SUFFICES ASSUME TypeOK, Whole, Agreed, [Next]_vars
              PROVE  Whole' /\ Agreed'
  OBVIOUS
<1>0. \A p \in Proc : /\ tampers = 0 => Agreeing(p)
                      /\ pc[p] \in Staging => stage[p].there
                      /\ stage[p] \in Tree
  BY DEF Agreed, Whole, TypeOK
<1>. USE <1>0
     DEF Goto, Return, Step, Fault, locks, owners, trees, bounds, PastReceipt,
         PastAbsent, Staging, Phase, Agreeing
<1>1. ASSUME NEW p \in Proc,
             \/ Begin(p) \/ GateOutside(p) \/ Poll(p) \/ TryLock(p)
             \/ WriteOwner(p) \/ NameOwner(p) \/ GateInside(p)
             \/ Disown(p) \/ Unlink(p) \/ Close(p)
      PROVE  Whole' /\ Agreed'
  <2>1. /\ UNCHANGED <<dest, stage, tampers>>
        /\ \E c \in Phase \ Staging : /\ pc' = [pc EXCEPT ![p] = c]
                                      /\ c \notin PastAbsent
    BY <1>1 DEF Begin, GateOutside, Gate, Poll, TryLock, WriteOwner, NameOwner,
                GateInside, Disown, Unlink, Close
  <2>. QED  BY <2>1, AgreedMove
<1>2. ASSUME NEW p \in Proc, RequireAbsent(p) PROVE Whole' /\ Agreed'
  BY <1>2, AgreedMove DEF RequireAbsent
<1>3. ASSUME NEW p \in Proc, MakeStage(p) PROVE Whole' /\ Agreed'
  <2>1. /\ UNCHANGED <<dest, tampers>> /\ pc[p] = "mkstage"
        /\ \A q \in Proc \ {p} : stage'[q] = stage[q]
        /\ \/ pc' = [pc EXCEPT ![p] = "populate"] /\ stage'[p] = Shell(p)
           \/ pc' = [pc EXCEPT ![p] = "disown"]
    BY <1>3 DEF MakeStage, TypeOK
  <2>. QED  BY <2>1, AgreedMove, TreeFields
<1>4. ASSUME NEW p \in Proc, Populate(p) PROVE Whole' /\ Agreed'
  <2>1. /\ UNCHANGED <<dest, tampers>> /\ pc[p] = "populate"
        /\ \A q \in Proc \ {p} : stage'[q] = stage[q]
        /\ \/ pc' = [pc EXCEPT ![p] = "inspect"]
           \/ pc' = [pc EXCEPT ![p] = "unstage"]
        /\ \/ stage' = stage
           \/ \E good \in BOOLEAN : stage'[p] = [stage[p] EXCEPT !.ok = good]
    BY <1>4 DEF Populate, TypeOK
  <2>2. stage'[p].there
    <3>1. \A good \in BOOLEAN : [stage[p] EXCEPT !.ok = good].there = stage[p].there
      BY TreeFields
    <3>2. stage[p].there
      BY <2>1
    <3>. QED  BY <2>1, <3>1, <3>2
  <2>. QED  BY <2>1, <2>2, AgreedMove
<1>5. ASSUME NEW p \in Proc, Inspect(p) \/ Look(p) PROVE Whole' /\ Agreed'
  BY <1>5, AgreedMove DEF Inspect, Look
<1>6. ASSUME NEW p \in Proc, Rename(p) PROVE Whole' /\ Agreed'
  <2>1. /\ pc[p] = "rename" /\ UNCHANGED tampers
        /\ \A q \in Proc \ {p} : stage'[q] = stage[q]
        /\ \/ /\ dest' = stage[p] /\ stage'[p] = Shell(p)
              /\ pc' = [pc EXCEPT ![p] = "final"]
           \/ UNCHANGED <<dest, stage>> /\ pc' = [pc EXCEPT ![p] = "unstage"]
           \/ UNCHANGED <<dest, stage>> /\ dest.there /\ pc' = [pc EXCEPT ![p] = "swap"]
    BY <1>6 DEF Rename, TypeOK
  <2>. QED  BY <2>1, AgreedMove, TreeFields
<1>7. ASSUME NEW p \in Proc, Swap(p) PROVE Whole' /\ Agreed'
  <2>1. /\ pc[p] = "swap" /\ UNCHANGED tampers
        /\ \A q \in Proc \ {p} : stage'[q] = stage[q]
        /\ \/ /\ dest' = stage[p] /\ stage'[p] = dest /\ dest.there
              /\ pc' = [pc EXCEPT ![p] = "discard"]
           \/ UNCHANGED <<dest, stage>> /\ pc' = [pc EXCEPT ![p] = "unstage"]
    BY <1>7 DEF Swap, TypeOK
  <2>. QED  BY <2>1, AgreedMove
<1>8. ASSUME NEW p \in Proc, Discard(p) PROVE Whole' /\ Agreed'
  <2>1. /\ pc[p] = "discard" /\ UNCHANGED <<dest, tampers>> /\ stage'[p] = Shell(p)
        /\ \A q \in Proc \ {p} : stage'[q] = stage[q]
        /\ \/ pc' = [pc EXCEPT ![p] = "final"]
           \/ pc' = [pc EXCEPT ![p] = "unstage"]
    BY <1>8 DEF Discard, TypeOK
  <2>. QED  BY <2>1, AgreedMove, TreeFields
<1>9. ASSUME NEW p \in Proc, Final(p) PROVE Whole' /\ Agreed'
  BY <1>9, AgreedMove DEF Final
<1>10. ASSUME NEW p \in Proc, Withdraw(p) PROVE Whole' /\ Agreed'
  <2>1. /\ pc[p] = "withdraw" /\ UNCHANGED <<stage, tampers>> /\ tampers # 0
        /\ dest' \in {NoTree, dest} /\ pc' = [pc EXCEPT ![p] = "unstage"]
    BY <1>10 DEF Withdraw
  <2>. QED  BY <2>1, AgreedMove
<1>11. ASSUME NEW p \in Proc, Unstage(p) \/ Crash(p) PROVE Whole' /\ Agreed'
  <2>1. /\ UNCHANGED <<dest, tampers>> /\ \A q \in Proc \ {p} : stage'[q] = stage[q]
        /\ \E c \in {"disown", "out"} : pc' = [pc EXCEPT ![p] = c]
    BY <1>11 DEF Unstage, Crash, TypeOK
  <2>. QED  BY <2>1, AgreedMove
<1>12. ASSUME NEW p \in Proc, Tamper(p) PROVE Whole' /\ Agreed'
  <2>1. /\ tampers' # 0 /\ UNCHANGED pc
        /\ dest' = dest \/ dest' = [dest EXCEPT !.ok = FALSE]
        /\ stage' = stage \/ stage' = [stage EXCEPT ![p] = [stage[p] EXCEPT !.ok = FALSE]]
    BY <1>12 DEF Tamper, TypeOK
  <2>2. dest'.ok => dest'.there
    <3>1. ~[dest EXCEPT !.ok = FALSE].ok
      BY Trees DEF TypeOK
    <3>. QED  BY <2>1, <3>1 DEF Whole
  <2>3. \A q \in Proc : stage'[q].there = stage[q].there
    <3>1. [stage[p] EXCEPT !.ok = FALSE].there = stage[p].there
      BY TreeFields
    <3>. QED  BY <2>1, <3>1 DEF TypeOK
  <2>. QED  BY <2>1, <2>2, <2>3 DEF Whole, Agreed
<1>13. CASE Revoke \/ Finished \/ UNCHANGED vars
  <2>1. UNCHANGED <<dest, stage, pc, tampers>>
    BY <1>13 DEF Revoke, Finished, vars
  <2>. QED  BY <2>1 DEF Whole, Agreed
<1>. QED
  BY <1>1, <1>2, <1>3, <1>4, <1>5, <1>6, <1>7, <1>8, <1>9, <1>10, <1>11, <1>12,
     <1>13 DEF Next, Continue

\* Two holders of the asset lock, which nothing keeps apart, do each other no
\* harm: whoever installs does so for all of them.
THEOREM HoldersHarmlessHolds == Spec => HoldersHarmless
<1>1. ASSUME TypeOK, Whole, Agreed, [Next]_vars, tampers' = 0
      PROVE  /\ dest.ok => dest'.ok
             /\ \A p \in Proc :
                  pc[p] \in PastReceipt \union Closing /\ pc'[p] = "unstage" /\ faults' = 0
                    => result'[p] = "ready"
  <2>. DEFINE Ends(p) ==
                pc[p] \in PastReceipt \union Closing /\ pc'[p] = "unstage" /\ faults' = 0
                  => result'[p] = "ready"
              Harmless == (dest.ok => dest'.ok) /\ \A p \in Proc : Ends(p)
  <2>. SUFFICES Harmless
    OBVIOUS
  <2>. USE DEF Goto, Return, Step, Fault, locks, owners, trees, bounds, PastReceipt, Closing
  <2>1. ASSUME NEW p \in Proc, tampers = 0, Moves(p), dest.ok => dest'.ok, Ends(p)
        PROVE  Harmless
    BY <2>1 DEF Moves
  <2>2. ASSUME NEW p \in Proc, Begin(p) \/ Continue(p) \/ Crash(p) \/ Tamper(p)
        PROVE  Harmless
    <3>1. Moves(p)
      BY <1>1, <2>2, Steps
    <3>2. tampers = 0 /\ Agreeing(p) /\ ~Tamper(p) /\ (dest.ok => dest.there)
      BY <1>1, <2>2
         DEF TypeOK, Tamper, Agreed, Whole, Begin, Continue, Crash, GateOutside, Poll, TryLock,
             WriteOwner, NameOwner, GateInside, RequireAbsent, MakeStage, Populate, Inspect,
             Look, Rename, Swap, Discard, Final, Withdraw, Unstage, Disown, Unlink, Close
    <3>3. CASE \/ Begin(p) \/ GateOutside(p) \/ Poll(p) \/ TryLock(p)
               \/ WriteOwner(p) \/ NameOwner(p) \/ GateInside(p)
               \/ Disown(p) \/ Unlink(p) \/ Close(p)
      <4>1. UNCHANGED dest /\ pc[p] \notin PastReceipt \union Closing
        BY <3>3 DEF Begin, GateOutside, Poll, TryLock, WriteOwner, NameOwner, GateInside,
                    Disown, Unlink, Close
      <4>. QED  BY <2>1, <3>1, <3>2, <4>1
    <3>4. CASE RequireAbsent(p) \/ MakeStage(p) \/ Populate(p) \/ Inspect(p) \/ Unstage(p)
      <4>1. UNCHANGED dest /\ pc[p] \notin PastReceipt \union Closing
        BY <3>4 DEF RequireAbsent, MakeStage, Populate, Inspect, Unstage
      <4>. QED  BY <2>1, <3>1, <3>2, <4>1
    <3>5. CASE Look(p) \/ Crash(p)
      <4>1. UNCHANGED dest /\ pc'[p] # "unstage"
        BY <1>1, <3>5 DEF Look, Crash, TypeOK
      <4>. QED  BY <2>1, <3>1, <3>2, <4>1
    <3>6. CASE Rename(p) \/ Swap(p)
      <4>1. dest' \in {dest, stage[p]} /\ (dest' = stage[p] => stage[p].ok)
        BY <3>2, <3>6 DEF Rename, Swap, Agreeing
      <4>2. pc'[p] = "unstage" => faults' # 0
        BY <1>1, <3>2, <3>6 DEF Rename, Swap, Agreeing, TypeOK
      <4>. QED  BY <2>1, <3>1, <3>2, <4>1, <4>2
    <3>7. CASE Discard(p)
      <4>1. UNCHANGED dest /\ (pc'[p] = "unstage" => faults' # 0)
        BY <1>1, <3>7 DEF Discard, TypeOK
      <4>. QED  BY <2>1, <3>1, <3>2, <4>1
    <3>8. CASE Final(p)
      <4>1. UNCHANGED dest /\ result'[p] = "ready"
        BY <1>1, <3>2, <3>8 DEF Final, Agreeing, TypeOK
      <4>. QED  BY <2>1, <3>1, <3>2, <4>1
    <3>9. ~Withdraw(p)
      BY <3>2 DEF Withdraw, Agreeing
    <3>. QED
      BY <2>2, <3>2, <3>3, <3>4, <3>5, <3>6, <3>7, <3>8, <3>9 DEF Continue
  <2>3. CASE Revoke \/ Finished \/ UNCHANGED vars
    <3>1. UNCHANGED <<dest, pc>>
      BY <2>3 DEF Revoke, Finished, vars
    <3>. QED  BY <3>1
  <2>. QED  BY <1>1, <2>2, <2>3 DEF Next
<1>2. TypeOK /\ Whole /\ Agreed /\ [Next]_vars
        => (tampers' = 0 =>
              /\ dest.ok => dest'.ok
              /\ \A p \in Proc :
                   pc[p] \in PastReceipt \union Closing /\ pc'[p] = "unstage" /\ faults' = 0
                     => result'[p] = "ready")
  BY <1>1
<1>3. Spec => [](TypeOK /\ Whole /\ Agreed)
  BY TypeCorrect, AgreedInit, AgreedNext, PTL DEF Spec
<1>. QED  BY <1>2, <1>3, PTL DEF Spec, HoldersHarmless
=============================================================================
