------------------------- MODULE InstallLockProofs -------------------------
(***************************************************************************)
(* Mutual exclusion of the install lock for any number of threads, inodes, *)
(* calls and faults.                                                       *)
(*                                                                         *)
(* MutualExclusion is not inductive: it says nothing of how two threads    *)
(* come to hold.  What makes it so is that a flock belongs to exactly the  *)
(* thread whose descriptor took it, and that a holder's descriptor is on   *)
(* the inode the path names: two holders then share an inode, and a flock. *)
(***************************************************************************)
EXTENDS InstallLock, TLAPS

\* A flock is held exactly by the thread that is past flock() on that inode.
FlockOwned == \A p \in Proc, i \in Inode :
                flock[i] = p <=> (fd[p] = i /\ lpc[p] \in Locked)

\* A thread has a descriptor exactly from its open() to its close().
DescriptorOpen == \A p \in Proc :
                    fd[p] # NoInode <=> (lpc[p] = "wait" \/ lpc[p] \in Locked)

IInv == TypeOK /\ FlockOwned /\ DescriptorOpen /\ HolderOwnsPath

\* Two holders would each have flocked the one inode the path names.
LEMMA HoldersShareInode == IInv => MutualExclusion
<1> SUFFICES ASSUME IInv,
                    NEW p \in Proc, NEW q \in Proc, Holder(p), Holder(q)
             PROVE  p = q
  BY DEF MutualExclusion
<1>1. path = fd[p] /\ flock[fd[p]] = p
  BY DEF IInv, HolderOwnsPath
<1>2. path = fd[q] /\ flock[fd[q]] = q
  BY DEF IInv, HolderOwnsPath
<1> QED
  BY <1>1, <1>2

\* What close() leaves of the flocks: the others keep theirs.
LEMMA UnlockedFlocks ==
  ASSUME TypeOK, NEW p \in Proc
  PROVE  /\ Unlocked(p) \in [Inode -> Proc \union {NoProc}]
         /\ \A i \in Inode : Unlocked(p)[i] # p
         /\ \A i \in Inode, q \in Proc \ {p} :
              Unlocked(p)[i] = q <=> flock[i] = q
BY NullAssumption DEF TypeOK, Unlocked

\* The invariant holds before the first call.
LEMMA IInvInit == Init => IInv
BY NullAssumption, BoundAssumption
   DEF Init, IInv, TypeOK, Phase, Locked, FlockOwned, DescriptorOpen,
       HolderOwnsPath, Holder

\* Closing the descriptor, on whichever path of the code, keeps the invariant.
LEMMA IInvClose ==
  ASSUME IInv, NEW p \in Proc,
         lpc[p] # "held" \/ depth' = [depth EXCEPT ![p] = 0],
         flock' = Unlocked(p),
         fd' = [fd EXCEPT ![p] = NoInode],
         \E c \in {"out", "retry"} : lpc' = [lpc EXCEPT ![p] = c],
         UNCHANGED path, TypeOK'
  PROVE  IInv'
<1> USE NullAssumption DEF IInv
<1>1. PICK c \in {"out", "retry"} : lpc' = [lpc EXCEPT ![p] = c]
  OBVIOUS
<1>2. lpc'[p] = c /\ fd'[p] = NoInode
  BY <1>1 DEF TypeOK
<1>3. \A q \in Proc \ {p} : lpc'[q] = lpc[q] /\ fd'[q] = fd[q]
  BY <1>1 DEF TypeOK
<1>4. FlockOwned'
  BY <1>2, <1>3, UnlockedFlocks DEF FlockOwned, Locked, TypeOK
<1>5. DescriptorOpen'
  BY <1>2, <1>3 DEF DescriptorOpen, Locked
<1>6. HolderOwnsPath'
  <2> SUFFICES ASSUME NEW q \in Proc, Holder(q)'
               PROVE  path' = fd'[q] /\ flock'[fd'[q]] = q
    BY DEF HolderOwnsPath
  <2>1. q # p
    BY <1>2 DEF Holder
  <2>2. Holder(q) /\ fd'[q] = fd[q]
    BY <2>1, <1>3 DEF Holder
  <2>3. path = fd[q] /\ flock[fd[q]] = q
    BY <2>2 DEF HolderOwnsPath
  <2>4. fd[q] \in Inode
    BY <2>2 DEF DescriptorOpen, Holder, Locked, TypeOK
  <2> QED
    BY <2>1, <2>2, <2>3, <2>4, UnlockedFlocks
<1> QED
  BY <1>4, <1>5, <1>6

\* Every step keeps the types,
LEMMA TypeOKNext == IInv /\ [Next]_vars => TypeOK'
<1> SUFFICES ASSUME IInv, [Next]_vars PROVE TypeOK'
  OBVIOUS
<1> USE NullAssumption, BoundAssumption DEF IInv, TypeOK, Phase
<1>1. ASSUME NEW p \in Proc, Open(p) PROVE TypeOK'
  BY <1>1 DEF Open
<1>2. ASSUME NEW p \in Proc, Grant(p) PROVE TypeOK'
  BY <1>2 DEF Grant, DescriptorOpen
<1>3. ASSUME NEW p \in Proc, Confirm(p) PROVE TypeOK'
  BY <1>3 DEF Confirm
<1>4. ASSUME NEW p \in Proc, Orphaned(p) PROVE TypeOK'
  BY <1>4, UnlockedFlocks DEF Orphaned
<1>5. ASSUME NEW p \in Proc, AcquireFails(p) PROVE TypeOK'
  BY <1>5, UnlockedFlocks DEF AcquireFails
<1>6. ASSUME NEW p \in Proc, Reenter(p) PROVE TypeOK'
  BY <1>6 DEF Reenter
<1>7. ASSUME NEW p \in Proc, Leave(p) PROVE TypeOK'
  BY <1>7 DEF Leave
<1>8. ASSUME NEW p \in Proc, Unlink(p) PROVE TypeOK'
  BY <1>8 DEF Unlink
<1>9. ASSUME NEW p \in Proc, Close(p) PROVE TypeOK'
  BY <1>9, UnlockedFlocks DEF Close
<1>10. ASSUME NEW p \in Proc, Crash(p) PROVE TypeOK'
  BY <1>10, UnlockedFlocks DEF Crash
<1>11. CASE UNCHANGED vars
  BY <1>11 DEF vars
<1> QED
  BY <1>1, <1>2, <1>3, <1>4, <1>5, <1>6, <1>7, <1>8, <1>9, <1>10, <1>11
     DEF Next, Step, Fault, Finished

\* and the rest of the invariant.
LEMMA IInvNext == IInv /\ [Next]_vars => IInv'
<1> SUFFICES ASSUME IInv, [Next]_vars PROVE IInv'
  OBVIOUS
<1>0. TypeOK /\ TypeOK'
  BY TypeOKNext DEF IInv
<1>1. ASSUME NEW p \in Proc, Open(p) PROVE IInv'
  <2>1. fd[p] = NoInode /\ lpc[p] \notin Locked \union {"held"}
    BY <1>1 DEF Open, IInv, DescriptorOpen, Locked
  <2>2. lpc'[p] = "wait" /\ fd'[p] \in Inode
    BY <1>1, <1>0 DEF Open, TypeOK
  <2>3. \A q \in Proc \ {p} : lpc'[q] = lpc[q] /\ fd'[q] = fd[q]
    BY <1>1, <1>0 DEF Open, TypeOK
  <2>4. flock' = flock
    BY <1>1 DEF Open
  <2>5. FlockOwned'
    BY <2>1, <2>2, <2>3, <2>4, NullAssumption DEF IInv, FlockOwned, Locked
  <2>6. DescriptorOpen'
    BY <2>2, <2>3, NullAssumption DEF IInv, DescriptorOpen
  <2>7. HolderOwnsPath'
    \* A holder's path exists, so open() names it again.
    <3> SUFFICES ASSUME NEW q \in Proc, Holder(q)'
                 PROVE  path' = fd'[q] /\ flock'[fd'[q]] = q
      BY DEF HolderOwnsPath
    <3>1. q # p /\ Holder(q) /\ fd'[q] = fd[q]
      BY <2>2, <2>3 DEF Holder
    <3>2. path = fd[q] /\ flock[fd[q]] = q /\ path # NoInode
      BY <3>1 DEF IInv, HolderOwnsPath, DescriptorOpen, Holder, Locked
    <3>3. path' = path
      BY <1>1, <3>2 DEF Open
    <3> QED
      BY <3>1, <3>2, <3>3, <2>4
  <2> QED
    BY <1>0, <2>5, <2>6, <2>7 DEF IInv
<1>2. ASSUME NEW p \in Proc, Grant(p) PROVE IInv'
  <2>1. fd[p] \in Inode /\ lpc[p] = "wait" /\ flock[fd[p]] = NoProc
    BY <1>2, <1>0 DEF Grant, IInv, DescriptorOpen, TypeOK
  <2>2. lpc'[p] = "check" /\ flock'[fd[p]] = p
    BY <1>2, <1>0, <2>1 DEF Grant, TypeOK
  <2>3. \A q \in Proc \ {p} : lpc'[q] = lpc[q]
    BY <1>2, <1>0 DEF Grant, TypeOK
  <2>4. \A i \in Inode \ {fd[p]} : flock'[i] = flock[i]
    BY <1>2, <1>0 DEF Grant, TypeOK
  <2>5. fd' = fd /\ path' = path
    BY <1>2 DEF Grant
  <2>6. FlockOwned'
    BY <2>1, <2>2, <2>3, <2>4, <2>5, NullAssumption
       DEF IInv, FlockOwned, Locked
  <2>7. DescriptorOpen'
    BY <2>1, <2>2, <2>3, <2>5 DEF IInv, DescriptorOpen, Locked
  <2>8. HolderOwnsPath'
    <3> SUFFICES ASSUME NEW q \in Proc, Holder(q)'
                 PROVE  path' = fd'[q] /\ flock'[fd'[q]] = q
      BY DEF HolderOwnsPath
    <3>1. q # p /\ Holder(q)
      BY <2>2, <2>3 DEF Holder
    <3>2. path = fd[q] /\ flock[fd[q]] = q
      BY <3>1 DEF IInv, HolderOwnsPath
    <3>3. fd[q] \in Inode \ {fd[p]}
      BY <3>1, <3>2, <2>1, <1>0, NullAssumption
         DEF IInv, DescriptorOpen, Holder, Locked, TypeOK
    <3> QED
      BY <3>2, <3>3, <2>4, <2>5
  <2> QED
    BY <1>0, <2>6, <2>7, <2>8 DEF IInv
<1>3. ASSUME NEW p \in Proc, Confirm(p) PROVE IInv'
  <2>1. lpc[p] = "check" /\ path = fd[p] /\ flock[fd[p]] = p
    BY <1>3, <1>0 DEF Confirm, IInv, FlockOwned, DescriptorOpen, Locked, TypeOK
  <2>2. lpc'[p] = "held" /\ \A q \in Proc \ {p} : lpc'[q] = lpc[q]
    BY <1>3, <1>0 DEF Confirm, TypeOK
  <2>3. UNCHANGED <<path, fd, flock>>
    BY <1>3 DEF Confirm
  <2>4. FlockOwned' /\ DescriptorOpen'
    BY <2>1, <2>2, <2>3 DEF IInv, FlockOwned, DescriptorOpen, Locked
  <2>5. HolderOwnsPath'
    BY <2>1, <2>2, <2>3 DEF IInv, HolderOwnsPath, Holder
  <2> QED
    BY <1>0, <2>4, <2>5 DEF IInv
<1>4. ASSUME NEW p \in Proc, Orphaned(p) PROVE IInv'
  BY <1>4, <1>0, IInvClose DEF Orphaned
<1>5. ASSUME NEW p \in Proc, AcquireFails(p) PROVE IInv'
  BY <1>5, <1>0, IInvClose DEF AcquireFails, Trying
<1>6. ASSUME NEW p \in Proc, Reenter(p) \/ Leave(p) PROVE IInv'
  BY <1>6, <1>0
     DEF Reenter, Leave, IInv, FlockOwned, DescriptorOpen, HolderOwnsPath, Holder
<1>8. ASSUME NEW p \in Proc, Unlink(p) PROVE IInv'
  <2>1. \A q \in Proc : Holder(q) => q = p
    BY <1>8, HoldersShareInode DEF Unlink, Holder, MutualExclusion
  <2>2. lpc'[p] = "drop" /\ \A q \in Proc \ {p} : lpc'[q] = lpc[q]
    BY <1>8, <1>0 DEF Unlink, TypeOK
  <2>3. lpc[p] = "held" /\ UNCHANGED <<fd, flock>>
    BY <1>8 DEF Unlink
  <2>4. FlockOwned' /\ DescriptorOpen'
    BY <2>2, <2>3 DEF IInv, FlockOwned, DescriptorOpen, Locked
  <2>5. HolderOwnsPath'
    BY <2>1, <2>2 DEF HolderOwnsPath, Holder
  <2> QED
    BY <1>0, <2>4, <2>5 DEF IInv
<1>9. ASSUME NEW p \in Proc, Close(p) PROVE IInv'
  BY <1>9, <1>0, IInvClose DEF Close
<1>10. ASSUME NEW p \in Proc, Crash(p) PROVE IInv'
  BY <1>10, <1>0, IInvClose DEF Crash
<1>11. CASE UNCHANGED vars
  BY <1>11, <1>0
     DEF vars, IInv, FlockOwned, DescriptorOpen, HolderOwnsPath, Holder
<1> QED
  BY <1>1, <1>2, <1>3, <1>4, <1>5, <1>6, <1>8, <1>9, <1>10, <1>11
     DEF Next, Step, Fault, Finished

\* Every reachable state satisfies the inductive invariant.
THEOREM Invariance == Spec => []IInv
BY IInvInit, IInvNext, PTL DEF Spec

\* The lock's variables keep their types.
THEOREM TypeCorrect == Spec => []TypeOK
<1>1. IInv => TypeOK
  BY DEF IInv
<1> QED
  BY <1>1, Invariance, PTL

\* No two threads are ever inside one install id's block at once.
THEOREM MutualExclusionHolds == Spec => []MutualExclusion
BY HoldersShareInode, Invariance, PTL

\* The path a holder will unlink names the inode it has flocked.
THEOREM HolderOwnsPathHolds == Spec => []HolderOwnsPath
<1>1. IInv => HolderOwnsPath
  BY DEF IInv
<1> QED
  BY <1>1, Invariance, PTL
-----------------------------------------------------------------------------
(* What the lock leaves behind, and whom it makes wait.                    *)

\* Without a fault, the lock file that is there is some thread's that will unlink
\* it, or find it unlinked.
PathKept ==
  faults = 0 /\ calls > 0 /\ path # NoInode =>
    \E p \in Proc : fd[p] = path /\ lpc[p] \in {"wait", "check", "held"}

\* Nobody else's step takes it away; the thread's own unlink empties the path.
LEMMA PathKeptNext == IInv /\ PathKept /\ [Next]_vars => PathKept'
<1> SUFFICES ASSUME IInv, PathKept, [Next]_vars,
                    faults' = 0, calls' > 0, path' # NoInode
             PROVE  \E q \in Proc : fd'[q] = path' /\ lpc'[q] \in {"wait", "check", "held"}
  BY DEF PathKept
<1>0. TypeOK /\ faults \in Nat /\ calls \in Nat
  BY BoundAssumption DEF IInv, TypeOK
<1>1. ASSUME NEW p \in Proc, Open(p)
      PROVE  fd'[p] = path' /\ lpc'[p] = "wait"
  BY <1>1, <1>0 DEF Open, TypeOK
<1>2. ASSUME NEW p \in Proc, faults = 0, calls > 0, path' = path,
             fd' = fd \/ fd' = [fd EXCEPT ![p] = NoInode],
             \/ fd[p] # path
             \/ lpc[p] \notin {"wait", "check", "held"}
             \/ fd' = fd /\ lpc'[p] \in {"wait", "check", "held"},
             \A q \in Proc \ {p} : lpc'[q] = lpc[q]
      PROVE  \E q \in Proc : fd'[q] = path' /\ lpc'[q] \in {"wait", "check", "held"}
  <2>1. PICK q \in Proc : fd[q] = path /\ lpc[q] \in {"wait", "check", "held"}
    BY <1>2 DEF PathKept
  <2>2. CASE q = p
    BY <1>2, <2>1, <2>2
  <2>3. CASE q # p
    BY <1>2, <1>0, <2>1, <2>3 DEF TypeOK
  <2> QED
    BY <2>2, <2>3
<1>3. ASSUME NEW p \in Proc, Grant(p) \/ Confirm(p) \/ Orphaned(p) \/ Close(p)
      PROVE  \E q \in Proc : fd'[q] = path' /\ lpc'[q] \in {"wait", "check", "held"}
  <2>1. faults = 0 /\ calls > 0 /\ path' = path
    BY <1>3, <1>0 DEF Grant, Confirm, Orphaned, Close
  <2>2. \A q \in Proc \ {p} : lpc'[q] = lpc[q]
    BY <1>3, <1>0 DEF Grant, Confirm, Orphaned, Close, TypeOK
  <2>3. CASE Grant(p) \/ Confirm(p)
    <3>1. fd' = fd /\ lpc'[p] \in {"check", "held"}
      BY <2>3, <1>0 DEF Grant, Confirm, TypeOK
    <3> QED
      BY <1>2, <2>1, <2>2, <3>1
  <2>4. CASE Orphaned(p) \/ Close(p)
    <3>1. /\ fd' = [fd EXCEPT ![p] = NoInode]
          /\ fd[p] # path \/ lpc[p] \notin {"wait", "check", "held"}
      BY <2>4 DEF Orphaned, Close
    <3> QED
      BY <1>2, <2>1, <2>2, <3>1
  <2> QED
    BY <1>3, <2>3, <2>4
<1>4. ASSUME NEW p \in Proc, Reenter(p) \/ Leave(p)
      PROVE  \E q \in Proc : fd'[q] = path' /\ lpc'[q] \in {"wait", "check", "held"}
  BY <1>4 DEF Reenter, Leave, PathKept
<1>5. ASSUME NEW p \in Proc, Unlink(p) \/ AcquireFails(p) \/ Crash(p)
      PROVE  FALSE
  BY <1>5, <1>0 DEF Unlink, AcquireFails, Crash
<1>6. CASE UNCHANGED vars
  BY <1>6 DEF vars, PathKept
<1> QED
  BY <1>1, <1>3, <1>4, <1>5, <1>6 DEF Next, Step, Fault, Finished

\* When all calls have ended without a fault, the lock file is gone, whichever of
\* them opened it, waited on its orphan or made it anew.
THEOREM NoResidueHolds == Spec => []NoResidue
<1>1. Init => PathKept
  BY DEF Init, PathKept
<1>2. PathKept => NoResidue
  BY DEF PathKept, NoResidue
<1> QED
  BY <1>1, <1>2, PathKeptNext, Invariance, PTL DEF Spec

\* Who is kept in flock() is kept by a thread that is past it and runs on to its
\* close(): nobody waits for a waiter, and an orphan is locked by no dead thread.
WaitsForRunner ==
  \A p \in Proc : lpc[p] = "wait" /\ flock[fd[p]] # NoProc =>
    /\ flock[fd[p]] \in Proc \ {p}
    /\ lpc[flock[fd[p]]] \in Locked

\* Waiting in _acquire_install_lock is never circular.
THEOREM WaitsForRunnerHolds == Spec => []WaitsForRunner
<1>1. IInv => WaitsForRunner
  BY NullAssumption DEF IInv, TypeOK, FlockOwned, DescriptorOpen, WaitsForRunner, Locked
<1> QED
  BY <1>1, Invariance, PTL
-----------------------------------------------------------------------------
(* The refinement: every step of the lock is a step of Mutex or a stutter. *)

\* HolderNow, as a function of the phases alone.
TheHolder(f) == IF \E p \in Proc : f[p] = "held"
                THEN CHOOSE p \in Proc : f[p] = "held"
                ELSE NoProc

\* The abstract holder is a function of the program counters,
LEMMA HolderNowIs == HolderNow = TheHolder(lpc)
BY DEF HolderNow, TheHolder, Holder

\* also in the next state.
LEMMA HolderNowIsPrime == HolderNow' = TheHolder(lpc')
BY DEF HolderNow, TheHolder, Holder

\* The one thread whose phase is "held" is the holder.
LEMMA OneHolder ==
  ASSUME NEW f, NEW p \in Proc, f[p] = "held",
         \A q \in Proc : f[q] = "held" => q = p
  PROVE  TheHolder(f) = p
BY DEF TheHolder

\* Without a thread inside, nobody holds the mutex.
LEMMA NobodyHolds ==
  ASSUME NEW f, \A q \in Proc : f[q] # "held"
  PROVE  TheHolder(f) = NoProc
BY DEF TheHolder

\* Phases that agree on who holds have the same holder.
LEMMA SameHolder ==
  ASSUME NEW f, NEW g,
         \A q \in Proc : f[q] = "held" <=> g[q] = "held",
         \A p, q \in Proc : f[p] = "held" /\ f[q] = "held" => p = q
  PROVE  TheHolder(f) = TheHolder(g)
<1>1. CASE \A q \in Proc : f[q] # "held"
  BY <1>1, NobodyHolds
<1>2. ASSUME NEW p \in Proc, f[p] = "held" PROVE TheHolder(f) = TheHolder(g)
  BY <1>2, OneHolder
<1> QED
  BY <1>1, <1>2

\* The mutex is free before the first call,
LEMMA RefineInit == Init => Abstract!Init
BY NobodyHolds, HolderNowIs DEF Init, Abstract!Init

\* and each step of the file lock acquires it, releases it or leaves it alone.
LEMMA RefineNext ==
  IInv /\ IInv' /\ [Next]_vars => [Abstract!Next]_HolderNow
<1> SUFFICES ASSUME IInv, IInv', [Next]_vars
             PROVE  \/ HolderNow' = HolderNow
                    \/ \E p \in Proc : Abstract!Acquire(p) \/ Abstract!Release(p)
  BY DEF Abstract!Next
<1>0. TypeOK /\ MutualExclusion /\ \A p, q \in Proc :
                  lpc[p] = "held" /\ lpc[q] = "held" => p = q
  BY HoldersShareInode DEF IInv, MutualExclusion, Holder
<1>1. ASSUME NEW p \in Proc, lpc[p] # "held",
             \E c \in Phase \ {"held"} : lpc' = [lpc EXCEPT ![p] = c]
      PROVE  HolderNow' = HolderNow
  <2>1. \A q \in Proc : lpc[q] = "held" <=> lpc'[q] = "held"
    BY <1>1, <1>0 DEF TypeOK
  <2> QED
    BY <2>1, <1>0, SameHolder, HolderNowIs, HolderNowIsPrime
<1>2. ASSUME UNCHANGED lpc PROVE HolderNow' = HolderNow
  BY <1>2, HolderNowIs, HolderNowIsPrime
<1>3. ASSUME NEW p \in Proc, lpc[p] = "held",
             \E c \in Phase \ {"held"} : lpc' = [lpc EXCEPT ![p] = c]
      PROVE  Abstract!Release(p)
  <2>1. HolderNow = p
    BY <1>3, <1>0, OneHolder, HolderNowIs
  <2>2. \A q \in Proc : lpc'[q] # "held"
    BY <1>3, <1>0 DEF TypeOK
  <2> QED
    BY <2>1, <2>2, NobodyHolds, HolderNowIsPrime DEF Abstract!Release
<1>4. ASSUME NEW p \in Proc, Confirm(p) PROVE Abstract!Acquire(p)
  <2>1. flock[fd[p]] = p /\ path = fd[p]
    BY <1>4, <1>0
       DEF Confirm, IInv, FlockOwned, DescriptorOpen, Locked, TypeOK
  <2>2. \A q \in Proc : lpc[q] # "held"
    BY <2>1, <1>4 DEF Confirm, IInv, HolderOwnsPath, Holder
  <2>3. lpc'[p] = "held" /\ \A q \in Proc \ {p} : lpc'[q] = lpc[q]
    BY <1>4, <1>0 DEF Confirm, TypeOK
  <2>4. HolderNow = NoProc
    BY <2>2, NobodyHolds, HolderNowIs
  <2>5. HolderNow' = p
    BY <2>2, <2>3, OneHolder, HolderNowIsPrime
  <2> QED
    BY <2>4, <2>5 DEF Abstract!Acquire
<1>5. ASSUME NEW p \in Proc,
             Open(p) \/ Grant(p) \/ Orphaned(p) \/ AcquireFails(p) \/ Close(p)
      PROVE  HolderNow' = HolderNow
  BY <1>5, <1>1
     DEF Open, Grant, Orphaned, AcquireFails, Close, Trying, Phase
<1>6. ASSUME NEW p \in Proc, Reenter(p) \/ Leave(p)
      PROVE  HolderNow' = HolderNow
  BY <1>6, <1>2 DEF Reenter, Leave
<1>7. ASSUME NEW p \in Proc, Unlink(p) PROVE Abstract!Release(p)
  BY <1>7, <1>3 DEF Unlink, Phase
<1>8. ASSUME NEW p \in Proc, Crash(p)
      PROVE  HolderNow' = HolderNow \/ Abstract!Release(p)
  <2>1. CASE lpc[p] = "held"
    BY <2>1, <1>8, <1>3 DEF Crash, Phase
  <2>2. CASE lpc[p] # "held"
    BY <2>2, <1>8, <1>1 DEF Crash, Phase
  <2> QED
    BY <2>1, <2>2
<1>9. CASE UNCHANGED vars
  BY <1>9, <1>2 DEF vars
<1> QED
  BY <1>4, <1>5, <1>6, <1>7, <1>8, <1>9 DEF Next, Step, Fault, Finished

\* The file lock implements the abstract mutual exclusion.
THEOREM Refinement == Spec => ImplementsMutex
BY RefineInit, RefineNext, Invariance, PTL
   DEF Spec, ImplementsMutex, Abstract!Spec
=============================================================================
