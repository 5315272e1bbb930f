------------------------- MODULE ReceiptStoreProofs -------------------------
(***************************************************************************)
(* That a receipt write() returned is durable, that readers and power      *)
(* losses see whole receipts only, and that writers do not disturb each    *)
(* other, for any threads, receipts, and numbers of writes and faults.     *)
(*                                                                         *)
(* The invariant says what the writer under the lock has done so far: the  *)
(* other temporaries are gone, and its own is as far as its phase.         *)
(***************************************************************************)
EXTENDS ReceiptStore, TLAPS

Busy(p) == pc[p] \notin {"out", "lock"}

\* The flock is held by the one thread that is under way.
LockOwned == \A p \in Proc : Busy(p) <=> lock = p

\* Nothing a power loss may leave was published before it was synced.
DiskWhole == /\ dest \in disk
             /\ \A f \in disk : f.data \in {"absent", "torn", "synced"}

Swept == \A q \in Proc : tmp[q] = NoFile
OnlyTmp(p, d) == /\ tmp[p] = [of |-> want[p], data |-> d]
                 /\ \A q \in Proc \ {p} : tmp[q] = NoFile
Published(p) == dest = [of |-> want[p], data |-> "synced"]

\* How far the temporary, the name and the disk are in each phase.
Stages == \A p \in Proc :
  /\ pc[p] = "create" => Swept
  /\ pc[p] = "write" => OnlyTmp(p, "empty")
  /\ pc[p] = "fsync" => OnlyTmp(p, "written")
  /\ pc[p] = "replace" => OnlyTmp(p, "synced")
  /\ pc[p] = "dirsync" => Swept /\ Published(p)
  /\ pc[p] = "unlock" /\ result[p] = "written"
       => Swept /\ Published(p) /\ disk = {dest}

IInv == TypeOK /\ LockOwned /\ DiskWhole /\ Stages /\ ErrorsAreFaults

\* The files the steps make are files.
LEMMA Files ==
  /\ NoFile \in File
  /\ \A r \in Receipt : [of |-> r, data |-> "empty"] \in File
  /\ \A f \in File : /\ [f EXCEPT !.data = "written"] \in File
                     /\ Kept(f) \in File
                     /\ AfterLoss(f) \subseteq File
BY DEF File, NoFile, Kept, Torn, AfterLoss

\* The invariant holds before the first write,
LEMMA IInvInit == Init => IInv
<1> SUFFICES ASSUME Init PROVE IInv
  OBVIOUS
<1> USE DEF Init
<1>1. TypeOK
  BY BoundAssumption DEF TypeOK, File, NoFile, Phase
<1>2. LockOwned
  BY NullAssumption DEF LockOwned, Busy
<1>3. DiskWhole
  BY DEF DiskWhole, NoFile
<1>4. Stages /\ ErrorsAreFaults
  BY DEF Stages, ErrorsAreFaults
<1> QED
  BY <1>1, <1>2, <1>3, <1>4 DEF IInv

\* Every step keeps the types.
LEMMA TypeOKNext == TypeOK /\ [Next]_vars => TypeOK'
<1> SUFFICES ASSUME TypeOK, [Next]_vars PROVE TypeOK'
  OBVIOUS
<1> USE Files, BoundAssumption
    DEF TypeOK, Phase, files, Goto, Step, Raise, Fault, FailsFor
<1>1. ASSUME NEW p \in Proc, Begin(p) PROVE TypeOK'
  BY <1>1 DEF Begin
<1>2. ASSUME NEW p \in Proc, Acquire(p) PROVE TypeOK'
  BY <1>2 DEF Acquire
<1>3. ASSUME NEW p \in Proc, Sweep(p) PROVE TypeOK'
  BY <1>3 DEF Sweep
<1>4. ASSUME NEW p \in Proc, Create(p) PROVE TypeOK'
  BY <1>4 DEF Create
<1>5. ASSUME NEW p \in Proc, Write(p) PROVE TypeOK'
  BY <1>5 DEF Write
<1>6. ASSUME NEW p \in Proc, Fsync(p) PROVE TypeOK'
  <2>1. Kept(tmp[p]) \in File
    OBVIOUS
  <2>2. tmp' \in [Proc -> File]
    BY <1>6, <2>1 DEF Fsync
  <2> QED
    BY <1>6, <2>2 DEF Fsync
<1>7. ASSUME NEW p \in Proc, Replace(p) PROVE TypeOK'
  BY <1>7 DEF Replace
<1>8. ASSUME NEW p \in Proc, SyncDirectory(p) PROVE TypeOK'
  BY <1>8 DEF SyncDirectory
<1>9. ASSUME NEW p \in Proc, Unlock(p) PROVE TypeOK'
  BY <1>9 DEF Unlock
<1>10. ASSUME NEW p \in Proc, Crash(p) PROVE TypeOK'
  BY <1>10 DEF Crash
<1>11. CASE PowerLoss
  <2>1. dest' \in File /\ disk' = {dest'}
    BY <1>11 DEF PowerLoss
  <2>2. tmp' \in [Proc -> File] /\ lock' = NoProc /\ UNCHANGED <<want, writes>>
    BY <1>11 DEF PowerLoss
  <2>3. pc' \in [Proc -> Phase] /\ result' \in [Proc -> {"none", "written", "error"}]
    BY <1>11 DEF PowerLoss
  <2>4. faults' \in 0..MaxFaults
    BY <1>11 DEF PowerLoss
  <2> QED
    BY <2>1, <2>2, <2>3, <2>4
<1>12. CASE Finished
  BY <1>12 DEF Finished, vars
<1>13. CASE UNCHANGED vars
  BY <1>13 DEF vars
<1> QED
  BY <1>1, <1>2, <1>3, <1>4, <1>5, <1>6, <1>7, <1>8, <1>9, <1>10, <1>11,
     <1>12, <1>13 DEF Next, Continue

\* and every step preserves it.
LEMMA IInvNext == IInv /\ [Next]_vars => IInv'
<1> SUFFICES ASSUME IInv, [Next]_vars PROVE IInv'
  OBVIOUS
<1>0. TypeOK'
  BY TypeOKNext DEF IInv
<1> USE <1>0, NullAssumption, BoundAssumption
    DEF IInv, LockOwned, Busy, DiskWhole, Stages, Swept, OnlyTmp, Published,
        ErrorsAreFaults, files, Goto, Step, Raise, Fault, FailsFor
<1>1. ASSUME NEW p \in Proc, Begin(p) PROVE IInv'
  BY <1>1 DEF Begin, TypeOK
<1>2. ASSUME NEW p \in Proc, Acquire(p) PROVE IInv'
  BY <1>2 DEF Acquire, TypeOK
<1>3. ASSUME NEW p \in Proc, Sweep(p) PROVE IInv'
  BY <1>3 DEF Sweep, TypeOK
<1>4. ASSUME NEW p \in Proc, Create(p) PROVE IInv'
  BY <1>4 DEF Create, TypeOK
<1>5. ASSUME NEW p \in Proc, Write(p) PROVE IInv'
  BY <1>5 DEF Write, TypeOK
<1>6. ASSUME NEW p \in Proc, Fsync(p) PROVE IInv'
  BY <1>6 DEF Fsync, Kept, TypeOK
<1>7. ASSUME NEW p \in Proc, Replace(p) PROVE IInv'
  BY <1>7 DEF Replace, NoFile, TypeOK
<1>8. ASSUME NEW p \in Proc, SyncDirectory(p) PROVE IInv'
  BY <1>8 DEF SyncDirectory, TypeOK
<1>9. ASSUME NEW p \in Proc, Unlock(p) PROVE IInv'
  BY <1>9 DEF Unlock, TypeOK
<1>10. ASSUME NEW p \in Proc, Crash(p) PROVE IInv'
  BY <1>10 DEF Crash, TypeOK
<1>11. CASE PowerLoss
  BY <1>11 DEF PowerLoss, AfterLoss, TypeOK
<1>12. CASE Finished
  BY <1>12 DEF Finished, vars
<1>13. CASE UNCHANGED vars
  BY <1>13 DEF vars
<1> QED
  BY <1>1, <1>2, <1>3, <1>4, <1>5, <1>6, <1>7, <1>8, <1>9, <1>10, <1>11,
     <1>12, <1>13 DEF Next, Continue

\* The invariant holds throughout.
THEOREM Invariance == Spec => []IInv
BY IInvInit, IInvNext, PTL DEF Spec

\* The variables of the receipt store keep their types.
THEOREM TypeCorrect == Spec => []TypeOK
<1>1. IInv => TypeOK
  BY DEF IInv
<1> QED
  BY <1>1, Invariance, PTL

\* A write that returned left no temporary behind, whoever died before it.
THEOREM LeftoversSweptHolds == Spec => []LeftoversSwept
<1>1. IInv => LeftoversSwept
  BY DEF IInv, Stages, Swept, LeftoversSwept
<1> QED
  BY Invariance, <1>1, PTL

\* Without a fault no write fails: writers do not disturb each other.
THEOREM ErrorsAreFaultsHolds == Spec => []ErrorsAreFaults
<1>1. IInv => ErrorsAreFaults
  BY DEF IInv
<1> QED
  BY Invariance, <1>1, PTL

\* When write() returns, a power loss can bring back nothing but its receipt.
THEOREM ReturnedIsDurableHolds == Spec => ReturnedIsDurable
<1>1. ASSUME IInv, [Next]_vars, NEW p \in Proc,
             pc[p] = "unlock", pc'[p] = "out", result'[p] = "written"
      PROVE  \A f \in disk : AfterLoss(f) = {[of |-> want[p], data |-> "synced"]}
  <2>1. result[p] = "written"
    BY <1>1 DEF Next, Continue, Begin, Acquire, Sweep, Create, Write, Fsync,
                Replace, SyncDirectory, Unlock, Crash, PowerLoss, Finished, vars,
                Step, Goto, Raise, IInv, TypeOK
  <2>2. disk = {[of |-> want[p], data |-> "synced"]}
    BY <1>1, <2>1 DEF IInv, Stages, Published
  <2> QED
    BY <2>2 DEF AfterLoss
<1>2. IInv /\ [Next]_vars
        => \A p \in Proc : pc[p] = "unlock" /\ pc'[p] = "out" /\ result'[p] = "written"
             => \A f \in disk : AfterLoss(f) = {[of |-> want[p], data |-> "synced"]}
  BY <1>1
<1> QED
  BY Invariance, <1>2, PTL DEF Spec, ReturnedIsDurable
-----------------------------------------------------------------------------
(* The refinement: a rename puts, the directory's sync settles, a power    *)
(* loss loses, and no other step is seen.                                  *)

Safe == {ReceiptIn(f) : f \in disk}

\* The register holds the receipt that is there in the beginning.
LEMMA RegisterInit == Init => Register!Init
BY DEF Init, Register!Init, ReceiptIn, NoFile

\* Replace publishes a synced receipt.
LEMMA ReplacePuts ==
  ASSUME IInv, NEW p \in Proc, Replace(p)
  PROVE  \/ \E r \in Receipt : Register!Put(r)
         \/ UNCHANGED <<ReceiptIn(dest), Safe>>
<1>1. CASE UNCHANGED files
  BY <1>1 DEF files, Safe
<1>2. CASE dest' = tmp[p] /\ disk' = disk \union {tmp[p]}
  <2>1. tmp[p] = [of |-> want[p], data |-> "synced"] /\ want[p] \in Receipt
    BY DEF Replace, IInv, Stages, OnlyTmp, TypeOK
  <2>2. ReceiptIn(tmp[p]) = want[p]
    BY <2>1 DEF ReceiptIn
  <2>3. Safe' = Safe \union {ReceiptIn(tmp[p])}
    BY <1>2 DEF Safe
  <2> QED
    BY <1>2, <2>1, <2>2, <2>3 DEF Register!Put, Safe
<1> QED
  BY <1>1, <1>2 DEF Replace

\* What is lost was published, and all that was published was synced.
LEMMA PowerLossLoses == IInv /\ PowerLoss => Register!Lose
<1> SUFFICES ASSUME IInv, PowerLoss PROVE Register!Lose
  OBVIOUS
<1>1. PICK f \in disk : dest' \in AfterLoss(f)
  BY DEF PowerLoss
<1>2. f.data \in {"absent", "torn", "synced"}
  BY DEF IInv, DiskWhole
<1>3. dest' = f
  BY <1>1, <1>2 DEF AfterLoss
<1>4. disk' = {dest'}
  BY DEF PowerLoss
<1> QED
  BY <1>3, <1>4 DEF Register!Lose

\* Each step of the store is a step of the register: a write, a sync, a power
\* loss, or none.
LEMMA RegisterNext ==
  IInv /\ [Next]_vars => [Register!Next]_<<ReceiptIn(dest), Safe>>
<1> SUFFICES ASSUME IInv, [Next]_vars
             PROVE  Register!Next \/ UNCHANGED <<ReceiptIn(dest), Safe>>
  OBVIOUS
<1>1. CASE UNCHANGED <<dest, disk>>
  BY <1>1 DEF Safe
<1>2. ASSUME NEW p \in Proc, Replace(p)
      PROVE  Register!Next \/ UNCHANGED <<ReceiptIn(dest), Safe>>
  BY <1>2, ReplacePuts DEF Register!Next
<1>3. ASSUME NEW p \in Proc, SyncDirectory(p), disk' = {dest}, dest' = dest
      PROVE  Register!Next
  BY <1>3 DEF Register!Next, Register!Settle
<1>4. CASE PowerLoss
  BY <1>4, PowerLossLoses DEF Register!Next
<1> QED
  BY <1>1, <1>2, <1>3, <1>4
     DEF Next, Continue, Begin, Acquire, Sweep, Create, Write, Fsync,
         SyncDirectory, Unlock, Crash, Finished, vars, files, Step, Goto, Raise

\* The store implements the register: readers and power losses find the old
\* receipt or the new one, whole.
THEOREM Refinement == Spec => ImplementsRegister
<1>1. IInv /\ [Next]_vars
        => [Register!Next]_<<ReceiptIn(dest), {ReceiptIn(f) : f \in disk}>>
  BY RegisterNext DEF Safe
<1> QED
  BY RegisterInit, Invariance, <1>1, PTL DEF Spec, ImplementsRegister, Register!Spec
=============================================================================
