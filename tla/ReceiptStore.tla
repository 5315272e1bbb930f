---------------------------- MODULE ReceiptStore ----------------------------
(***************************************************************************)
(* ReceiptStore.write of kilix_license/store.py for one record and         *)
(* manifest: under a lock file that is never unlinked, the temporaries of  *)
(* earlier writes are swept, the receipt is written to one of its own,     *)
(* synced, and renamed onto its name, and the directory is synced.         *)
(*                                                                         *)
(* dest is what the running system has under the name, disk what a power   *)
(* loss may leave there: until the directory is synced, any version the    *)
(* name has had.  A file's data survives a power loss once it is synced.   *)
(***************************************************************************)
EXTENDS Naturals

CONSTANTS Proc,       \* threads, of any number of processes, that write
          NoProc,     \* "no thread"
          Receipt,    \* receipts they write for the record and manifest
          NoReceipt,  \* "no receipt"
          MaxWrites,  \* bound: calls of write()
          MaxFaults   \* bound: failed system calls, killed processes, power losses

ASSUME NullAssumption  == NoProc \notin Proc /\ NoReceipt \notin Receipt
ASSUME BoundAssumption == {MaxWrites, MaxFaults} \subseteq Nat

VARIABLES lock,     \* the thread that holds the flock of .store.lock
          dest,     \* the file under the receipt's name
          disk,     \* the versions a power loss may leave under it
          tmp,      \* [Proc -> its temporary file, or the one it left]
          want,     \* [Proc -> the receipt it writes]
          pc,       \* [Proc -> where write() is]
          result,   \* [Proc -> what its last write() came to, or will]
          writes, faults

files == <<dest, disk, tmp>>
vars == <<lock, files, want, pc, result, writes, faults>>

\* A file: the receipt it is for and what of it is there.  A torn one cannot be
\* read as a receipt.
File == [of : Receipt \union {NoReceipt},
         data : {"absent", "empty", "torn", "written", "synced"}]
NoFile == [of |-> NoReceipt, data |-> "absent"]
Torn(f) == [f EXCEPT !.data = "torn"]
Kept(f) == [f EXCEPT !.data = "synced"]

\* What a power loss makes of a file.
AfterLoss(f) == CASE f.data = "written" -> {Torn(f), Kept(f)}
                  [] f.data = "empty"   -> {f, Torn(f)}
                  [] OTHER              -> {f}

Phase == {"out", "lock", "sweep", "create", "write", "fsync", "replace",
          "dirsync", "unlock"}

TypeOK == /\ lock \in Proc \union {NoProc}
          /\ dest \in File
          /\ disk \subseteq File
          /\ tmp \in [Proc -> File]
          /\ want \in [Proc -> Receipt]
          /\ pc \in [Proc -> Phase]
          /\ result \in [Proc -> {"none", "written", "error"}]
          /\ writes \in 0..MaxWrites
          /\ faults \in 0..MaxFaults

\* Nothing yet, a receipt, or a file that half a backup or another program left.
Init == /\ lock = NoProc
        /\ \/ dest = NoFile
           \/ \E r \in Receipt, d \in {"torn", "synced"} : dest = [of |-> r, data |-> d]
        /\ disk = {dest}
        /\ tmp = [p \in Proc |-> NoFile]
        /\ want \in [Proc -> Receipt]
        /\ pc = [p \in Proc |-> "out"]
        /\ result = [p \in Proc |-> "none"]
        /\ writes = 0
        /\ faults = 0
-----------------------------------------------------------------------------
Goto(p, c) == pc' = [pc EXCEPT ![p] = c]
Step(p, from, to) == pc[p] = from /\ Goto(p, to) /\ UNCHANGED result
Raise(p, c) == Goto(p, c) /\ result' = [result EXCEPT ![p] = "error"]

\* A system call fails for a reason the model has, or by a fault.
FailsFor(reason) == /\ reason \/ faults < MaxFaults
                    /\ faults' = IF reason THEN faults ELSE faults + 1
Fault == FailsFor(FALSE)

Begin(p) ==
  /\ pc[p] = "out"
  /\ writes < MaxWrites
  /\ writes' = writes + 1
  /\ \E r \in Receipt : want' = [want EXCEPT ![p] = r]
  /\ Goto(p, "lock")
  /\ result' = [result EXCEPT ![p] = "none"]
  /\ UNCHANGED <<lock, files, faults>>

\* Mutant: the lock is asked for without being waited for.
MutAcquireUnchecked(p) ==
  /\ Step(p, "lock", "sweep")
  /\ lock' = p
  /\ UNCHANGED <<files, want, writes, faults>>

\* Mutant: the lock is kept for a receipt, not for a thread.
MutAcquireForReceipt(p) ==
  /\ Step(p, "lock", "sweep")
  /\ lock = NoProc /\ lock' = want[p]
  /\ UNCHANGED <<files, want, writes, faults>>

\* flock(LOCK_EX) on a file nobody unlinks; or opening or locking it fails.
Acquire(p) ==
  /\ pc[p] = "lock"
  /\ \/ /\ lock = NoProc /\ lock' = p
        /\ Goto(p, "sweep") /\ UNCHANGED <<result, faults>>
     \/ Fault /\ Raise(p, "out") /\ UNCHANGED lock
  /\ UNCHANGED <<files, want, writes>>

\* Mutant: only the thread's own leftover is looked for.
MutSweepOwn(p) ==
  /\ pc[p] = "sweep"
  /\ tmp' = [tmp EXCEPT ![p] = NoFile]
  /\ Goto(p, "create")
  /\ UNCHANGED <<lock, dest, disk, want, result, writes, faults>>

\* One leftover temporary of this receipt is unlinked, or all are gone.
Sweep(p) ==
  /\ pc[p] = "sweep"
  /\ \/ /\ \E q \in Proc : tmp[q] # NoFile /\ tmp' = [tmp EXCEPT ![q] = NoFile]
        /\ UNCHANGED <<pc, result, faults>>
     \/ /\ \A q \in Proc : tmp[q] = NoFile
        /\ Goto(p, "create") /\ UNCHANGED <<tmp, result, faults>>
     \/ Fault /\ Raise(p, "unlock") /\ UNCHANGED tmp
  /\ UNCHANGED <<lock, dest, disk, want, writes>>

\* Its own temporary, by O_EXCL.
Create(p) ==
  /\ pc[p] = "create"
  /\ \/ /\ tmp' = [tmp EXCEPT ![p] = [of |-> want[p], data |-> "empty"]]
        /\ Goto(p, "write") /\ UNCHANGED <<result, faults>>
     \/ Fault /\ Raise(p, "unlock") /\ UNCHANGED tmp
  /\ UNCHANGED <<lock, dest, disk, want, writes>>

\* os.write: a receipt is below one page, and is written whole or not at all.
Write(p) ==
  /\ pc[p] = "write"
  /\ \/ /\ tmp' = [tmp EXCEPT ![p].data = "written"]
        /\ Goto(p, "fsync") /\ UNCHANGED <<result, faults>>
     \/ Fault /\ Raise(p, "unlock") /\ UNCHANGED tmp
  /\ UNCHANGED <<lock, dest, disk, want, writes>>

\* Mutant: the file is closed but not synced.
MutFsyncNothing(p) ==
  /\ Step(p, "fsync", "replace")
  /\ UNCHANGED <<lock, files, want, writes, faults>>

Fsync(p) ==
  /\ pc[p] = "fsync"
  /\ \/ /\ tmp' = [tmp EXCEPT ![p] = Kept(@)]
        /\ Goto(p, "replace") /\ UNCHANGED <<result, faults>>
     \/ Fault /\ Raise(p, "unlock") /\ UNCHANGED tmp
  /\ UNCHANGED <<lock, dest, disk, want, writes>>

\* os.replace publishes the temporary, or finds it gone.
Replace(p) ==
  /\ pc[p] = "replace"
  /\ \/ /\ tmp[p] # NoFile
        /\ dest' = tmp[p]
        /\ disk' = disk \union {tmp[p]}
        /\ tmp' = [tmp EXCEPT ![p] = NoFile]
        /\ Goto(p, "dirsync") /\ UNCHANGED <<result, faults>>
     \/ FailsFor(tmp[p] = NoFile) /\ Raise(p, "unlock") /\ UNCHANGED files
  /\ UNCHANGED <<lock, want, writes>>

\* Mutant: the directory is not synced.
MutSyncNoDirectory(p) ==
  /\ pc[p] = "dirsync"
  /\ Goto(p, "unlock")
  /\ result' = [result EXCEPT ![p] = "written"]
  /\ UNCHANGED <<lock, files, want, writes, faults>>

\* The directory is synced and the mode set; either fails after the receipt is out.
SyncDirectory(p) ==
  /\ pc[p] = "dirsync"
  /\ \/ /\ disk' = {dest}
        /\ Goto(p, "unlock")
        /\ result' = [result EXCEPT ![p] = "written"]
        /\ UNCHANGED faults
     \/ Fault /\ disk' \in {disk, {dest}} /\ Raise(p, "unlock")
  /\ UNCHANGED <<lock, dest, tmp, want, writes>>

\* Mutant: the lock of a write that failed is left to the end of the process.
MutUnlockOnSuccess(p) ==
  /\ Step(p, "unlock", "out")
  /\ lock' = IF result[p] = "written" THEN NoProc ELSE lock
  /\ UNCHANGED <<files, want, writes, faults>>

Unlock(p) ==
  /\ Step(p, "unlock", "out")
  /\ lock' = NoProc
  /\ UNCHANGED <<files, want, writes, faults>>
-----------------------------------------------------------------------------
\* The process is killed: the kernel frees its lock, its temporary stays.
Crash(p) ==
  /\ pc[p] # "out"
  /\ Fault
  /\ Raise(p, "out")
  /\ lock' = IF lock = p THEN NoProc ELSE lock
  /\ UNCHANGED <<files, want, writes>>

\* Every process ends, and what was not synced may be lost.  (A rename the disk
\* has not seen may bring its temporary back; a write killed before its rename
\* leaves the same files.)
PowerLoss ==
  /\ Fault
  /\ \E f \in disk : dest' \in AfterLoss(f)
  /\ disk' = {dest'}
  /\ tmp' \in [Proc -> File]
  /\ \A p \in Proc : tmp'[p] \in AfterLoss(tmp[p]) \union {NoFile}
  /\ lock' = NoProc
  /\ pc' = [p \in Proc |-> "out"]
  /\ result' = [p \in Proc |-> IF pc[p] = "out" THEN result[p] ELSE "error"]
  /\ UNCHANGED <<want, writes>>

\* No write is left to make.
Finished == /\ writes = MaxWrites
            /\ \A p \in Proc : pc[p] = "out"
            /\ UNCHANGED vars

Continue(p) ==
  \/ Acquire(p) \/ Sweep(p) \/ Create(p) \/ Write(p) \/ Fsync(p) \/ Replace(p)
  \/ SyncDirectory(p) \/ Unlock(p)

Next == \/ \E p \in Proc : Begin(p) \/ Continue(p) \/ Crash(p)
        \/ PowerLoss
        \/ Finished

Spec == Init /\ [][Next]_vars

\* A thread keeps running; a free lock goes to one of its waiters.
FairSpec == Spec /\ \A p \in Proc : WF_vars(Continue(p))
-----------------------------------------------------------------------------
\* What parse_receipt_bytes makes of a file.
ReceiptIn(f) == IF f.data \in {"written", "synced"} THEN f.of ELSE NoReceipt

\* Readers take no lock, and yet they and a power loss see whole receipts only
\* ("Atomic receipt store", "published by replace").
Register == INSTANCE ReceiptRegister
              WITH value <- ReceiptIn(dest), safe <- {ReceiptIn(f) : f \in disk}
ImplementsRegister == Register!Spec

\* When write() returns, a power loss can bring back nothing but its receipt.
ReturnedIsDurable ==
  [][\A p \in Proc : pc[p] = "unlock" /\ pc'[p] = "out" /\ result'[p] = "written"
       => \A f \in disk : AfterLoss(f) = {[of |-> want[p], data |-> "synced"]}]_vars

\* A write that returns leaves no temporary behind, whoever died before it
\* ("Retry removes stale tmp under this lock").
LeftoversSwept ==
  \A p \in Proc : pc[p] = "unlock" /\ result[p] = "written"
                    => \A q \in Proc : tmp[q] = NoFile

\* A write fails only for a failure of its own: no writer sweeps the temporary
\* of another that is still going to publish it.
ErrorsAreFaults == faults = 0 => \A p \in Proc : result[p] # "error"

\* Every write ends, also after one that failed or was killed under the lock.
WritesEnd == \A p \in Proc : pc[p] # "out" ~> pc[p] = "out"
=============================================================================
