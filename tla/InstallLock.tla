---------------------------- MODULE InstallLock ----------------------------
(***************************************************************************)
(* The per-install-id file lock of kilix_content/install.py: the context   *)
(* manager Installer._install_lock and _acquire_install_lock below it.     *)
(*                                                                         *)
(* The lock file is created by whoever needs it and unlinked by whoever    *)
(* held it, so a path may name one inode after another, and a waiter may   *)
(* be granted the flock of an inode that no longer has a name.  The module *)
(* keeps the path, the descriptors and the flocks apart for that reason.   *)
(* An inode with neither a name nor a descriptor may be allocated again.   *)
(***************************************************************************)
EXTENDS Naturals

CONSTANTS Proc,       \* threads, of any number of processes, that call ensure()
          Inode,      \* inodes the file system may give the lock file
          NoProc,     \* "no thread"
          NoInode,    \* "no inode": no file, or no descriptor
          MaxDepth,   \* bound: nested ensure() calls of one thread
          MaxCalls,   \* bound: outermost ensure() calls, of all threads together
          MaxFaults   \* bound: failed system calls and killed processes

ASSUME NullAssumption  == NoProc \notin Proc /\ NoInode \notin Inode
ASSUME BoundAssumption == {MaxDepth, MaxCalls, MaxFaults} \subseteq Nat

VARIABLES path,     \* the inode the lock path names
          fd,       \* [Proc -> inode its descriptor is open on]
          flock,    \* [Inode -> the thread whose descriptor holds its flock]
          lpc,      \* [Proc -> where the thread is in _install_lock]
          depth,    \* [Proc -> nested entries that found their key in `held`]
          calls,    \* outermost calls so far
          faults    \* faults so far

vars == <<path, fd, flock, lpc, depth, calls, faults>>

\* out: not in the lock; retry: about to open again; wait: in flock();
\* check: flocked, inode not compared yet; held: in the with block;
\* drop: unlinked, descriptor not closed yet.
Phase == {"out", "retry", "wait", "check", "held", "drop"}
Locked == {"check", "held", "drop"}
Trying == {"retry", "wait", "check"}

TypeOK == /\ path \in Inode \union {NoInode}
          /\ fd \in [Proc -> Inode \union {NoInode}]
          /\ flock \in [Inode -> Proc \union {NoProc}]
          /\ lpc \in [Proc -> Phase]
          /\ depth \in [Proc -> 0..MaxDepth]
          /\ calls \in 0..MaxCalls
          /\ faults \in 0..MaxFaults

Init == /\ path \in Inode \union {NoInode}   \* a killed process leaves its file
        /\ fd = [p \in Proc |-> NoInode]
        /\ flock = [i \in Inode |-> NoProc]
        /\ lpc = [p \in Proc |-> "out"]
        /\ depth = [p \in Proc |-> 0]
        /\ calls = 0
        /\ faults = 0
-----------------------------------------------------------------------------
Unused(i) == i # path /\ \A q \in Proc : fd[q] # i

\* What close() does to the flock of p's descriptor.
Unlocked(p) == [i \in Inode |-> IF flock[i] = p THEN NoProc ELSE flock[i]]

\* os.open(O_CREAT): the named inode, or a fresh one that becomes named.
Open(p) ==
  /\ \/ lpc[p] = "out" /\ calls < MaxCalls /\ calls' = calls + 1
     \/ lpc[p] = "retry" /\ UNCHANGED calls
  /\ \E i \in Inode : /\ i = path \/ (path = NoInode /\ Unused(i))
                      /\ path' = i
                      /\ fd' = [fd EXCEPT ![p] = i]
  /\ lpc' = [lpc EXCEPT ![p] = "wait"]
  /\ UNCHANGED <<flock, depth, faults>>

\* Mutant: the flock is taken for granted, whoever holds it.
MutGrantShared(p) ==
  /\ lpc[p] = "wait"
  /\ flock' = [flock EXCEPT ![fd[p]] = p]
  /\ lpc' = [lpc EXCEPT ![p] = "check"]
  /\ UNCHANGED <<path, fd, depth, calls, faults>>

\* fcntl.flock(LOCK_EX) returns.
Grant(p) ==
  /\ lpc[p] = "wait"
  /\ flock[fd[p]] = NoProc
  /\ flock' = [flock EXCEPT ![fd[p]] = p]
  /\ lpc' = [lpc EXCEPT ![p] = "check"]
  /\ UNCHANGED <<path, fd, depth, calls, faults>>

\* Mutant: any lock file at the path will do.
MutConfirmAnyFile(p) ==
  /\ lpc[p] = "check"
  /\ path # NoInode
  /\ lpc' = [lpc EXCEPT ![p] = "held"]
  /\ UNCHANGED <<path, fd, flock, depth, calls, faults>>

\* Mutant: the flock is enough, the path is not looked at.
MutConfirmUnchecked(p) ==
  /\ lpc[p] = "check"
  /\ lpc' = [lpc EXCEPT ![p] = "held"]
  /\ UNCHANGED <<path, fd, flock, depth, calls, faults>>

\* os.stat(lock_path) names the inode os.fstat(descriptor) does.
Confirm(p) ==
  /\ lpc[p] = "check"
  /\ path = fd[p]
  /\ lpc' = [lpc EXCEPT ![p] = "held"]
  /\ UNCHANGED <<path, fd, flock, depth, calls, faults>>

\* Mutant: the orphan is not closed before the next round.
MutOrphanKept(p) ==
  /\ lpc[p] = "check"
  /\ path # fd[p]
  /\ fd' = [fd EXCEPT ![p] = NoInode]
  /\ lpc' = [lpc EXCEPT ![p] = "retry"]
  /\ UNCHANGED <<path, flock, depth, calls, faults>>

\* It names another or nothing: close the orphan and go round again.
Orphaned(p) ==
  /\ lpc[p] = "check"
  /\ path # fd[p]
  /\ flock' = Unlocked(p)
  /\ fd' = [fd EXCEPT ![p] = NoInode]
  /\ lpc' = [lpc EXCEPT ![p] = "retry"]
  /\ UNCHANGED <<path, depth, calls, faults>>

\* open, flock or stat raises OSError: close, and ensure() raises InstallError.
AcquireFails(p) ==
  /\ lpc[p] \in Trying
  /\ faults < MaxFaults
  /\ faults' = faults + 1
  /\ flock' = Unlocked(p)
  /\ fd' = [fd EXCEPT ![p] = NoInode]
  /\ lpc' = [lpc EXCEPT ![p] = "out"]
  /\ UNCHANGED <<path, depth, calls>>

\* A nested ensure() for the same id finds its key in the thread's `held`.
Reenter(p) ==
  /\ lpc[p] = "held"
  /\ depth[p] < MaxDepth
  /\ depth' = [depth EXCEPT ![p] = @ + 1]
  /\ UNCHANGED <<path, fd, flock, lpc, calls, faults>>

\* Mutant: an inner exit that does not know whether there was an inner entry.
MutLeaveUnguarded(p) ==
  /\ lpc[p] = "held"
  /\ depth' = [depth EXCEPT ![p] = @ - 1]
  /\ UNCHANGED <<path, fd, flock, lpc, calls, faults>>

Leave(p) ==
  /\ depth[p] > 0
  /\ depth' = [depth EXCEPT ![p] = @ - 1]
  /\ UNCHANGED <<path, fd, flock, lpc, calls, faults>>

\* The with block ends: unlink by path, whose OSError is swallowed.
Unlink(p) ==
  /\ lpc[p] = "held"
  /\ depth[p] = 0
  /\ \/ path' = NoInode /\ UNCHANGED faults
     \/ faults < MaxFaults /\ faults' = faults + 1 /\ UNCHANGED path
  /\ lpc' = [lpc EXCEPT ![p] = "drop"]
  /\ UNCHANGED <<fd, flock, depth, calls>>

Close(p) ==
  /\ lpc[p] = "drop"
  /\ flock' = Unlocked(p)
  /\ fd' = [fd EXCEPT ![p] = NoInode]
  /\ lpc' = [lpc EXCEPT ![p] = "out"]
  /\ UNCHANGED <<path, depth, calls, faults>>

\* The process is killed; the kernel closes its descriptor, the file stays.
\* The thread stands for its successor from then on.
Crash(p) ==
  /\ lpc[p] # "out"
  /\ faults < MaxFaults
  /\ faults' = faults + 1
  /\ flock' = Unlocked(p)
  /\ fd' = [fd EXCEPT ![p] = NoInode]
  /\ lpc' = [lpc EXCEPT ![p] = "out"]
  /\ depth' = [depth EXCEPT ![p] = 0]
  /\ UNCHANGED <<path, calls>>

\* No call is left to make.
Finished == /\ calls = MaxCalls
            /\ \A p \in Proc : lpc[p] = "out"
            /\ UNCHANGED vars

Step(p) == \/ Open(p) \/ Grant(p) \/ Confirm(p) \/ Orphaned(p)
           \/ Reenter(p) \/ Leave(p) \/ Unlink(p) \/ Close(p)

Fault(p) == AcquireFails(p) \/ Crash(p)

Next == (\E p \in Proc : Step(p) \/ Fault(p)) \/ Finished

Spec == Init /\ [][Next]_vars
-----------------------------------------------------------------------------
(* A running thread takes its next step, the kernel grants a free flock to *)
(* somebody, and the block under the lock ends.  No caller is promised the *)
(* flock ahead of the others, and nothing makes a fault happen.            *)

Fairness == \A p \in Proc :
  /\ WF_vars(lpc[p] = "retry" /\ Open(p))
  /\ WF_vars(Grant(p))
  /\ WF_vars(Confirm(p) \/ Orphaned(p))
  /\ WF_vars(Leave(p) \/ Close(p))
  /\ SF_vars(Unlink(p))

FairSpec == Spec /\ Fairness
-----------------------------------------------------------------------------
Holder(p) == lpc[p] = "held"

\* Two threads are never both inside the with block of one install id, however
\* unlinks, recreated files and reused inodes interleave
\* (_acquire_install_lock: "only valid while it still names the path").
MutualExclusion == \A p, q \in Proc : Holder(p) /\ Holder(q) => p = q

\* While a thread is inside, the lock path names the inode it has flocked, so
\* the unlink that ends its block can remove no other caller's lock file.
HolderOwnsPath ==
  \A p \in Proc : Holder(p) => path = fd[p] /\ flock[fd[p]] = p

\* Once a holder has let go and nothing failed, no lock file is left behind
\* (tests/test_content.py: "released locks leave no residue").
NoResidue == (faults = 0 /\ calls > 0 /\ \A p \in Proc : lpc[p] = "out")
               => path = NoInode

\* The lock is the abstract mutual exclusion: entering and leaving the block
\* (or dying in it) are its only visible steps.
HolderNow == IF \E p \in Proc : Holder(p) THEN CHOOSE p \in Proc : Holder(p)
                                          ELSE NoProc
Abstract == INSTANCE Mutex WITH holder <- HolderNow
ImplementsMutex == Abstract!Spec

\* A thread that asked for the lock gets it and leaves, or is told why not: no
\* lost wake-up, no orphan it stays blocked on, no endless round of retries, while
\* calls are bounded; and the last to leave leaves no residue.
WaiterGetsThrough ==
  \A p \in Proc : lpc[p] \in Trying ~> lpc[p] = "out" /\ NoResidue
=============================================================================
