------------------------------- MODULE Mutex -------------------------------
(***************************************************************************)
(* What Installer._install_lock promises its callers: at most one of them  *)
(* is inside the protected section of one install id at a time.  A caller  *)
(* leaves by releasing the lock or by dying; either frees it.              *)
(***************************************************************************)
CONSTANTS Proc,     \* the threads, of any number of processes, that install
          NoProc    \* "nobody"

VARIABLE holder     \* who is inside the section

TypeOK == holder \in Proc \union {NoProc}

Init == holder = NoProc

Acquire(p) == holder = NoProc /\ holder' = p

Release(p) == holder = p /\ holder' = NoProc

Next == \E p \in Proc : Acquire(p) \/ Release(p)

Spec == Init /\ [][Next]_holder
=============================================================================
