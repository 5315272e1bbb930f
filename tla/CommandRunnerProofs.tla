------------------------ MODULE CommandRunnerProofs ------------------------
(***************************************************************************)
(* That a run that returns has read all of its command's output, and that  *)
(* it signals no process group but its own, for any number of children,    *)
(* any pipe and any amount of output.                                      *)
(*                                                                         *)
(* Neither is inductive: both rest on where the loop can be once the       *)
(* command has been reaped, and on an exited command writing no more.      *)
(***************************************************************************)
EXTENDS CommandRunner, TLAPS

\* An exited command has no end of the pipe, and is reaped by poll() or wait().
Silent == command # "running" => ~stdout
ReapedLate == command = "reaped" => pc \in {"drain", "wait", "done"}

\* The pipe is read for the last time when the command can write no more.
ReadOut == /\ pc = "drain" => command # "running"
           /\ pc = "wait" => pipe.command = 0 /\ ~stdout
           /\ result = "returned" => pc = "done"

IInv == TypeOK /\ Silent /\ ReapedLate /\ ReadOut /\ OutputComplete

\* The invariant holds when the command is started,
LEMMA IInvInit == Init => IInv
<1> SUFFICES ASSUME Init PROVE IInv
  OBVIOUS
<1>1. pipe \in [command : 0..Capacity, children : 0..Capacity]
      /\ pipe.command + pipe.children <= Capacity
  BY BoundAssumption DEF Init, NoOutput
<1>2. 0 \in 0..MaxOutput /\ 0 \in 0..MaxChatter /\ 0 \in 0..MaxFaults
  BY BoundAssumption
<1>3. TypeOK
  BY <1>1, <1>2 DEF Init, TypeOK
<1>4. Silent /\ ReapedLate /\ ReadOut /\ OutputComplete
  BY DEF Init, Silent, ReapedLate, ReadOut, OutputComplete
<1> QED
  BY <1>3, <1>4 DEF IInv

\* The command, its children and the clock.
LEMMA IInvWorld == IInv /\ World => IInv'
<1> SUFFICES ASSUME IInv, World PROVE IInv'
  OBVIOUS
<1> USE BoundAssumption
    DEF IInv, TypeOK, Silent, ReapedLate, ReadOut, OutputComplete, runner
<1>1. CASE CommandWrites
  BY <1>1 DEF CommandWrites, Room
<1>2. CASE CommandStarts
  BY <1>2 DEF CommandStarts
<1>3. CASE CommandCloses
  BY <1>3 DEF CommandCloses
<1>4. CASE CommandExits
  BY <1>4 DEF CommandExits
<1>5. CASE ChildWrites
  BY <1>5 DEF ChildWrites, Room
<1>6. CASE ChildMoves
  BY <1>6 DEF ChildMoves, Writers
<1>7. CASE DeadlinePasses
  BY <1>7 DEF DeadlinePasses
<1> QED
  BY <1>1, <1>2, <1>3, <1>4, <1>5, <1>6, <1>7 DEF World

\* The caller's thread.
LEMMA IInvRun == IInv /\ Run => IInv'
<1> SUFFICES ASSUME IInv, Run PROVE IInv'
  OBVIOUS
<1> USE BoundAssumption
    DEF IInv, TypeOK, Silent, ReapedLate, ReadOut, OutputComplete, world, Goto
<1>1. CASE Loop
  BY <1>1 DEF Loop
<1>2. CASE SelectReady
  BY <1>2 DEF SelectReady, Read, NoOutput, Eof
<1>3. CASE SelectQuiet
  BY <1>3 DEF SelectQuiet
<1>4. CASE Poll
  BY <1>4 DEF Poll
<1>5. CASE Drain
  BY <1>5 DEF Drain, Read, Readable, NoOutput, Eof
<1>6. CASE Wait
  BY <1>6 DEF Wait
<1>7. CASE Kill
  <2>1. faults' \in 0..MaxFaults
    BY <1>7 DEF Kill
  <2>2. child' \in [Child -> {"none", "group", "session", "gone"}]
    BY <1>7 DEF Kill
  <2> QED
    BY <1>7, <2>1, <2>2 DEF Kill
<1> QED
  BY <1>1, <1>2, <1>3, <1>4, <1>5, <1>6, <1>7 DEF Run

\* and every step preserves it.
LEMMA IInvNext == IInv /\ [Next]_vars => IInv'
<1> SUFFICES ASSUME IInv, UNCHANGED vars PROVE IInv'
  BY IInvWorld, IInvRun DEF Next, Finished
<1> QED
  BY DEF vars, world, runner, IInv, TypeOK, Silent, ReapedLate, ReadOut,
         OutputComplete

\* Every reachable state satisfies the inductive invariant.
THEOREM Invariance == Spec => []IInv
BY IInvInit, IInvNext, PTL DEF Spec

\* The variables of the command runner keep their types; in particular the pipe
\* never holds more than its capacity.
THEOREM TypeCorrect == Spec => []TypeOK
<1>1. IInv => TypeOK
  BY DEF IInv
<1> QED
  BY <1>1, Invariance, PTL

\* A run that returns has left nothing of the command's output in the pipe.
THEOREM OutputCompleteHolds == Spec => []OutputComplete
<1>1. IInv => OutputComplete
  BY DEF IInv
<1> QED
  BY <1>1, Invariance, PTL

\* killpg() never names a process that has been reaped.
THEOREM KillsItsOwnHolds == Spec => []KillsItsOwn
<1>1. IInv => KillsItsOwn
  BY DEF IInv, TypeOK, ReapedLate, KillsItsOwn
<1> QED
  BY <1>1, Invariance, PTL
=============================================================================
