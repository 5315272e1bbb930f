--------------------------- MODULE CommandRunner ---------------------------
(***************************************************************************)
(* _run_with_tail and _kill_process_group of kilix_content/install.py: one *)
(* build command in a session of its own, whose output is read from a pipe *)
(* until the command and its children close it, the command has exited, or *)
(* the deadline has passed.                                                *)
(*                                                                         *)
(* Output counts in blocks.  A read takes all the pipe holds (64 KiB, the  *)
(* size of the pipe); only the last blocks are kept for the diagnostic,    *)
(* which is left out.  Time is whether the deadline has passed.            *)
(***************************************************************************)
EXTENDS Naturals, FiniteSets

CONSTANTS Child,        \* processes the command may leave in the background
          Capacity,     \* blocks the pipe holds
          MaxOutput,    \* bound: blocks the command writes
          MaxChatter,   \* bound: blocks its children write, unless Endless
          Endless,      \* whether a child may go on writing for ever
          MaxFaults     \* bound: failed killpg() calls

ASSUME BoundAssumption == /\ {MaxOutput, MaxChatter, MaxFaults} \subseteq Nat
                          /\ Capacity \in Nat \ {0}
                          /\ Endless \in BOOLEAN

VARIABLES command,   \* the command: running, exited (a zombie) or reaped
          stdout,    \* the command has not closed its end of the pipe
          child,     \* [Child -> not started, in the group, in a session of its
                     \*  own, or gone (or no longer holding the pipe)]
          pipe,      \* [by: blocks of the command, of children] unread in the pipe
          output,    \* blocks the command has written
          chatter,   \* blocks its children have written
          limited,   \* a timeout was given
          late,      \* its deadline has passed
          pc,        \* where _run_with_tail is
          result,    \* what it came to
          faults

world == <<command, stdout, child, output, chatter, late>>
runner == <<limited, pc, result, faults>>
vars == <<world, pipe, runner>>

TypeOK == /\ command \in {"running", "exited", "reaped"}
          /\ stdout \in BOOLEAN
          /\ child \in [Child -> {"none", "group", "session", "gone"}]
          /\ pipe \in [command : 0..Capacity, children : 0..Capacity]
          /\ pipe.command + pipe.children <= Capacity
          /\ output \in 0..MaxOutput
          /\ chatter \in 0..MaxChatter
          /\ limited \in BOOLEAN /\ late \in BOOLEAN
          /\ pc \in {"loop", "select", "poll", "drain", "wait", "kill", "done"}
          /\ result \in {"none", "returned", "timeout"}
          /\ faults \in 0..MaxFaults

NoOutput == [command |-> 0, children |-> 0]

Init == /\ command = "running"
        /\ stdout = TRUE
        /\ child = [c \in Child |-> "none"]
        /\ pipe = NoOutput
        /\ output = 0 /\ chatter = 0
        /\ limited \in BOOLEAN
        /\ late = FALSE
        /\ pc = "loop" /\ result = "none"
        /\ faults = 0
-----------------------------------------------------------------------------
(* The command and its children                                            *)

Writers == {c \in Child : child[c] \in {"group", "session"}}
Room == pc # "done" /\ pipe.command + pipe.children < Capacity

CommandWrites ==
  /\ command = "running" /\ stdout /\ Room /\ output < MaxOutput
  /\ output' = output + 1
  /\ pipe' = [pipe EXCEPT !.command = @ + 1]
  /\ UNCHANGED <<command, stdout, child, chatter, late, runner>>

\* It starts a child, closes its output and runs on, or exits.
CommandStarts ==
  /\ command = "running"
  /\ \E c \in Child : child[c] = "none" /\ child' = [child EXCEPT ![c] = "group"]
  /\ UNCHANGED <<command, stdout, output, chatter, late, pipe, runner>>

CommandCloses ==
  /\ command = "running" /\ stdout
  /\ stdout' = FALSE
  /\ UNCHANGED <<command, child, output, chatter, late, pipe, runner>>

CommandExits ==
  /\ command = "running"
  /\ command' = "exited" /\ stdout' = FALSE
  /\ UNCHANGED <<child, output, chatter, late, pipe, runner>>

ChildWrites ==
  /\ Writers # {} /\ Room
  /\ Endless \/ chatter < MaxChatter
  /\ chatter' = IF Endless THEN chatter ELSE chatter + 1
  /\ pipe' = [pipe EXCEPT !.children = @ + 1]
  /\ UNCHANGED <<command, stdout, child, output, late, runner>>

\* A child leaves the session with setsid(), or it exits or closes the pipe.
ChildMoves ==
  /\ \E c \in Writers : \/ child[c] = "group" /\ child' = [child EXCEPT ![c] = "session"]
                        \/ child' = [child EXCEPT ![c] = "gone"]
  /\ UNCHANGED <<command, stdout, output, chatter, late, pipe, runner>>

DeadlinePasses ==
  /\ limited /\ ~late
  /\ late' = TRUE
  /\ UNCHANGED <<command, stdout, child, output, chatter, pipe, runner>>

World == \/ CommandWrites \/ CommandStarts \/ CommandCloses \/ CommandExits
         \/ ChildWrites \/ ChildMoves \/ DeadlinePasses
-----------------------------------------------------------------------------
(* _run_with_tail                                                          *)

Eof == pipe = NoOutput /\ ~stdout /\ Writers = {}
Readable == pipe # NoOutput \/ Eof

Goto(c) == pc' = c /\ UNCHANGED result
Read == pipe' = NoOutput

\* The top of the loop, where alone the deadline is looked at.
Loop ==
  /\ pc = "loop"
  /\ Goto(IF limited /\ late THEN "kill" ELSE "select")
  /\ UNCHANGED <<world, pipe, limited, faults>>

\* select() finds something: a block is read, or every writer has closed.
SelectReady ==
  /\ pc = "select" /\ Readable
  /\ Read
  /\ Goto(IF Eof THEN "wait" ELSE "loop")
  /\ UNCHANGED <<world, limited, faults>>

\* The interval passed with nothing to read.
SelectQuiet ==
  /\ pc = "select" /\ ~Readable
  /\ Goto("poll")
  /\ UNCHANGED <<world, pipe, limited, faults>>

\* Mutant: what arrived after the last select() is not waited for.
MutPollNoDrain ==
  /\ pc = "poll"
  /\ \/ command = "running" /\ Goto("loop") /\ UNCHANGED command
     \/ command # "running" /\ command' = "reaped" /\ Goto("wait")
  /\ UNCHANGED <<stdout, child, output, chatter, late, pipe, limited, faults>>

\* Mutant: the pipe alone decides when the output is complete.
MutPollForEof ==
  /\ pc = "poll"
  /\ Goto("loop")
  /\ UNCHANGED <<world, pipe, limited, faults>>

\* Mutant: an exited command is noticed but its pipe is still waited for.
MutPollKeepsReading ==
  /\ pc = "poll"
  /\ command' = IF command = "exited" THEN "reaped" ELSE command
  /\ Goto("loop")
  /\ UNCHANGED <<stdout, child, output, chatter, late, pipe, limited, faults>>

\* process.poll() reaps an exited command; a child may still hold the pipe.
Poll ==
  /\ pc = "poll"
  /\ \/ command = "running" /\ Goto("loop") /\ UNCHANGED command
     \/ command # "running" /\ command' = "reaped" /\ Goto("drain")
  /\ UNCHANGED <<stdout, child, output, chatter, late, pipe, limited, faults>>

\* while select(0) and absorb(): what has arrived is kept.
Drain ==
  /\ pc = "drain"
  /\ \/ Readable /\ Read /\ Goto(IF Eof THEN "wait" ELSE "drain")
     \/ ~Readable /\ Goto("wait") /\ UNCHANGED pipe
  /\ UNCHANGED <<world, limited, faults>>

\* Mutant: the command is waited for without the time that is left.
MutWaitUnbounded ==
  /\ pc = "wait"
  /\ command # "running"
  /\ command' = "reaped" /\ pc' = "done" /\ result' = "returned"
  /\ UNCHANGED <<stdout, child, output, chatter, late, pipe, limited, faults>>

\* process.wait(timeout=remaining)
Wait ==
  /\ pc = "wait"
  /\ \/ command # "running" /\ command' = "reaped" /\ pc' = "done" /\ result' = "returned"
     \/ command = "running" /\ limited /\ late /\ Goto("kill") /\ UNCHANGED command
  /\ UNCHANGED <<stdout, child, output, chatter, late, pipe, limited, faults>>

\* Mutant: the status of the killed command is returned.
MutKillReturnsStatus ==
  /\ pc = "kill"
  /\ command' = "reaped" /\ stdout' = FALSE
  /\ child' = [c \in Child |-> IF child[c] = "group" THEN "gone" ELSE child[c]]
  /\ pc' = "done" /\ result' = "killed"
  /\ UNCHANGED <<output, chatter, late, pipe, limited, faults>>

\* timed_out: the group is killed, or the command alone, and reaped.
Kill ==
  /\ pc = "kill"
  /\ command' = "reaped" /\ stdout' = FALSE
  /\ \/ /\ child' = [c \in Child |-> IF child[c] = "group" THEN "gone" ELSE child[c]]
        /\ UNCHANGED faults
     \/ faults < MaxFaults /\ faults' = faults + 1 /\ UNCHANGED child
  /\ pc' = "done" /\ result' = "timeout"
  /\ UNCHANGED <<output, chatter, late, pipe, limited>>

Run == Loop \/ SelectReady \/ SelectQuiet \/ Poll \/ Drain \/ Wait \/ Kill

Finished == pc = "done" /\ UNCHANGED vars

Next == Run \/ World \/ Finished

Spec == Init /\ [][Next]_vars

\* The caller's thread runs and time passes; the command promises nothing.
FairSpec == Spec /\ WF_vars(Run) /\ WF_vars(DeadlinePasses)
-----------------------------------------------------------------------------
\* A run that ends by itself has read all the command wrote, however its last
\* writes, its exit and its children's output fall between select() and poll()
\* ("Keep what has arrived and stop waiting").
OutputComplete == result = "returned" => pipe.command = 0

\* The process group is signalled only while its leader has not been reaped: its
\* number cannot be another process's by then.
KillsItsOwn == pc = "kill" => command # "reaped"

\* A child that keeps the pipe open does not keep the caller, with or without a
\* timeout (tests/test_content.py: "build completes when a background child keeps
\* the pipe").
ExitEndsRun == command # "running" ~> pc = "done"

\* With a timeout the call ends, whatever the command and its children do
\* (Installer: "a stalled network peer or wedged build cannot block ensure()
\* forever").
TimeoutEnds == limited ~> pc = "done"
=============================================================================
