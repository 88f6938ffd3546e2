---------------------------- MODULE FuzzManager ----------------------------
(***************************************************************************)
(* The fuzz manager (cedar-drt/fuzz_manager.py): one asyncio task per run, *)
(* at most Jobs of them past a semaphore, each supervising a child process *)
(* whose output it reads line by line; an interrupt cancels the tasks.     *)
(*                                                                         *)
(* One action is what a task does between two awaits: the event loop runs  *)
(* nothing else meanwhile.  Children are processes of their own.  The      *)
(* semaphore, streams, subprocesses and cancellation are asyncio's: a      *)
(* cancelled task meets CancelledError when it next resumes, whatever it   *)
(* was waiting for; a process that cannot be created makes                 *)
(* create_subprocess_exec raise OSError, and a line longer than the        *)
(* stream's limit ("long") makes readline raise ValueError.                *)
(***************************************************************************)
EXTENDS Naturals, FiniteSets, Sequences

CONSTANTS
  Runs,        \* the labels
  Jobs,        \* --jobs, or the number of runs
  Lines,       \* the kinds of lines a child may write
  MaxLines     \* bound: lines all children write together

ASSUME RunsAssumption ==
  /\ IsFiniteSet(Runs) /\ Runs # {}
  /\ Jobs \in Nat \ {0}
  /\ Lines \subseteq {"build", "stat", "done", "text", "long"}
  /\ MaxLines \in Nat

VARIABLES
  pc,           \* where each task is: what it awaits, or how it ended
  status,       \* FuzzStats.status
  cancel,       \* the tasks that Task.cancel was called on and that have not met it
  child,        \* "none", "alive", "term" (sent SIGTERM or SIGKILL), or its exit code
  output,       \* the lines each child has written
  nread,        \* how many of them were read
  sem,          \* the semaphore's value
  interrupted,
  main,         \* "gather", "summary", "exited" or "killed"
  exitCode

vars == <<pc, status, cancel, child, output, nread, sem, interrupted, main, exitCode>>

Ended   == {"done", "cancelled", "failed"}
Holding == {"spawn", "killing", "read", "wait", "stopping"}  \* inside `async with sem`
Alive(r) == child[r] \in {"alive", "term"}
Holders == {r \in Runs : pc[r] \in Holding}
Min2(a, b) == IF a <= b THEN a ELSE b

\* main has created the tasks and awaits them; their first steps run before
\* any signal is handled, so as many as the semaphore lets have started; one
\* whose process could not be created has failed and made room.
Init ==
  /\ \E failed \in SUBSET Runs : \E first \in SUBSET (Runs \ failed) :
       /\ Cardinality(first) = Min2(Jobs, Cardinality(Runs \ failed))
       /\ pc = [r \in Runs |-> IF r \in first THEN "spawn"
                               ELSE IF r \in failed THEN "failed" ELSE "acquire"]
       /\ child = [r \in Runs |-> IF r \in first THEN "alive" ELSE "none"]
       /\ sem = Jobs - Cardinality(first)
  /\ status = [r \in Runs |-> "starting"]
  /\ cancel = {}
  /\ output = [r \in Runs |-> <<>>]
  /\ nread = [r \in Runs |-> 0]
  /\ interrupted = FALSE /\ main = "gather" /\ exitCode = 0

-----------------------------------------------------------------------------
(* The tasks.  After os._exit nothing runs any more. *)
Running == main \in {"gather", "summary"}

\* Mutant: the semaphore is released twice.
LeaveTwice(r, end) == pc' = [pc EXCEPT ![r] = end] /\ sem' = sem + 2

\* Leaving `async with sem`, by return or by exception.
Leave(r, end) == pc' = [pc EXCEPT ![r] = end] /\ sem' = sem + 1

\* The semaphore is free: create_subprocess_exec forks the child at once
\* and then waits for its pipes to be connected.
Acquire(r) ==
  /\ Running /\ pc[r] = "acquire" /\ r \notin cancel /\ sem > 0
  /\ sem' = sem - 1
  /\ pc' = [pc EXCEPT ![r] = "spawn"]
  /\ child' = [child EXCEPT ![r] = "alive"]
  /\ UNCHANGED <<status, cancel, output, nread, interrupted, main, exitCode>>

\* It raises OSError: nothing catches it, the permit is given back, and the
\* status stays "starting".
SpawnFails(r) ==
  /\ Running /\ pc[r] = "acquire" /\ r \notin cancel /\ sem > 0
  /\ pc' = [pc EXCEPT ![r] = "failed"]
  /\ UNCHANGED <<status, cancel, child, output, nread, sem, interrupted, main, exitCode>>

Spawned(r) ==
  /\ Running /\ pc[r] = "spawn" /\ r \notin cancel
  /\ pc' = [pc EXCEPT ![r] = "read"]
  /\ UNCHANGED <<status, cancel, child, output, nread, sem, interrupted, main, exitCode>>

\* parse_line
Parsed(line, old) ==
  CASE line = "build" -> "building"
    [] line = "stat"  -> "running"
    [] line = "done"  -> "done"
    [] OTHER          -> old

NextLine(r) == output[r][nread[r] + 1]

ReadLine(r) ==
  /\ Running /\ pc[r] = "read" /\ r \notin cancel
  /\ nread[r] < Len(output[r]) /\ NextLine(r) # "long"
  /\ nread' = [nread EXCEPT ![r] = @ + 1]
  /\ status' = [status EXCEPT ![r] = Parsed(NextLine(r), @)]
  /\ UNCHANGED <<pc, cancel, child, output, sem, interrupted, main, exitCode>>

\* Mutant: the exception skips the release of the semaphore.
FailHolding(r) ==
  /\ Running /\ pc[r] = "read" /\ r \notin cancel
  /\ nread[r] < Len(output[r]) /\ NextLine(r) = "long"
  /\ nread' = [nread EXCEPT ![r] = @ + 1]
  /\ pc' = [pc EXCEPT ![r] = "failed"]
  /\ UNCHANGED <<status, cancel, child, output, sem, interrupted, main, exitCode>>

\* Nothing catches the ValueError: the task fails, the child stays.
ReadTooLong(r) ==
  /\ Running /\ pc[r] = "read" /\ r \notin cancel
  /\ nread[r] < Len(output[r]) /\ NextLine(r) = "long"
  /\ nread' = [nread EXCEPT ![r] = @ + 1]
  /\ Leave(r, "failed")
  /\ UNCHANGED <<status, cancel, child, output, interrupted, main, exitCode>>

ReadEof(r) ==
  /\ Running /\ pc[r] = "read" /\ r \notin cancel
  /\ nread[r] = Len(output[r]) /\ ~Alive(r)
  /\ pc' = [pc EXCEPT ![r] = "wait"]
  /\ UNCHANGED <<status, cancel, child, output, nread, sem, interrupted, main, exitCode>>

\* Mutant: the exit code is not looked at.
WaitedIgnoringCode(r) ==
  /\ Running /\ pc[r] = "wait" /\ r \notin cancel /\ ~Alive(r)
  /\ status' = [status EXCEPT ![r] = "done"]
  /\ Leave(r, "done")
  /\ UNCHANGED <<cancel, child, output, nread, interrupted, main, exitCode>>

\* proc.wait() returns: the outcome is recorded. The report of an error may
\* fail to be written.
Waited(r) ==
  LET error == child[r] # "ok" /\ status[r] # "done" IN
  /\ Running /\ pc[r] = "wait" /\ r \notin cancel /\ ~Alive(r)
  /\ status' = [status EXCEPT ![r] = IF error THEN "error" ELSE "done"]
  /\ Leave(r, "done") \/ (error /\ Leave(r, "failed"))
  /\ UNCHANGED <<cancel, child, output, nread, interrupted, main, exitCode>>

\* CancelledError while waiting for the semaphore ends the task.
CancelQueued(r) ==
  /\ Running /\ pc[r] = "acquire" /\ r \in cancel
  /\ pc' = [pc EXCEPT ![r] = "cancelled"]
  /\ cancel' = cancel \ {r}
  /\ UNCHANGED <<status, child, output, nread, sem, interrupted, main, exitCode>>

\* While the child is being spawned, asyncio kills it and waits for it.
CancelSpawn(r) ==
  /\ Running /\ pc[r] = "spawn" /\ r \in cancel
  /\ pc' = [pc EXCEPT ![r] = "killing"]
  /\ child' = [child EXCEPT ![r] = IF Alive(r) THEN "term" ELSE @]
  /\ cancel' = cancel \ {r}
  /\ UNCHANGED <<status, output, nread, sem, interrupted, main, exitCode>>

Killed(r) ==
  /\ Running /\ pc[r] = "killing" /\ ~Alive(r)
  /\ Leave(r, "cancelled")
  /\ UNCHANGED <<status, cancel, child, output, nread, interrupted, main, exitCode>>

\* Mutant: the child is terminated but not waited for.
TerminateOnly(r) ==
  /\ Running /\ pc[r] \in {"read", "wait"} /\ r \in cancel
  /\ status' = [status EXCEPT ![r] = "stopped"]
  /\ cancel' = cancel \ {r}
  /\ child' = [child EXCEPT ![r] = IF Alive(r) THEN "term" ELSE @]
  /\ Leave(r, "done")
  /\ UNCHANGED <<output, nread, interrupted, main, exitCode>>

\* The except clause: terminate a child that is alive, and wait for it. One
\* that ends before the signal reaches it is not harmed by it.
CancelReading(r) ==
  /\ Running /\ pc[r] \in {"read", "wait"} /\ r \in cancel
  /\ status' = [status EXCEPT ![r] = "stopped"]
  /\ cancel' = cancel \ {r}
  /\ IF Alive(r)
     THEN /\ \E c \in {"term", "ok", "fail"} : child' = [child EXCEPT ![r] = c]
          /\ pc' = [pc EXCEPT ![r] = "stopping"]
          /\ UNCHANGED sem
     ELSE Leave(r, "done") /\ UNCHANGED child
  /\ UNCHANGED <<output, nread, interrupted, main, exitCode>>

Stopped(r) ==
  /\ Running /\ pc[r] = "stopping" /\ ~Alive(r)
  /\ Leave(r, "done")
  /\ UNCHANGED <<status, cancel, child, output, nread, interrupted, main, exitCode>>

Task(r) == \/ Acquire(r) \/ SpawnFails(r) \/ Spawned(r) \/ ReadLine(r) \/ ReadTooLong(r) \/ ReadEof(r)
           \/ Waited(r) \/ CancelQueued(r) \/ CancelSpawn(r) \/ Killed(r) \/ CancelReading(r) \/ Stopped(r)

-----------------------------------------------------------------------------
(* The children.  A child that is sent a signal ends with an error.  One   *)
(* whose pipe nobody reads any more may never get to its end; what it      *)
(* writes then, or behind a line that is too long, is left out.            *)
Written == {p \in Runs \X (1..MaxLines) : p[2] <= Len(output[p[1]])}

Write(r, line) ==
  /\ child[r] = "alive" /\ Cardinality(Written) < MaxLines
  /\ pc[r] \in {"spawn", "read"}
  /\ output[r] # <<>> => output[r][Len(output[r])] # "long"
  /\ output' = [output EXCEPT ![r] = Append(@, line)]
  /\ UNCHANGED <<pc, status, cancel, child, nread, sem, interrupted, main, exitCode>>

Exit(r) ==
  /\ Alive(r)
  /\ \E code \in IF child[r] = "term" THEN {"fail"} ELSE {"ok", "fail"} :
       child' = [child EXCEPT ![r] = code]
  /\ UNCHANGED <<pc, status, cancel, output, nread, sem, interrupted, main, exitCode>>

-----------------------------------------------------------------------------
(* main and the signal handler *)
\* Mutant: only the tasks past the semaphore are cancelled.
CancelHolders ==
  /\ Running
  /\ IF interrupted
     THEN main' = "killed" /\ exitCode' = 1 /\ UNCHANGED <<interrupted, cancel>>
     ELSE interrupted' = TRUE /\ cancel' = Holders /\ UNCHANGED <<main, exitCode>>
  /\ UNCHANGED <<pc, status, child, output, nread, sem>>

HandleSignal ==
  /\ Running
  /\ IF interrupted
     THEN main' = "killed" /\ exitCode' = 1 /\ UNCHANGED <<interrupted, cancel>>
     ELSE /\ interrupted' = TRUE
          /\ cancel' = {r \in Runs : pc[r] \notin Ended}
          /\ UNCHANGED <<main, exitCode>>
  /\ UNCHANGED <<pc, status, child, output, nread, sem>>

\* Mutant: only a task that returned counts as finished.
GatheredReturns ==
  /\ main = "gather" /\ \A r \in Runs : pc[r] \in {"done", "cancelled"}
  /\ main' = "summary"
  /\ UNCHANGED <<pc, status, cancel, child, output, nread, sem, interrupted, exitCode>>

\* gather returns when every task has ended, whatever way, and main goes on
\* to await the display.
Gathered ==
  /\ main = "gather" /\ \A r \in Runs : pc[r] \in Ended
  /\ main' = "summary"
  /\ UNCHANGED <<pc, status, cancel, child, output, nread, sem, interrupted, exitCode>>

Summary ==
  /\ main = "summary"
  /\ main' = "exited"
  /\ exitCode' = IF \E r \in Runs : status[r] = "error" THEN 1 ELSE 0
  /\ UNCHANGED <<pc, status, cancel, child, output, nread, sem, interrupted>>

Next == \/ \E r \in Runs : Task(r) \/ Exit(r) \/ \E line \in Lines : Write(r, line)
        \/ HandleSignal \/ Gathered \/ Summary

\* The event loop runs what is ready; a terminated child ends.
Fairness ==
  /\ \A r \in Runs : WF_vars(Task(r))
  /\ \A r \in Runs : WF_vars(child[r] = "term" /\ Exit(r))
  /\ WF_vars(Gathered) /\ WF_vars(Summary)

Spec == Init /\ [][Next]_vars /\ Fairness

-----------------------------------------------------------------------------
\* The semaphore never goes below zero, and no task reads more than its
\* child has written (fuzz_manager.py:250-256 and 403-407).
TypeOK ==
  /\ pc \in [Runs -> {"acquire"} \cup Holding \cup Ended]
  /\ status \in [Runs -> {"starting", "building", "running", "done", "error", "stopped"}]
  /\ cancel \subseteq Runs
  /\ child \in [Runs -> {"none", "alive", "term", "ok", "fail"}]
  /\ output \in [Runs -> Seq(Lines)]
  /\ nread \in [Runs -> Nat] /\ \A r \in Runs : nread[r] <= Len(output[r])
  /\ sem \in Nat
  /\ interrupted \in BOOLEAN
  /\ main \in {"gather", "summary", "exited", "killed"}
  /\ exitCode \in {0, 1}

\* --jobs: "Max parallel targets" (fuzz_manager.py:327).
JobsBound == Cardinality({r \in Runs : Alive(r)}) <= Jobs

\* The line that made the task of r fail.
CutShort(r) == pc[r] = "failed" /\ nread[r] > 0 /\ output[r][nread[r]] = "long"

\* The bound holds of all children but those a line too long has cut off
\* from their tasks (fuzz_manager.py:250 and 406).
WatchedBound == Cardinality({r \in Runs : Alive(r) /\ ~CutShort(r)}) <= Jobs

\* The semaphore is given back once by every task that took it, on every
\* way out (fuzz_manager.py:405-407).
SemConserved == sem + Cardinality(Holders) = Jobs

\* main does not return while a child it started is alive, unless it was
\* cut off (fuzz_manager.py:258-263 and 433).
NoOrphans == main \in {"summary", "exited"} => \A r \in Runs : Alive(r) => CutShort(r)

\* What exit code 0 of a manager that was not interrupted tells of a run: it
\* ended, was read to the end and is shown as done, and if it failed it had
\* announced that it was done and no new statistics since; or its task
\* failed before, because its process could not be created, and it is shown
\* as starting, or because of a line too long, and it is shown as it was
\* when that line came (fuzz_manager.py:239-245, 265-271, 433 and 447-453).
SaidDone(r) ==
  \E i \in 1..Len(output[r]) :
    output[r][i] = "done" /\ \A j \in (i + 1)..Len(output[r]) : output[r][j] = "text"
NeverStarted(r) == pc[r] = "failed" /\ child[r] = "none" /\ status[r] = "starting"
EndedWell(r) ==
  /\ pc[r] = "done" /\ child[r] \in {"ok", "fail"} /\ nread[r] = Len(output[r])
  /\ status[r] = "done"
  /\ child[r] = "fail" => SaidDone(r)
AllClear ==
  main = "exited" /\ exitCode = 0 /\ ~interrupted =>
    \A r \in Runs : EndedWell(r) \/ NeverStarted(r) \/ CutShort(r)

Over == main \in {"exited", "killed"}

\* With --timeout, when every child whose output is read ends on its own,
\* the manager ends (fuzz_manager.py:237-238 and 433).
TimeLimit == \A r \in Runs : WF_vars(pc[r] \in {"spawn", "read"} /\ Exit(r))
Terminates == TimeLimit => <>Over

\* Without a limit an interrupt ends it, wherever each task is
\* (fuzz_manager.py:419-433).
InterruptEnds == interrupted ~> Over

=============================================================================
