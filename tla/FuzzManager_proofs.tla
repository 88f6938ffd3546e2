------------------------- MODULE FuzzManager_proofs -------------------------
(***************************************************************************)
(* The theorems of FuzzManager, for any number of runs and jobs, any kinds *)
(* of lines, processes that cannot be created and interrupts at any time.  *)
(***************************************************************************)
EXTENDS FuzzManager, FiniteSetTheorems, TLAPS

-----------------------------------------------------------------------------
(* Types *)

LEMMA InitType == Init => TypeOK
<1> SUFFICES ASSUME Init PROVE TypeOK
  OBVIOUS
<1>1. PICK failed \in SUBSET Runs : \E first \in SUBSET (Runs \ failed) :
        /\ Cardinality(first) = Min2(Jobs, Cardinality(Runs \ failed))
        /\ pc = [r \in Runs |-> IF r \in first THEN "spawn"
                                ELSE IF r \in failed THEN "failed" ELSE "acquire"]
        /\ child = [r \in Runs |-> IF r \in first THEN "alive" ELSE "none"]
        /\ sem = Jobs - Cardinality(first)
  BY DEF Init
<1>1a. PICK first \in SUBSET (Runs \ failed) :
        /\ Cardinality(first) = Min2(Jobs, Cardinality(Runs \ failed))
        /\ pc = [r \in Runs |-> IF r \in first THEN "spawn"
                                ELSE IF r \in failed THEN "failed" ELSE "acquire"]
        /\ child = [r \in Runs |-> IF r \in first THEN "alive" ELSE "none"]
        /\ sem = Jobs - Cardinality(first)
  BY <1>1
<1>2. sem \in Nat
  <2>1. Cardinality(Runs \ failed) \in Nat /\ Cardinality(first) \in Nat
    BY <1>1a, RunsAssumption, FS_Subset, FS_CardinalityType
  <2> QED
    BY <1>1a, <2>1, RunsAssumption DEF Min2
<1>3. <<>> \in Seq(Lines) /\ Len(<<>>) = 0
  OBVIOUS
<1>4. pc \in [Runs -> {"acquire"} \cup Holding \cup Ended]
  BY <1>1a DEF Holding, Ended
<1>5. child \in [Runs -> {"none", "alive", "term", "ok", "fail"}]
  BY <1>1a
<1>6. output \in [Runs -> Seq(Lines)] /\ nread \in [Runs -> Nat]
  BY <1>3 DEF Init
<1>7. \A r \in Runs : nread[r] <= Len(output[r])
  BY <1>3 DEF Init
<1>8. /\ status \in [Runs -> {"starting", "building", "running", "done", "error", "stopped"}]
      /\ cancel \subseteq Runs /\ interrupted \in BOOLEAN
      /\ main \in {"gather", "summary", "exited", "killed"} /\ exitCode \in {0, 1}
  BY DEF Init
<1> QED
  BY <1>2, <1>4, <1>5, <1>6, <1>7, <1>8 DEF TypeOK

LEMMA NextType == TypeOK /\ [Next]_vars => TypeOK'
<1> SUFFICES ASSUME TypeOK, [Next]_vars PROVE TypeOK'
  OBVIOUS
<1> USE DEF TypeOK, Holding, Ended
<1>1. ASSUME NEW r \in Runs, Acquire(r) PROVE TypeOK'
  BY <1>1 DEF Acquire
<1>1a. ASSUME NEW r \in Runs, SpawnFails(r) PROVE TypeOK'
  BY <1>1a DEF SpawnFails
<1>2. ASSUME NEW r \in Runs, Spawned(r) PROVE TypeOK'
  BY <1>2 DEF Spawned
<1>3. ASSUME NEW r \in Runs, ReadLine(r) PROVE TypeOK'
  <2>1. Len(output[r]) \in Nat
    BY <1>3
  <2> QED
    BY <1>3, <2>1 DEF ReadLine, Parsed
<1>4. ASSUME NEW r \in Runs, ReadTooLong(r) PROVE TypeOK'
  <2>1. Len(output[r]) \in Nat
    BY <1>4
  <2> QED
    BY <1>4, <2>1 DEF ReadTooLong, Leave
<1>5. ASSUME NEW r \in Runs, ReadEof(r) PROVE TypeOK'
  BY <1>5 DEF ReadEof
<1>6. ASSUME NEW r \in Runs, Waited(r) PROVE TypeOK'
  <2>1. PICK end \in {"done", "failed"} : Leave(r, end)
    BY <1>6 DEF Waited
  <2>2. /\ status' \in [Runs -> {"starting", "building", "running", "done", "error", "stopped"}]
        /\ UNCHANGED <<cancel, child, output, nread, interrupted, main, exitCode>>
    BY <1>6 DEF Waited
  <2>3. pc' = [pc EXCEPT ![r] = end] /\ sem' = sem + 1
    BY <2>1 DEF Leave
  <2>4. pc' \in [Runs -> {"acquire"} \cup Holding \cup Ended] /\ sem' \in Nat
    BY <2>3
  <2> QED
    BY <2>2, <2>4
<1>7. ASSUME NEW r \in Runs, CancelQueued(r) PROVE TypeOK'
  BY <1>7 DEF CancelQueued
<1>8. ASSUME NEW r \in Runs, CancelSpawn(r) PROVE TypeOK'
  BY <1>8 DEF CancelSpawn, Alive
<1>9. ASSUME NEW r \in Runs, Killed(r) PROVE TypeOK'
  BY <1>9 DEF Killed, Leave
<1>10. ASSUME NEW r \in Runs, CancelReading(r) PROVE TypeOK'
  <2>1. CASE Alive(r)
    BY <1>10, <2>1 DEF CancelReading
  <2>2. CASE ~Alive(r)
    BY <1>10, <2>2 DEF CancelReading, Leave
  <2> QED
    BY <2>1, <2>2
<1>11. ASSUME NEW r \in Runs, Stopped(r) PROVE TypeOK'
  BY <1>11 DEF Stopped, Leave
<1>12. ASSUME NEW r \in Runs, NEW line \in Lines, Write(r, line) PROVE TypeOK'
  <2>1. Append(output[r], line) \in Seq(Lines) /\ Len(Append(output[r], line)) = Len(output[r]) + 1
    BY <1>12
  <2>2. Len(output[r]) \in Nat
    BY <1>12
  <2> QED
    BY <1>12, <2>1, <2>2 DEF Write
<1>13. ASSUME NEW r \in Runs, Exit(r) PROVE TypeOK'
  BY <1>13 DEF Exit
<1>14. CASE HandleSignal
  BY <1>14 DEF HandleSignal
<1>15. CASE Gathered
  BY <1>15 DEF Gathered
<1>16. CASE Summary
  BY <1>16 DEF Summary
<1>17. CASE UNCHANGED vars
  BY <1>17 DEF vars
<1> QED
  BY <1>1, <1>1a, <1>2, <1>3, <1>4, <1>5, <1>6, <1>7, <1>8, <1>9, <1>10, <1>11, <1>12, <1>13,
     <1>14, <1>15, <1>16, <1>17 DEF Next, Task

\* Every variable keeps to its kind.
THEOREM TypeCorrect == Spec => []TypeOK
BY InitType, NextType, PTL DEF Spec

-----------------------------------------------------------------------------
(* The semaphore *)

LEMMA HoldersFinite == IsFiniteSet(Holders) /\ Cardinality(Holders) \in Nat
BY RunsAssumption, FS_Subset, FS_CardinalityType DEF Holders

LEMMA LeaveConserves ==
  ASSUME TypeOK, SemConserved, NEW r \in Runs, pc[r] \in Holding, NEW end \in Ended, Leave(r, end)
  PROVE  SemConserved'
<1>1. Holders' = Holders \ {r} /\ r \in Holders
  BY DEF Holders, Leave, TypeOK, Holding, Ended
<1>2. Cardinality(Holders \ {r}) = Cardinality(Holders) - 1
  BY <1>1, HoldersFinite, FS_RemoveElement
<1> QED
  BY <1>1, <1>2, HoldersFinite DEF SemConserved, Leave, TypeOK

LEMMA AcquireConserves ==
  ASSUME TypeOK, SemConserved, NEW r \in Runs, Acquire(r)
  PROVE  SemConserved'
<1>1. Holders' = Holders \cup {r} /\ r \notin Holders
  BY DEF Holders, Acquire, TypeOK, Holding
<1>2. Cardinality(Holders \cup {r}) = Cardinality(Holders) + 1
  BY <1>1, HoldersFinite, FS_AddElement
<1> QED
  BY <1>1, <1>2, HoldersFinite DEF SemConserved, Acquire, TypeOK

LEMMA InitConserves == Init => SemConserved
<1> SUFFICES ASSUME Init PROVE SemConserved
  OBVIOUS
<1>1. PICK failed \in SUBSET Runs : \E first \in SUBSET (Runs \ failed) :
        /\ pc = [r \in Runs |-> IF r \in first THEN "spawn"
                                ELSE IF r \in failed THEN "failed" ELSE "acquire"]
        /\ sem = Jobs - Cardinality(first)
  BY DEF Init
<1>1a. PICK first \in SUBSET (Runs \ failed) :
        /\ pc = [r \in Runs |-> IF r \in first THEN "spawn"
                                ELSE IF r \in failed THEN "failed" ELSE "acquire"]
        /\ sem = Jobs - Cardinality(first)
  BY <1>1
<1>2. Holders = first
  BY <1>1a DEF Holders, Holding
<1> QED
  BY <1>1a, <1>2, HoldersFinite, RunsAssumption DEF SemConserved

LEMMA NextConserves == TypeOK /\ SemConserved /\ [Next]_vars => SemConserved'
<1> SUFFICES ASSUME TypeOK, SemConserved, [Next]_vars PROVE SemConserved'
  OBVIOUS
<1>1. CASE sem' = sem /\ Holders' = Holders
  BY <1>1 DEF SemConserved
<1>2. ASSUME NEW r \in Runs, Task(r) PROVE SemConserved'
  <2>1. CASE Acquire(r)
    BY <2>1, AcquireConserves
  <2>1a. CASE SpawnFails(r)
    BY <2>1a, <1>1 DEF SpawnFails, Holders, Holding, TypeOK
  <2>2. CASE Spawned(r)
    BY <2>2, <1>1 DEF Spawned, Holders, Holding, TypeOK
  <2>3. CASE ReadLine(r)
    BY <2>3, <1>1 DEF ReadLine, Holders
  <2>4. CASE ReadTooLong(r)
    BY <2>4, LeaveConserves DEF ReadTooLong, Holding, Ended
  <2>5. CASE ReadEof(r)
    BY <2>5, <1>1 DEF ReadEof, Holders, Holding, TypeOK
  <2>6. CASE Waited(r)
    BY <2>6, LeaveConserves DEF Waited, Holding, Ended
  <2>7. CASE CancelQueued(r)
    BY <2>7, <1>1 DEF CancelQueued, Holders, Holding, TypeOK
  <2>8. CASE CancelSpawn(r)
    BY <2>8, <1>1 DEF CancelSpawn, Holders, Holding, TypeOK
  <2>9. CASE Killed(r)
    BY <2>9, LeaveConserves DEF Killed, Holding, Ended
  <2>10. CASE CancelReading(r) /\ Alive(r)
    BY <2>10, <1>1 DEF CancelReading, Holders, Holding, TypeOK
  <2>11. CASE CancelReading(r) /\ ~Alive(r)
    BY <2>11, LeaveConserves DEF CancelReading, Holding, Ended
  <2>12. CASE Stopped(r)
    BY <2>12, LeaveConserves DEF Stopped, Holding, Ended
  <2> QED
    BY <1>2, <2>1, <2>1a, <2>2, <2>3, <2>4, <2>5, <2>6, <2>7, <2>8, <2>9, <2>10, <2>11, <2>12 DEF Task
<1>3. ASSUME NEW r \in Runs, Exit(r) \/ \E line \in Lines : Write(r, line) PROVE SemConserved'
  BY <1>3, <1>1 DEF Exit, Write, Holders
<1>4. CASE HandleSignal \/ Gathered \/ Summary
  BY <1>4, <1>1 DEF HandleSignal, Gathered, Summary, Holders
<1>5. CASE UNCHANGED vars
  BY <1>5, <1>1 DEF vars, Holders
<1> QED
  BY <1>2, <1>3, <1>4, <1>5 DEF Next

\* Every permit taken is given back exactly once, also when a task fails or
\* is cancelled.
THEOREM SemaphoreIsConserved == Spec => []SemConserved
BY InitType, NextType, InitConserves, NextConserves, PTL DEF Spec

-----------------------------------------------------------------------------
(* Children and the end *)

\* Whoever has a child that may be alive is inside the semaphore, or a line
\* too long has cut it off.
HeldChildren ==
  \A r \in Runs : Alive(r) => pc[r] \in {"spawn", "killing", "read", "stopping"} \/ CutShort(r)
AfterGather   == main \in {"summary", "exited"} => \A r \in Runs : pc[r] \in Ended

Supervised == TypeOK /\ HeldChildren /\ AfterGather

LEMMA InitSupervised == Init => Supervised
BY InitType DEF Init, Supervised, HeldChildren, AfterGather, Alive

LEMMA NextSupervised ==
  ASSUME Supervised, [Next]_vars PROVE Supervised'
<1> USE DEF Supervised, HeldChildren, AfterGather, TypeOK, Holding, Ended, Alive, Running, CutShort
<1>1. TypeOK'
  BY NextType
<1>2. ASSUME NEW r \in Runs, Task(r) PROVE HeldChildren' /\ AfterGather'
  <2>1. CASE Acquire(r)
    BY <2>1 DEF Acquire
  <2>1a. CASE SpawnFails(r)
    BY <2>1a DEF SpawnFails
  <2>2. CASE Spawned(r)
    BY <2>2 DEF Spawned
  <2>3. CASE ReadLine(r)
    BY <2>3 DEF ReadLine
  <2>4. CASE ReadTooLong(r)
    <3>1. /\ pc' = [pc EXCEPT ![r] = "failed"] /\ nread' = [nread EXCEPT ![r] = @ + 1]
          /\ output[r][nread[r] + 1] = "long" /\ UNCHANGED <<child, output, main>>
          /\ main \in {"gather", "summary"} /\ pc[r] = "read"
      BY <2>4 DEF ReadTooLong, Leave, NextLine
    <3>2. CutShort(r)'
      BY <3>1
    <3>3. ASSUME NEW s \in Runs, s # r, Alive(s)'
          PROVE  pc'[s] \in {"spawn", "killing", "read", "stopping"} \/ CutShort(s)'
      BY <3>1, <3>3
    <3> QED
      BY <3>1, <3>2, <3>3
  <2>5. CASE ReadEof(r)
    BY <2>5 DEF ReadEof
  <2>6. CASE Waited(r)
    <3>1. PICK end \in {"done", "failed"} : Leave(r, end)
      BY <2>6 DEF Waited
    <3>2. ~Alive(r) /\ main = "gather" /\ UNCHANGED <<child, output, nread, main>>
      BY <2>6 DEF Waited
    <3> QED
      BY <3>1, <3>2 DEF Leave
  <2>7. CASE CancelQueued(r)
    BY <2>7 DEF CancelQueued
  <2>8. CASE CancelSpawn(r)
    BY <2>8 DEF CancelSpawn
  <2>9. CASE Killed(r)
    BY <2>9 DEF Killed, Leave
  <2>10. CASE CancelReading(r) /\ Alive(r)
    <3>1. /\ pc' = [pc EXCEPT ![r] = "stopping"]
          /\ \A s \in Runs \ {r} : child'[s] = child[s]
          /\ UNCHANGED <<output, nread, main>> /\ main = "gather"
      <4>1. PICK c : child' = [child EXCEPT ![r] = c]
        BY <2>10 DEF CancelReading
      <4>2. /\ pc' = [pc EXCEPT ![r] = "stopping"] /\ pc[r] \in {"read", "wait"}
            /\ UNCHANGED <<output, nread, main>> /\ main \in {"gather", "summary"}
        BY <2>10 DEF CancelReading
      <4>3. main = "gather"
        BY <4>2
      <4>4. \A s \in Runs \ {r} : child'[s] = child[s]
        BY <4>1
      <4> QED
        BY <4>2, <4>3, <4>4
    <3> QED
      BY <3>1
  <2>11. CASE CancelReading(r) /\ ~Alive(r)
    <3>1. /\ pc' = [pc EXCEPT ![r] = "done"] /\ child' = child
          /\ UNCHANGED <<output, nread, main>> /\ main = "gather"
      BY <2>11 DEF CancelReading, Leave
    <3> QED
      BY <2>11, <3>1
  <2>12. CASE Stopped(r)
    BY <2>12 DEF Stopped, Leave
  <2> QED
    BY <1>2, <2>1, <2>1a, <2>2, <2>3, <2>4, <2>5, <2>6, <2>7, <2>8, <2>9, <2>10, <2>11, <2>12 DEF Task
<1>3. ASSUME NEW r \in Runs, Exit(r) PROVE HeldChildren' /\ AfterGather'
  BY <1>3 DEF Exit
<1>4. ASSUME NEW r \in Runs, NEW line \in Lines, Write(r, line)
      PROVE  HeldChildren' /\ AfterGather'
  BY <1>4 DEF Write
<1>5. CASE HandleSignal
  <2>1. /\ UNCHANGED <<pc, child, output, nread>>
        /\ main' = main \/ main' = "killed"
    BY <1>5 DEF HandleSignal
  <2>2. HeldChildren'
    BY <2>1
  <2>3. AfterGather'
    BY <2>1
  <2> QED
    BY <1>1, <2>2, <2>3
<1>6. CASE Gathered \/ Summary
  BY <1>6 DEF Gathered, Summary
<1>7. CASE UNCHANGED vars
  BY <1>7 DEF vars
<1> QED
  BY <1>1, <1>2, <1>3, <1>4, <1>5, <1>6, <1>7 DEF Next

LEMMA SupervisedBound == Supervised /\ SemConserved => WatchedBound
<1> SUFFICES ASSUME Supervised, SemConserved PROVE WatchedBound
  OBVIOUS
<1>1. {r \in Runs : Alive(r) /\ ~CutShort(r)} \subseteq Holders
  BY DEF Supervised, HeldChildren, Holders, Holding
<1>2. Cardinality({r \in Runs : Alive(r) /\ ~CutShort(r)}) <= Cardinality(Holders)
  BY <1>1, HoldersFinite, FS_Subset
<1>3. Cardinality({r \in Runs : Alive(r) /\ ~CutShort(r)}) \in Nat
  BY <1>1, HoldersFinite, FS_Subset, FS_CardinalityType
<1> QED
  BY <1>2, <1>3, HoldersFinite, RunsAssumption DEF WatchedBound, SemConserved, Supervised, TypeOK

\* At most Jobs children are alive at any time but for those that a line too
\* long has cut off, whatever is interrupted and whichever process cannot be
\* created (fuzz_manager.py:239-251 and 406).
THEOREM JobsAreBounded == Spec => []WatchedBound
<1>1. Supervised /\ SemConserved /\ [Next]_vars => (Supervised /\ SemConserved)'
  BY NextSupervised, NextConserves DEF Supervised
<1>2. Init => Supervised /\ SemConserved
  BY InitSupervised, InitConserves
<1> QED
  BY <1>1, <1>2, SupervisedBound, PTL DEF Spec

\* No child outlives a manager that returned, but for those that a line too
\* long has cut off (fuzz_manager.py:258-263 and 433).
THEOREM ChildrenEndFirst == Spec => []NoOrphans
<1>1. Supervised /\ [Next]_vars => Supervised'
  BY NextSupervised
<1>2. Supervised => NoOrphans
  BY DEF Supervised, HeldChildren, AfterGather, NoOrphans, Ended
<1> QED
  BY <1>1, <1>2, InitSupervised, PTL DEF Spec

-----------------------------------------------------------------------------
(* What exit code 0 says *)

\* The first n lines of r announced the end, and no statistics after it.
DoneBy(r, n) ==
  \E i \in 1..n : output[r][i] = "done" /\ \A j \in (i + 1)..n : output[r][j] = "text"

\* The record of one run, while nobody has interrupted the manager.
Recorded(r) ==
  /\ pc[r] \in {"acquire", "spawn", "read", "wait", "done", "failed"} /\ child[r] # "term"
  /\ pc[r] \in {"acquire", "spawn"} => status[r] = "starting"
  /\ pc[r] \in {"read", "wait"} =>
       /\ status[r] \in {"starting", "building", "running", "done"}
       /\ status[r] = "done" => DoneBy(r, nread[r])
  /\ pc[r] = "acquire" => child[r] = "none"
  /\ pc[r] \in {"spawn", "read"} => child[r] # "none"
  /\ pc[r] \in {"wait", "done"} => child[r] \in {"ok", "fail"} /\ nread[r] = Len(output[r])
  /\ pc[r] = "done" => /\ status[r] \in {"done", "error"}
                       /\ status[r] = "done" /\ child[r] = "fail" => DoneBy(r, nread[r])
  /\ pc[r] = "failed" => NeverStarted(r) \/ CutShort(r) \/ status[r] = "error"

ExitTold == main = "exited" /\ exitCode = 0 => \A r \in Runs : status[r] # "error"

Books == ~interrupted => cancel = {} /\ \A r \in Runs : Recorded(r)

BooksInv == Supervised /\ Books /\ ExitTold

LEMMA InitBooks == Init => BooksInv
<1> SUFFICES ASSUME Init PROVE BooksInv
  OBVIOUS
<1>1. Supervised
  BY InitSupervised
<1>2. ExitTold /\ cancel = {}
  BY DEF Init, ExitTold
<1>3. ASSUME NEW r \in Runs PROVE Recorded(r)
  BY DEF Init, Recorded, NeverStarted
<1> QED
  BY <1>1, <1>2, <1>3 DEF BooksInv, Books

LEMMA OthersUntouched ==
  ASSUME NEW s \in Runs, Recorded(s), pc'[s] = pc[s], status'[s] = status[s],
         child'[s] = child[s], output'[s] = output[s], nread'[s] = nread[s]
  PROVE  Recorded(s)'
BY DEF Recorded, DoneBy, NeverStarted, CutShort

LEMMA ReadKeepsRecord ==
  ASSUME TypeOK, NEW r \in Runs, Recorded(r), ReadLine(r)
  PROVE  Recorded(r)'
<1> DEFINE n == nread[r]
<1>1. /\ n \in Nat /\ n' = n + 1 /\ output' = output /\ child' = child /\ pc' = pc /\ pc[r] = "read"
      /\ status'[r] = Parsed(output[r][n + 1], status[r])
      /\ n + 1 <= Len(output[r]) /\ output[r] \in Seq(Lines) /\ output[r][n + 1] # "long"
  BY DEF ReadLine, TypeOK, NextLine
<1>2. output[r][n + 1] \in {"build", "stat", "done", "text"}
  <2>1. n + 1 \in 1..Len(output[r])
    BY <1>1
  <2>2. output[r][n + 1] \in Lines
    BY <1>1, <2>1
  <2> QED
    BY <1>1, <2>2, RunsAssumption
<1>3. status'[r] \in {"starting", "building", "running", "done"}
  BY <1>1, <1>2 DEF Parsed, Recorded
<1>4. ASSUME status'[r] = "done" PROVE DoneBy(r, n)'
  <2>1. CASE output[r][n + 1] = "done"
    <3>1. n + 1 \in 1..(n + 1) /\ \A j \in ((n + 1) + 1)..(n + 1) : output[r][j] = "text"
      BY <1>1
    <3> QED
      BY <1>1, <2>1, <3>1 DEF DoneBy
  <2>2. CASE output[r][n + 1] = "text" /\ status[r] = "done"
    <3>1. PICK i \in 1..n : output[r][i] = "done" /\ \A j \in (i + 1)..n : output[r][j] = "text"
      BY <1>1, <2>2 DEF Recorded, DoneBy
    <3>2. \A j \in (i + 1)..(n + 1) : output[r][j] = "text"
      BY <1>1, <2>2, <3>1
    <3>3. i \in 1..(n + 1)
      BY <1>1
    <3> QED
      BY <1>1, <3>1, <3>2, <3>3 DEF DoneBy
  <2> QED
    BY <1>1, <1>2, <1>4, <2>1, <2>2 DEF Parsed
<1> QED
  BY <1>1, <1>3, <1>4 DEF Recorded

LEMMA WriteKeepsRecord ==
  ASSUME TypeOK, NEW r \in Runs, Recorded(r), NEW line \in Lines, Write(r, line)
  PROVE  Recorded(r)'
<1>1. /\ output'[r] = Append(output[r], line) /\ nread' = nread /\ status' = status
      /\ child' = child /\ pc' = pc /\ child[r] = "alive" /\ pc[r] \in {"spawn", "read"}
      /\ nread[r] \in Nat /\ nread[r] <= Len(output[r]) /\ output[r] \in Seq(Lines)
  BY DEF Write, TypeOK
<1>2. \A i \in 1..nread[r] : output'[r][i] = output[r][i]
  BY <1>1
<1>3. DoneBy(r, nread[r]) => DoneBy(r, nread[r])'
  BY <1>1, <1>2 DEF DoneBy
<1> QED
  BY <1>1, <1>3 DEF Recorded

LEMMA TaskKeepsRecord ==
  ASSUME Supervised, ~interrupted, cancel = {}, NEW r \in Runs, Recorded(r), Task(r)
  PROVE  cancel' = {} /\ Recorded(r)'
<1> USE DEF Supervised, TypeOK, Alive
<1>1. CASE Acquire(r)
  BY <1>1 DEF Acquire, Recorded
<1>1a. CASE SpawnFails(r)
  BY <1>1a DEF SpawnFails, Recorded, NeverStarted
<1>2. CASE Spawned(r)
  BY <1>2 DEF Spawned, Recorded
<1>3. CASE ReadLine(r)
  BY <1>3, ReadKeepsRecord DEF ReadLine
<1>4. CASE ReadTooLong(r)
  <2>1. pc'[r] = "failed" /\ CutShort(r)' /\ cancel' = {} /\ child'[r] # "term"
    BY <1>4 DEF ReadTooLong, Leave, NextLine, CutShort, Recorded
  <2> QED
    BY <2>1 DEF Recorded
<1>5. CASE ReadEof(r)
  BY <1>5 DEF ReadEof, Recorded, DoneBy
<1>6. CASE Waited(r)
  BY <1>6 DEF Waited, Leave, Recorded, DoneBy
<1>7. CASE CancelQueued(r) \/ CancelSpawn(r) \/ CancelReading(r)
  BY <1>7 DEF CancelQueued, CancelSpawn, CancelReading
<1>8. CASE Killed(r) \/ Stopped(r)
  BY <1>8 DEF Killed, Stopped, Recorded
<1> QED
  BY <1>1, <1>1a, <1>2, <1>3, <1>4, <1>5, <1>6, <1>7, <1>8 DEF Task

LEMMA TaskTouchesOne ==
  ASSUME TypeOK, NEW r \in Runs, Task(r), NEW s \in Runs, s # r
  PROVE  /\ pc'[s] = pc[s] /\ status'[s] = status[s] /\ child'[s] = child[s]
         /\ output'[s] = output[s] /\ nread'[s] = nread[s]
BY DEF Task, TypeOK, Acquire, SpawnFails, Spawned, ReadLine, ReadTooLong, ReadEof, Waited, CancelQueued,
   CancelSpawn, Killed, CancelReading, Stopped, Leave

LEMMA TaskTouchesNoMain ==
  ASSUME NEW r \in Runs, Task(r)
  PROVE  Running /\ UNCHANGED <<interrupted, main, exitCode, output>>
BY DEF Task, Acquire, SpawnFails, Spawned, ReadLine, ReadTooLong, ReadEof, Waited, CancelQueued,
   CancelSpawn, Killed, CancelReading, Stopped, Leave

LEMMA NextBooks ==
  ASSUME BooksInv, [Next]_vars PROVE BooksInv'
<1> USE DEF BooksInv, Supervised, TypeOK
<1>1. Supervised'
  BY NextSupervised
<1>2. ASSUME NEW r \in Runs, Task(r) PROVE Books' /\ ExitTold'
  <2>1. ExitTold'
    BY <1>2, TaskTouchesNoMain DEF ExitTold, Running
  <2>2. ASSUME ~interrupted' PROVE cancel' = {} /\ \A s \in Runs : Recorded(s)'
    <3>1. ~interrupted /\ cancel = {} /\ \A s \in Runs : Recorded(s)
      BY <1>2, <2>2, TaskTouchesNoMain DEF Books
    <3>2. cancel' = {} /\ Recorded(r)'
      BY <1>2, <3>1, TaskKeepsRecord
    <3>3. ASSUME NEW s \in Runs, s # r PROVE Recorded(s)'
      BY <1>2, <3>1, <3>3, TaskTouchesOne, OthersUntouched
    <3> QED
      BY <3>2, <3>3
  <2> QED
    BY <2>1, <2>2 DEF Books
<1>3. ASSUME NEW r \in Runs, Exit(r) PROVE Books' /\ ExitTold'
  <2>1. UNCHANGED <<pc, status, cancel, output, nread, interrupted, main, exitCode>>
        /\ child[r] \in {"alive", "term"} /\ child'[r] \in {"ok", "fail"}
        /\ \A s \in Runs \ {r} : child'[s] = child[s]
    BY <1>3 DEF Exit, Alive
  <2>2. ASSUME Recorded(r) PROVE Recorded(r)'
    BY <2>1, <2>2 DEF Recorded, DoneBy, NeverStarted, CutShort
  <2>3. ASSUME NEW s \in Runs, s # r, Recorded(s) PROVE Recorded(s)'
    BY <2>1, <2>3, OthersUntouched
  <2> QED
    BY <2>1, <2>2, <2>3 DEF Books, ExitTold
<1>4. ASSUME NEW r \in Runs, NEW line \in Lines, Write(r, line) PROVE Books' /\ ExitTold'
  <2>1. UNCHANGED <<pc, status, cancel, child, nread, interrupted, main, exitCode>>
        /\ \A s \in Runs \ {r} : output'[s] = output[s]
    BY <1>4 DEF Write
  <2>2. ASSUME NEW s \in Runs, s # r, Recorded(s) PROVE Recorded(s)'
    BY <2>1, <2>2, OthersUntouched
  <2> QED
    BY <1>4, <2>1, <2>2, WriteKeepsRecord DEF Books, ExitTold
<1>5. ASSUME UNCHANGED <<pc, status, child, output, nread>>, NEW s \in Runs, Recorded(s)
      PROVE  Recorded(s)'
  BY <1>5, OthersUntouched
<1>6. CASE HandleSignal
  <2>1. ~interrupted' => FALSE
    BY <1>6 DEF HandleSignal
  <2>2. ExitTold'
    BY <1>6 DEF HandleSignal, ExitTold, Running
  <2> QED
    BY <1>1, <2>1, <2>2 DEF Books
<1>7. CASE Gathered \/ Summary \/ UNCHANGED vars
  <2>1. UNCHANGED <<pc, status, child, output, nread, cancel, interrupted>>
    BY <1>7 DEF Gathered, Summary, vars
  <2>2. Books'
    BY <1>5, <2>1 DEF Books
  <2>3. ExitTold'
    BY <1>7 DEF Gathered, Summary, vars, ExitTold
  <2> QED
    BY <1>1, <2>2, <2>3
<1> QED
  BY <1>1, <1>2, <1>3, <1>4, <1>5, <1>6, <1>7 DEF Next

\* Exit code 0 of a manager that was not interrupted says that every run
\* ended, was read to its end and succeeded or announced its end; or its
\* process could not be created, which the code alone does not tell; or a
\* line too long cut it off (fuzz_manager.py:239-271, 433 and 447-453).
THEOREM ExitCodeSays == Spec => []AllClear
<1>1. BooksInv /\ [Next]_vars => BooksInv'
  BY NextBooks
<1>2. ASSUME BooksInv PROVE AllClear
  <2> SUFFICES ASSUME main = "exited", exitCode = 0, ~interrupted, NEW r \in Runs
               PROVE  EndedWell(r) \/ NeverStarted(r) \/ CutShort(r)
    BY DEF AllClear
  <2>1. pc[r] \in Ended /\ Recorded(r) /\ status[r] # "error"
    BY <1>2 DEF BooksInv, Supervised, AfterGather, Books, ExitTold
  <2>2. CASE pc[r] = "failed"
    BY <2>1, <2>2 DEF Recorded
  <2>3. CASE pc[r] = "done"
    BY <2>1, <2>3 DEF Recorded, DoneBy, SaidDone, EndedWell
  <2> QED
    BY <2>1, <2>2, <2>3 DEF Recorded, Ended
<1> QED
  BY <1>1, <1>2, InitBooks, PTL DEF Spec

=============================================================================
