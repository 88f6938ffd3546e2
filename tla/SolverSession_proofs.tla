------------------------- MODULE SolverSession_proofs -------------------------
(* An answer of the solver session is the answer to its query, for every number *)
(* of queries, every capacity of the pipes and a solver that may die at any     *)
(* moment. The properties are not inductive: what is read now was printed       *)
(* earlier, on commands written before that. The invariant follows the commands *)
(* on their way to the solver and the lines on their way back.                  *)
EXTENDS SolverSession, FiniteSetTheorems, TLAPS

\* The operation of the command that is the d-th last one of a query for the
\* solver; before them only resets can be on their way.
OpAt(d) == CASE d = 1 -> "check" [] d = 2 -> "assert" [] d = 3 -> "declare"
             [] d = 4 -> "option" [] OTHER -> "reset"
Left == Len(inPipe) + Len(todo)

InOrder ==
  /\ \A i \in 1..Len(todo) : todo[i] = <<OpAt(Len(todo) - i + 1), Now>>
  /\ \A i \in 1..Len(inPipe) :
       /\ inPipe[i][1] = OpAt(Left - i + 1)
       /\ inPipe[i][1] # "reset" => inPipe[i][2] = Now
OnlyResets == \A i \in 1..Len(inPipe) : inPipe[i][1] = "reset"
Quiet == outPipe = <<>> /\ printing = <<>>
OneError ==
  /\ Len(outPipe) + Len(printing) <= 1
  /\ \A i \in 1..Len(outPipe) : outPipe[i][1] = "error"
  /\ \A i \in 1..Len(printing) : printing[i][1] = "error"
  /\ solver = "running" => Quiet

\* The i-th line of a model of query n.
ModelLine(i, n) == <<IF i = 1 THEN "(" ELSE IF i = Definitions + 2 THEN ")" ELSE "define-fun", n>>

\* Between queries.
Resting ==
  /\ todo = <<>> /\ Len(results) = Now
  /\ Quiet /\ OnlyResets
  /\ got = <<>> \/ got = Model(Now)
\* A query that is answered without the solver.
AskingNothing ==
  /\ pc = "emit" /\ asked[Now].asserts \in {"false", "true"}
  /\ todo = <<<<"reset", Now>>>> /\ Quiet /\ OnlyResets /\ got = <<>>
\* A query of which the solver has not obeyed check-sat yet.
Encoding ==
  /\ pc = IF todo = <<>> THEN "answer" ELSE "emit"
  /\ asked[Now].asserts \in {"unsat", "sat"} /\ got = <<>>
  /\ Left >= 1 /\ InOrder /\ OneError
  /\ solver = "running" /\ Left <= 4 => context = IF Left = 1 THEN {Now} ELSE {}
\* The solver has obeyed check-sat and the answer is on its way.
Checked ==
  /\ pc = "answer" /\ asked[Now].asserts \in {"unsat", "sat"} /\ got = <<>>
  /\ Left = 0
  /\ Len(outPipe) + Len(printing) <= 1
  /\ \A i \in 1..Len(outPipe) : outPipe[i][1] \in {"unknown", asked[Now].asserts}
  /\ \A i \in 1..Len(printing) : printing[i][1] \in {"unknown", asked[Now].asserts}
  /\ solver = "running" => context = {Now}
\* The answer was sat, and the solver has not obeyed get-model yet.
WantingModel ==
  /\ pc = IF todo = <<>> THEN "open" ELSE "emit"
  /\ asked[Now].asserts = "sat" /\ got = <<>>
  /\ Left = 1 /\ Quiet
  /\ \A i \in 1..Len(todo) : todo[i] = <<"model", Now>>
  /\ \A i \in 1..Len(inPipe) : inPipe[i] = <<"model", Now>>
  /\ solver = "running" => context = {Now}
\* The solver has no model.
NoModel == pc = "open" /\ Left = 0 /\ OneError /\ got = <<>> /\ solver # "running"
\* The model is on its way, or was when the solver died.
Reading ==
  /\ pc = IF got = <<>> THEN "open" ELSE "model"
  /\ asked[Now].asserts = "sat" /\ Left = 0
  /\ Len(got) + Len(outPipe) + Len(printing) = Definitions + 2
  /\ \A i \in 1..Len(got) : got[i] = ModelLine(i, Now)
  /\ \A i \in 1..Len(outPipe) : outPipe[i] = ModelLine(Len(got) + i, Now)
  /\ \A i \in 1..Len(printing) : printing[i] = ModelLine(Len(got) + Len(outPipe) + i, Now)
\* No more queries.
Ending ==
  /\ todo = <<>> /\ Len(results) = Now
  /\ solver = "running" => \A i \in 1..Len(inPipe) : inPipe[i][1] # "model"

Numbered == \A i \in 1..Len(inPipe) : inPipe[i][1] # "exit" => inPipe[i][2] \in 1..Now
UnderWay == pc \in {"emit", "answer", "open", "model"}

SessionInv ==
  /\ TypeOK /\ AnswersRight /\ Numbered
  /\ pc = "idle" => Resting
  /\ UnderWay => /\ Now >= 1 /\ Len(results) = Now - 1
                 /\ AskingNothing \/ Encoding \/ Checked \/ WantingModel \/ NoModel \/ Reading
  /\ pc \in {"cleanup", "wait", "closed"} => Ending

USE SessionAssumption

-------------------------------------------------------------------------------
\* Sequences by their elements.
LEMMA Appended ==
  ASSUME NEW S, NEW s \in Seq(S), NEW e \in S
  PROVE  /\ Append(s, e) \in Seq(S) /\ Len(Append(s, e)) = Len(s) + 1
         /\ \A i \in 1..Len(s) + 1 : Append(s, e)[i] = IF i = Len(s) + 1 THEN e ELSE s[i]
  OBVIOUS

LEMMA Rest ==
  ASSUME NEW S, NEW s \in Seq(S), s # <<>>
  PROVE  /\ Tail(s) \in Seq(S) /\ Len(Tail(s)) = Len(s) - 1 /\ Len(s) \in Nat /\ Len(s) >= 1
         /\ \A i \in 1..Len(s) - 1 : Tail(s)[i] = s[i + 1]
         /\ Head(s) = s[1] /\ Head(s) \in S
  OBVIOUS

LEMMA Empty == ASSUME NEW S, NEW s \in Seq(S) PROVE Len(s) \in Nat /\ (s = <<>> <=> Len(s) = 0)
  OBVIOUS

LEMMA Joined ==
  ASSUME NEW S, NEW s \in Seq(S), NEW t \in Seq(S)
  PROVE  /\ s \o t \in Seq(S) /\ Len(s \o t) = Len(s) + Len(t)
         /\ \A i \in 1..Len(s) + Len(t) :
              (s \o t)[i] = IF i <= Len(s) THEN s[i] ELSE t[i - Len(s)]
  OBVIOUS

LEMMA Models ==
  ASSUME NEW n \in 0..MaxQueries
  PROVE  /\ Model(n) \in Seq(Prints) /\ Len(Model(n)) = Definitions + 2
         /\ \A i \in 1..Definitions + 2 : Model(n)[i] = ModelLine(i, n)
<1> DEFINE first == <<<<"(", n>>>>
           middle == [i \in 1..Definitions |-> <<"define-fun", n>>]
           last == <<<<")", n>>>>
<1>1. first \in Seq(Prints) /\ middle \in Seq(Prints) /\ last \in Seq(Prints)
      /\ Len(first) = 1 /\ Len(middle) = Definitions /\ Len(last) = 1
      /\ first[1] = <<"(", n>> /\ last[1] = <<")", n>>
      /\ \A i \in 1..Definitions : middle[i] = <<"define-fun", n>>
  BY DEF Prints
<1>2. Model(n) = first \o middle \o last
  BY DEF Model
<1> HIDE DEF first, middle, last
<1> DEFINE start == first \o middle
<1>3. /\ start \in Seq(Prints) /\ Len(start) = Len(first) + Len(middle)
      /\ \A i \in 1..Len(first) + Len(middle) :
           start[i] = IF i <= Len(first) THEN first[i] ELSE middle[i - Len(first)]
  BY <1>1, Joined, Zenon
<1> HIDE DEF start
<1>4. start \in Seq(Prints) /\ Len(start) = Definitions + 1
      /\ \A i \in 1..Definitions + 1 : start[i] = IF i = 1 THEN <<"(", n>> ELSE <<"define-fun", n>>
  <2>1. Len(start) = Definitions + 1
    BY <1>1, <1>3
  <2>2. ASSUME NEW i \in 1..Definitions + 1
        PROVE  start[i] = IF i = 1 THEN <<"(", n>> ELSE <<"define-fun", n>>
    <3>1. CASE i = 1
      BY <1>1, <1>3, <3>1
    <3>2. CASE i # 1
      <4>1. i \in 1..Len(first) + Len(middle) /\ ~(i <= Len(first)) /\ i - Len(first) \in 1..Definitions
        BY <1>1, <3>2
      <4>2. start[i] = middle[i - Len(first)]
        BY <1>3, <4>1
      <4> QED BY <1>1, <3>2, <4>1, <4>2
    <3> QED BY <3>1, <3>2
  <2> QED BY <1>3, <2>1, <2>2
<1> DEFINE whole == start \o last
<1>5. /\ whole \in Seq(Prints) /\ Len(whole) = Len(start) + Len(last)
      /\ \A i \in 1..Len(start) + Len(last) :
           whole[i] = IF i <= Len(start) THEN start[i] ELSE last[i - Len(start)]
  BY <1>1, <1>4, Joined, Zenon
<1>6. Model(n) = whole
  BY <1>2 DEF start
<1> HIDE DEF whole
<1>7. Len(whole) = Definitions + 2
  BY <1>1, <1>4, <1>5
<1>8. ASSUME NEW i \in 1..Definitions + 2 PROVE whole[i] = ModelLine(i, n)
  <2>1. CASE i = Definitions + 2
    BY <1>1, <1>4, <1>5, <2>1 DEF ModelLine
  <2>2. CASE i # Definitions + 2
    <3>1. whole[i] = start[i] /\ i \in 1..Definitions + 1
      BY <1>1, <1>4, <1>5, <2>2
    <3> QED BY <1>4, <2>2, <3>1 DEF ModelLine
  <2> QED BY <2>1, <2>2
<1> QED BY <1>5, <1>6, <1>7, <1>8

-------------------------------------------------------------------------------
\* What a query returns is the last result, and the other results stay right.
LEMMA Returned ==
  ASSUME TypeOK, AnswersRight, Now >= 1, Len(results) = Now - 1, asked' = asked,
         NEW r \in {"unsat", "sat", "cex", "error"}, results' = Append(results, r),
         r = "unsat" => asked[Now].asserts \in {"false", "unsat"},
         r \in {"sat", "cex"} => asked[Now].asserts \in {"true", "sat"}
  PROVE  /\ AnswersRight' /\ Len(results') = Now'
         /\ results' \in Seq({"unsat", "sat", "cex", "error"})
<1>1. results \in Seq({"unsat", "sat", "cex", "error"}) /\ Now \in Nat /\ Now' = Now
  BY DEF TypeOK, Now
<1>2. /\ results' \in Seq({"unsat", "sat", "cex", "error"}) /\ Len(results') = Now
      /\ \A i \in 1..Now : results'[i] = IF i = Now THEN r ELSE results[i]
  BY <1>1, Appended
<1>3. ASSUME NEW i \in DOMAIN results'
      PROVE  /\ results'[i] = "unsat" => asked[i].asserts \in {"false", "unsat"}
             /\ results'[i] \in {"sat", "cex"} => asked[i].asserts \in {"true", "sat"}
  <2>1. i \in 1..Now
    BY <1>2
  <2>2. CASE i = Now
    BY <1>2, <2>1, <2>2
  <2>3. CASE i # Now
    BY <1>1, <1>2, <2>1, <2>3 DEF AnswersRight
  <2> QED BY <2>2, <2>3
<1> QED BY <1>1, <1>2, <1>3 DEF AnswersRight

LEMMA Written ==
  ASSUME NEW n \in 1..MaxQueries
  PROVE  LET script == Append(Encode(n), <<"check", n>>)
         IN  /\ script \in Seq(Commands) /\ Len(script) = 5
             /\ \A i \in 1..5 : script[i] = <<OpAt(5 - i + 1), n>>
<1>1. /\ Encode(n) \in Seq(Commands) /\ <<"check", n>> \in Commands
      /\ Len(Encode(n)) = 4 /\ Encode(n)[1] = <<"reset", n>> /\ Encode(n)[2] = <<"option", n>>
      /\ Encode(n)[3] = <<"declare", n>> /\ Encode(n)[4] = <<"assert", n>>
  BY DEF Encode, Commands
<1> DEFINE script == Append(Encode(n), <<"check", n>>)
<1>2. /\ script \in Seq(Commands) /\ Len(script) = 5
      /\ \A i \in 1..5 : script[i] = IF i = 5 THEN <<"check", n>> ELSE Encode(n)[i]
  <2> DEFINE encoded == Encode(n)
             check == <<"check", n>>
  <2>1. encoded \in Seq(Commands) /\ check \in Commands
    BY <1>1
  <2> HIDE DEF encoded, check
  <2>2. /\ Append(encoded, check) \in Seq(Commands) /\ Len(Append(encoded, check)) = Len(encoded) + 1
        /\ \A i \in 1..Len(encoded) + 1 :
             Append(encoded, check)[i] = IF i = Len(encoded) + 1 THEN check ELSE encoded[i]
    BY <2>1, Appended
  <2> QED BY <1>1, <2>2 DEF encoded, check
<1> HIDE DEF script
<1>3. ASSUME NEW i \in 1..5 PROVE script[i] = <<OpAt(5 - i + 1), n>>
  <2>1. i = 1 \/ i = 2 \/ i = 3 \/ i = 4 \/ i = 5
    OBVIOUS
  <2>2. /\ OpAt(1) = "check" /\ OpAt(2) = "assert" /\ OpAt(3) = "declare"
        /\ OpAt(4) = "option" /\ OpAt(5) = "reset"
    BY DEF OpAt
  <2>3. /\ script[1] = <<"reset", n>> /\ script[2] = <<"option", n>> /\ script[3] = <<"declare", n>>
        /\ script[4] = <<"assert", n>> /\ script[5] = <<"check", n>>
    BY <1>1, <1>2
  <2> QED BY <2>1, <2>2, <2>3
<1> QED BY <1>2, <1>3 DEF script

LEMMA SessionInitial == Init => SessionInv
<1> SUFFICES ASSUME Init PROVE SessionInv
  OBVIOUS
<1>1. TypeOK /\ Now = 0
  <2>1. Now = 0
    BY DEF Init, Now
  <2>2. /\ asked \in Seq(Queries) /\ results \in Seq({"unsat", "sat", "cex", "error"})
        /\ todo \in Seq(Commands) /\ inPipe \in Seq(Commands) /\ Len(inPipe) = 0
        /\ got \in Seq(Prints) /\ printing \in Seq(Prints)
        /\ outPipe \in Seq(Prints) /\ Len(outPipe) = 0
    BY DEF Init
  <2>3. Now <= MaxQueries /\ Len(inPipe) <= InCap /\ Len(outPipe) <= OutCap
    BY <2>1, <2>2
  <2>4. /\ pc = "idle" /\ solver = "running" /\ context \subseteq 1..Now
        /\ produce \in BOOLEAN /\ verdict = "none"
    BY DEF Init
  <2> QED BY <2>1, <2>2, <2>3, <2>4 DEF TypeOK
<1>2. Resting /\ AnswersRight /\ Numbered
  BY <1>1 DEF Init, Resting, Quiet, OnlyResets, AnswersRight, Numbered
<1> QED BY <1>1, <1>2 DEF SessionInv, UnderWay, Init

LEMMA AskStep ==
  ASSUME SessionInv, NEW q \in Queries, Ask(q) PROVE SessionInv'
<1>1. /\ TypeOK /\ AnswersRight /\ Numbered /\ Resting /\ pc' = "emit" /\ got' = <<>>
      /\ asked' = Append(asked, q) /\ Now < MaxQueries
      /\ UNCHANGED <<results, process, inPipe, outPipe>>
  BY DEF SessionInv, Ask
<1>2. /\ Now \in Nat /\ Now' = Now + 1 /\ asked' \in Seq(Queries) /\ asked'[Now'] = q
      /\ \A i \in 1..Now : asked'[i] = asked[i]
  <2>1. asked \in Seq(Queries) /\ Now = Len(asked) /\ Now' = Len(asked')
    BY <1>1 DEF TypeOK, Now
  <2> QED BY <1>1, <2>1, Appended
<1>3. Now' \in 1..MaxQueries /\ Now' - 1 = Now
  BY <1>1, <1>2
<1>4. todo' \in Seq(Commands) /\ (AskingNothing \/ Encoding)'
  <2>1. CASE q.asserts \in {"true", "false"}
    <3>1. todo' = <<<<"reset", Now'>>>>
      BY <1>2, <2>1 DEF Ask
    <3>2. AskingNothing'
      BY <1>1, <1>2, <2>1, <3>1 DEF AskingNothing, Resting, Quiet, OnlyResets, process
    <3> QED BY <1>3, <3>1, <3>2 DEF Commands
  <2>2. CASE q.asserts \notin {"true", "false"}
    <3>1. todo' = Append(Encode(Now'), <<"check", Now'>>)
      BY <1>2, <2>2 DEF Ask
    <3>2. todo' \in Seq(Commands) /\ Len(todo') = 5
          /\ \A i \in 1..5 : todo'[i] = <<OpAt(5 - i + 1), Now'>>
      BY <1>3, <3>1, Written
    <3>3. inPipe' = inPipe /\ Len(inPipe) \in Nat /\ Left' = Len(inPipe) + 5
      BY <1>1, <3>2 DEF TypeOK, Left
    <3>4. \A i \in 1..Len(inPipe) : OpAt(Left' - i + 1) = "reset" /\ inPipe[i][1] = "reset"
      BY <1>1, <3>3 DEF Resting, OnlyResets, OpAt
    <3>5. InOrder'
      BY <3>2, <3>3, <3>4 DEF InOrder
    <3>6. OneError' /\ q.asserts \in {"unsat", "sat"} /\ todo' # <<>>
      <4>1. outPipe' = <<>> /\ printing' = <<>>
        BY <1>1 DEF Resting, Quiet, process
      <4>2. OneError'
        BY <4>1 DEF OneError, Quiet
      <4> QED BY <2>2, <3>2, <4>2 DEF Queries, Asserts
    <3>7. Encoding'
      BY <1>1, <1>2, <3>2, <3>3, <3>5, <3>6 DEF Encoding
    <3> QED BY <3>2, <3>7
  <2> QED BY <2>1, <2>2
<1>5. TypeOK'
  BY <1>1, <1>2, <1>3, <1>4 DEF TypeOK, process
<1>6. AnswersRight' /\ Len(results') = Now' - 1
  <2>1. DOMAIN results = 1..Now /\ Len(results) = Now /\ results' = results
    BY <1>1 DEF Resting, TypeOK
  <2>2. \A i \in DOMAIN results' : i \in 1..Now /\ asked'[i] = asked[i]
    BY <1>2, <2>1
  <2>3. ASSUME NEW i \in DOMAIN results'
        PROVE  /\ results'[i] = "unsat" => asked'[i].asserts \in {"false", "unsat"}
               /\ results'[i] \in {"sat", "cex"} => asked'[i].asserts \in {"true", "sat"}
    BY <1>1, <2>1, <2>2 DEF AnswersRight
  <2> QED BY <1>2, <2>1, <2>3 DEF AnswersRight
<1>7. Numbered'
  BY <1>1, <1>2 DEF Numbered
<1> QED BY <1>1, <1>3, <1>4, <1>5, <1>6, <1>7 DEF SessionInv, UnderWay

LEMMA RefuseStep ==
  ASSUME SessionInv, NEW q \in Queries, Refuse(q) PROVE SessionInv'
<1>1. /\ TypeOK /\ AnswersRight /\ Numbered /\ Resting /\ pc' = "cleanup" /\ got' = <<>>
      /\ asked' = Append(asked, q) /\ Now < MaxQueries /\ results' = Append(results, "error")
      /\ UNCHANGED <<todo, process, inPipe, outPipe>>
  BY DEF SessionInv, Refuse, Throw
<1>2. /\ Now \in Nat /\ Now' = Now + 1 /\ asked' \in Seq(Queries)
      /\ \A i \in 1..Now : asked'[i] = asked[i]
  <2>1. asked \in Seq(Queries) /\ Now = Len(asked) /\ Now' = Len(asked')
    BY <1>1 DEF TypeOK, Now
  <2> QED BY <1>1, <2>1, Appended
<1>3. /\ results \in Seq({"unsat", "sat", "cex", "error"}) /\ Len(results) = Now
      /\ results' \in Seq({"unsat", "sat", "cex", "error"}) /\ Len(results') = Now + 1
      /\ \A i \in 1..Now + 1 : results'[i] = IF i = Now + 1 THEN "error" ELSE results[i]
  <2>1. results \in Seq({"unsat", "sat", "cex", "error"}) /\ Len(results) = Now
    BY <1>1 DEF TypeOK, Resting
  <2> QED BY <1>1, <2>1, Appended
<1>4. AnswersRight'
  <2> SUFFICES ASSUME NEW i \in DOMAIN results'
               PROVE  /\ results'[i] = "unsat" => asked'[i].asserts \in {"false", "unsat"}
                      /\ results'[i] \in {"sat", "cex"} => asked'[i].asserts \in {"true", "sat"}
    BY DEF AnswersRight
  <2>1. i \in 1..Now + 1
    BY <1>3
  <2>2. CASE i = Now + 1
    BY <1>3, <2>2
  <2>3. CASE i # Now + 1
    <3>1. i \in DOMAIN results /\ results'[i] = results[i] /\ asked'[i] = asked[i]
      BY <1>2, <1>3, <2>1, <2>3
    <3> QED BY <1>1, <3>1 DEF AnswersRight
  <2> QED BY <2>2, <2>3
<1>5. TypeOK'
  BY <1>1, <1>2, <1>3 DEF TypeOK, process
<1>6. Numbered' /\ Ending'
  BY <1>1, <1>2, <1>3 DEF Numbered, Ending, Resting, OnlyResets
<1> QED BY <1>1, <1>4, <1>5, <1>6 DEF SessionInv, UnderWay

-------------------------------------------------------------------------------
\* A query that fails ends the session.
LEMMA ThrowStep ==
  ASSUME TypeOK, AnswersRight, Numbered, Now >= 1, Len(results) = Now - 1,
         Throw, TypeOK', todo' = <<>>, UNCHANGED <<asked, inPipe, solver>>,
         solver = "running" => \A i \in 1..Len(inPipe) : inPipe[i][1] # "model"
  PROVE  SessionInv'
<1>1. pc' = "cleanup" /\ results' = Append(results, "error") /\ Now' = Now
  BY DEF Throw, Now
<1>2. AnswersRight' /\ Len(results') = Now'
  BY <1>1, Returned
<1>3. Numbered' /\ Ending'
  BY <1>1, <1>2 DEF Numbered, Ending
<1> QED BY <1>1, <1>2, <1>3 DEF SessionInv, UnderWay

LEMMA ThrowTypes ==
  ASSUME TypeOK, Throw
  PROVE  /\ pc' = "cleanup" /\ results' = Append(results, "error")
         /\ results' \in Seq({"unsat", "sat", "cex", "error"})
<1>1. results \in Seq({"unsat", "sat", "cex", "error"})
  BY DEF TypeOK
<1> QED BY <1>1, Appended DEF Throw

\* The query under way, and what is known of it while a command is to be written.
LEMMA EmitAlive ==
  ASSUME SessionInv, Emit, Alive PROVE SessionInv'
<1>1. /\ TypeOK /\ AnswersRight /\ Numbered /\ Now >= 1 /\ Len(results) = Now - 1 /\ pc = "emit"
      /\ Len(inPipe) < InCap /\ inPipe' = Append(inPipe, Head(todo)) /\ todo' = Tail(todo)
      /\ UNCHANGED <<asked, got, solver, context, produce, verdict, printing, outPipe>>
      /\ AskingNothing \/ Encoding \/ WantingModel
  BY DEF SessionInv, Emit, UnderWay, Checked, NoModel, Reading, process
<1>2. /\ todo \in Seq(Commands) /\ inPipe \in Seq(Commands) /\ Now \in Nat /\ Now' = Now
      /\ Now <= MaxQueries /\ Len(inPipe) \in Nat /\ Len(todo) \in Nat
  BY <1>1 DEF TypeOK, Now
<1>3. todo # <<>>
  BY <1>1 DEF AskingNothing, Encoding, WantingModel
<1>4. /\ todo' \in Seq(Commands) /\ Len(todo') = Len(todo) - 1 /\ Len(todo) >= 1
      /\ \A i \in 1..Len(todo) - 1 : todo'[i] = todo[i + 1]
      /\ Head(todo) = todo[1] /\ Head(todo) \in Commands
  BY <1>1, <1>2, <1>3, Rest
<1>5. /\ inPipe' \in Seq(Commands) /\ Len(inPipe') = Len(inPipe) + 1
      /\ \A i \in 1..Len(inPipe) + 1 :
           inPipe'[i] = IF i = Len(inPipe) + 1 THEN todo[1] ELSE inPipe[i]
  BY <1>1, <1>2, <1>4, Appended
<1>6. Left' = Left
  BY <1>4, <1>5, <1>2 DEF Left
<1>7. ASSUME todo[1] = <<todo[1][1], Now>> PROVE Numbered'
  <2>1. \A i \in 1..Len(inPipe) : inPipe'[i] = inPipe[i]
    BY <1>2, <1>5
  <2>2. inPipe'[Len(inPipe) + 1][2] = Now
    BY <1>2, <1>5, <1>7
  <2> QED BY <1>1, <1>2, <1>5, <2>1, <2>2 DEF Numbered
<1>8. CASE AskingNothing
  <2>1. todo = <<<<"reset", Now>>>> /\ Len(todo) = 1 /\ todo[1] = <<"reset", Now>>
    BY <1>8 DEF AskingNothing
  <2>2. todo' = <<>>
    BY <1>4, <2>1, Empty
  <2>3. Settle(asked[Now])
    BY <1>1, <1>4, <2>1 DEF Emit, Alive, Awaited
  <2>4. PICK r \in {"unsat", "sat", "cex", "error"} :
          /\ results' = Append(results, r)
          /\ pc' = IF r = "error" THEN "cleanup" ELSE "idle"
          /\ r = "unsat" => asked[Now].asserts = "false"
          /\ r \in {"sat", "cex"} => asked[Now].asserts = "true"
    BY <1>8, <2>3 DEF Settle, Return, Throw, Literally, AskingNothing
  <2>5. /\ AnswersRight' /\ Len(results') = Now'
        /\ results' \in Seq({"unsat", "sat", "cex", "error"})
    BY <1>1, <2>4, Returned
  <2>6. OnlyResets'
    <3>1. \A i \in 1..Len(inPipe) : inPipe'[i] = inPipe[i]
      BY <1>2, <1>5
    <3>2. inPipe'[Len(inPipe) + 1][1] = "reset"
      BY <1>2, <1>5, <2>1
    <3> QED BY <1>2, <1>5, <1>8, <3>1, <3>2 DEF OnlyResets, AskingNothing
  <2>7. Quiet' /\ got' = <<>>
    BY <1>1, <1>8 DEF AskingNothing, Quiet
  <2>8. TypeOK'
    BY <1>1, <1>2, <1>4, <1>5, <2>4, <2>5 DEF TypeOK
  <2>9. Resting' /\ Ending'
    BY <1>2, <2>2, <2>5, <2>6, <2>7 DEF Resting, Ending, OnlyResets
  <2>10. Numbered'
    BY <1>7, <2>1
  <2> QED BY <2>4, <2>5, <2>8, <2>9, <2>10 DEF SessionInv, UnderWay
<1>9. CASE Encoding
  <2>1. todo[1] = <<OpAt(Len(todo)), Now>>
    BY <1>2, <1>4, <1>9 DEF Encoding, InOrder
  <2>2. Len(todo) = 1 => todo[1] = <<"check", Now>>
    BY <2>1 DEF OpAt
  <2>3. /\ results' = results
        /\ pc' = IF Len(todo) > 1 THEN "emit" ELSE "answer"
    <3>1. CASE Len(todo) > 1
      BY <1>1, <3>1 DEF Emit, Alive
    <3>2. CASE Len(todo) = 1
      <4>1. Awaited(Head(todo)) = "answer"
        BY <1>4, <2>2, <3>2 DEF Awaited
      <4> QED BY <1>1, <3>2, <4>1 DEF Emit, Alive
    <3> QED BY <1>2, <1>4, <3>1, <3>2
  <2>4. pc' = IF todo' = <<>> THEN "answer" ELSE "emit"
    BY <1>2, <1>4, <2>3, Empty
  <2>5. InOrder'
    <3>1. ASSUME NEW i \in 1..Len(todo')
          PROVE  todo'[i] = <<OpAt(Len(todo') - i + 1), Now'>>
      <4>1. i \in 1..Len(todo) - 1 /\ i + 1 \in 1..Len(todo)
            /\ Len(todo) - (i + 1) + 1 = Len(todo') - i + 1
        BY <1>2, <1>4
      <4>2. todo[i + 1] = <<OpAt(Len(todo) - (i + 1) + 1), Now>>
        BY <1>9, <4>1 DEF Encoding, InOrder
      <4> QED BY <1>2, <1>4, <4>1, <4>2
    <3>2. ASSUME NEW i \in 1..Len(inPipe')
          PROVE  /\ inPipe'[i][1] = OpAt(Left' - i + 1)
                 /\ inPipe'[i][1] # "reset" => inPipe'[i][2] = Now'
      <4>1. CASE i = Len(inPipe) + 1
        <5>1. Left' - i + 1 = Len(todo)
          BY <1>2, <1>6, <4>1 DEF Left
        <5>2. inPipe'[i] = <<OpAt(Len(todo)), Now>>
          BY <1>5, <2>1, <4>1
        <5> QED BY <1>2, <5>1, <5>2
      <4>2. CASE i # Len(inPipe) + 1
        <5>1. i \in 1..Len(inPipe) /\ inPipe'[i] = inPipe[i]
          BY <1>2, <1>5, <4>2
        <5> QED BY <1>2, <1>6, <1>9, <5>1 DEF Encoding, InOrder
      <4> QED BY <4>1, <4>2
    <3> QED BY <3>1, <3>2 DEF InOrder
  <2>6. Encoding'
    BY <1>1, <1>2, <1>6, <1>9, <2>4, <2>5 DEF Encoding, OneError, Quiet
  <2>7. TypeOK'
    BY <1>1, <1>2, <1>4, <1>5, <2>3 DEF TypeOK
  <2>8. AnswersRight' /\ Len(results') = Now' - 1
    BY <1>1, <1>2, <2>3 DEF AnswersRight
  <2>9. Numbered'
    BY <1>7, <2>1
  <2> QED BY <1>1, <1>2, <2>3, <2>6, <2>7, <2>8, <2>9 DEF SessionInv, UnderWay
<1>10. CASE WantingModel
  <2>1. Len(todo) = 1 /\ Len(inPipe) = 0 /\ todo[1] = <<"model", Now>>
    BY <1>2, <1>4, <1>10 DEF WantingModel, Left
  <2>2. todo' = <<>> /\ Len(todo') = 0
    BY <1>4, <2>1, Empty
  <2>3. results' = results /\ pc' = "open"
    BY <1>1, <1>4, <2>1 DEF Emit, Alive, Awaited
  <2>4. \A i \in 1..Len(inPipe') : inPipe'[i] = <<"model", Now>>
    BY <1>5, <2>1
  <2>5. WantingModel'
    BY <1>1, <1>2, <1>6, <1>10, <2>2, <2>3, <2>4 DEF WantingModel, Quiet
  <2>6. TypeOK'
    BY <1>1, <1>2, <1>4, <1>5, <2>3 DEF TypeOK
  <2>7. AnswersRight' /\ Len(results') = Now' - 1
    BY <1>1, <1>2, <2>3 DEF AnswersRight
  <2>8. Numbered'
    BY <1>7, <2>1
  <2> QED BY <1>1, <1>2, <2>3, <2>5, <2>6, <2>7, <2>8 DEF SessionInv, UnderWay
<1> QED BY <1>1, <1>8, <1>9, <1>10

LEMMA EmitStep == SessionInv /\ Emit => SessionInv'
<1> SUFFICES ASSUME SessionInv, Emit, ~Alive PROVE SessionInv'
  BY EmitAlive
<1>1. /\ TypeOK /\ AnswersRight /\ Numbered /\ Now >= 1 /\ Len(results) = Now - 1
      /\ Throw /\ todo' = <<>> /\ UNCHANGED <<inPipe, asked, got, solver, context, produce, verdict, printing, outPipe>>
      /\ solver # "running"
  BY DEF SessionInv, Emit, UnderWay, process, Alive
<1>2. TypeOK'
  BY <1>1, ThrowTypes DEF TypeOK, Now
<1> QED BY <1>1, <1>2, ThrowStep

LEMMA AbortStep == SessionInv /\ Abort => SessionInv'
<1> SUFFICES ASSUME SessionInv, Abort PROVE SessionInv'
  OBVIOUS
<1>1. /\ TypeOK /\ AnswersRight /\ Numbered /\ Now >= 1 /\ Len(results) = Now - 1 /\ pc = "emit"
      /\ Throw /\ todo' = <<>> /\ UNCHANGED <<inPipe, asked, got, solver, context, produce, verdict, printing, outPipe>>
      /\ Head(todo)[1] = "declare"
      /\ AskingNothing \/ Encoding \/ WantingModel
  BY DEF SessionInv, Abort, UnderWay, Checked, NoModel, Reading, process
<1>2. TypeOK'
  BY <1>1, ThrowTypes DEF TypeOK, Now
<1>3. Encoding
  <2>1. AskingNothing => Head(todo)[1] = "reset"
    BY DEF AskingNothing
  <2>2. WantingModel => Head(todo)[1] = "model"
    <3>1. todo \in Seq(Commands)
      BY <1>1 DEF TypeOK
    <3>2. WantingModel => todo # <<>>
      BY <1>1 DEF WantingModel
    <3> QED BY <3>1, <3>2, Rest DEF WantingModel
  <2> QED BY <1>1, <2>1, <2>2
<1>4. \A i \in 1..Len(inPipe) : inPipe[i][1] # "model"
  BY <1>3 DEF Encoding, InOrder, OpAt
<1> QED BY <1>1, <1>2, <1>4, ThrowStep

-------------------------------------------------------------------------------
\* What reading a line does to the pipe; at the end of the file the line is empty.
LEMMA OneLine ==
  ASSUME TypeOK, ReadOn, outPipe # <<>>
  PROVE  /\ outPipe' \in Seq(Prints) /\ Len(outPipe') <= OutCap
         /\ Len(outPipe) >= 1 /\ Len(outPipe') = Len(outPipe) - 1
         /\ Line = outPipe[1] /\ Line \in Prints
         /\ \A i \in 1..Len(outPipe) - 1 : outPipe'[i] = outPipe[i + 1]
<1>1. outPipe \in Seq(Prints) /\ Len(outPipe) <= OutCap
  BY DEF TypeOK
<1>2. outPipe' = Tail(outPipe) /\ Line = Head(outPipe)
  BY DEF ReadOn, Line
<1>3. /\ Tail(outPipe) \in Seq(Prints) /\ Len(Tail(outPipe)) = Len(outPipe) - 1
      /\ Len(outPipe) >= 1 /\ Len(outPipe) \in Nat
      /\ Head(outPipe) = outPipe[1] /\ Head(outPipe) \in Prints
      /\ \A i \in 1..Len(outPipe) - 1 : Tail(outPipe)[i] = outPipe[i + 1]
  BY <1>1, Rest
<1>4. Len(Tail(outPipe)) <= OutCap
  BY <1>1, <1>3
<1> QED BY <1>2, <1>3, <1>4, Zenon

LEMMA NoLine ==
  ASSUME TypeOK, Readable, ReadOn, outPipe = <<>>
  PROVE  /\ outPipe' \in Seq(Prints) /\ Len(outPipe') <= OutCap
         /\ Line[1] = "" /\ ~Alive /\ outPipe' = <<>>
  BY DEF TypeOK, Readable, ReadOn, Line

LEMMA ReadAnswerStep == SessionInv /\ ReadAnswer => SessionInv'
<1> SUFFICES ASSUME SessionInv, ReadAnswer PROVE SessionInv'
  OBVIOUS
<1>1. /\ TypeOK /\ AnswersRight /\ Numbered /\ Now >= 1 /\ Len(results) = Now - 1 /\ pc = "answer"
      /\ UNCHANGED <<asked, got, inPipe, solver, context, produce, verdict, printing>>
      /\ Readable /\ ReadOn
      /\ Encoding \/ Checked
  BY DEF SessionInv, ReadAnswer, UnderWay, AskingNothing, WantingModel, NoModel, Reading, process
<1>2. /\ Now \in Nat /\ Now' = Now /\ Now <= MaxQueries
      /\ Len(todo) \in Nat /\ Len(inPipe) \in Nat
      /\ Len(outPipe) \in Nat /\ Len(printing) \in Nat
  BY <1>1 DEF TypeOK, Now
<1>7. /\ todo \in Seq(Commands) /\ printing \in Seq(Prints)
      /\ inPipe \in Seq(Commands) /\ outPipe \in Seq(Prints)
  BY <1>1 DEF TypeOK
<1>3. todo = <<>> /\ got = <<>> /\ asked[Now].asserts \in {"unsat", "sat"}
      /\ Len(outPipe) + Len(printing) <= 1
  <2>1. Encoding => todo = <<>>
    BY <1>1 DEF Encoding
  <2>2. Checked => todo = <<>>
    BY <1>2, Empty DEF Checked, Left
  <2> QED BY <1>1, <2>1, <2>2 DEF Encoding, Checked, OneError
<1>4. /\ outPipe' \in Seq(Prints) /\ Len(outPipe') <= OutCap
      /\ outPipe = <<>> => Line[1] = "" /\ ~Alive /\ outPipe' = <<>>
      /\ outPipe # <<>> => /\ Len(outPipe) >= 1 /\ Len(outPipe') = Len(outPipe) - 1
                           /\ Line = outPipe[1] /\ Line \in Prints
  <2>1. CASE outPipe = <<>>
    BY <1>1, <2>1, NoLine, Zenon
  <2>2. CASE outPipe # <<>>
    BY <1>1, <2>2, OneLine, Zenon
  <2> QED BY <2>1, <2>2, Zenon
<1>5. CASE Throw
  <2>1. todo' = todo
    BY <1>5 DEF ReadAnswer, Throw, Return
  <2>2. TypeOK'
    BY <1>1, <1>3, <1>4, <1>5, <2>1, ThrowTypes DEF TypeOK, Now
  <2>3. \A i \in 1..Len(inPipe) : inPipe[i][1] # "model"
    <3>1. CASE Encoding
      BY <3>1 DEF Encoding, InOrder, OpAt
    <3>2. CASE Checked
      BY <1>2, <3>2 DEF Checked, Left
    <3> QED BY <1>1, <3>1, <3>2
  <2> QED BY <1>1, <1>3, <1>5, <2>1, <2>2, <2>3, ThrowStep
<1>6. CASE ~Throw
  <2>1. Line[1] \in {"unsat", "sat"}
    BY <1>6 DEF ReadAnswer
  <2>2. outPipe # <<>> /\ Len(outPipe) = 1 /\ Line = outPipe[1]
    <3>1. outPipe # <<>>
      BY <1>4, <2>1
    <3>2. Len(outPipe) >= 1
      BY <1>4, <3>1
    <3>5. Line = outPipe[1]
      BY <1>4, <3>1
    <3>3. Len(outPipe) <= 1
      BY <1>2, <1>3
    <3>4. Len(outPipe) = 1
      BY <1>2, <3>2, <3>3
    <3> QED BY <3>1, <3>5, <3>4
  <2>3. Checked /\ Line[1] = asked[Now].asserts
    <3>1. Encoding => Line[1] = "error"
      BY <2>2 DEF Encoding, OneError
    <3>2. Checked => Line[1] \in {"unknown", asked[Now].asserts}
      BY <2>2 DEF Checked
    <3> QED BY <1>1, <2>1, <3>1, <3>2
  <2>4. outPipe' = <<>> /\ printing = <<>> /\ inPipe = <<>>
    <3>1. Len(outPipe') = 0 /\ outPipe' \in Seq(Prints)
      <4>1. Len(outPipe') = Len(outPipe) - 1 /\ outPipe' \in Seq(Prints)
        BY <1>4, <2>2, Zenon
      <4>2. Len(outPipe) = 1
        BY <2>2
      <4>3. Len(outPipe') = 0
        BY <4>1, <4>2
      <4> QED BY <4>1, <4>3
    <3>2. Len(printing) = 0
      BY <1>2, <1>3, <2>2
    <3>3. Len(inPipe) = 0
      BY <1>2, <2>3 DEF Checked, Left
    <3> QED BY <1>2, <3>1, <3>2, <3>3, Empty
  <2>5. Quiet'
    BY <1>1, <2>4 DEF Quiet
  <2>6. CASE Line[1] = "unsat" \/ ~asked[Now].models
    <3>1. PICK r \in {"unsat", "sat"} : Return(r) /\ todo' = todo /\ r = Line[1]
      BY <2>1, <2>6 DEF ReadAnswer
    <3>2. results' = Append(results, r) /\ pc' = "idle"
      BY <3>1 DEF Return
    <3>3. /\ AnswersRight' /\ Len(results') = Now'
          /\ results' \in Seq({"unsat", "sat", "cex", "error"})
      BY <1>1, <2>3, <3>1, <3>2, Returned
    <3>4. Resting'
      BY <1>1, <1>3, <2>4, <2>5, <3>1, <3>3 DEF Resting, OnlyResets
    <3>5. TypeOK' /\ Numbered'
      BY <1>1, <1>2, <1>4, <3>1, <3>2, <3>3 DEF TypeOK, Numbered
    <3> QED BY <3>2, <3>3, <3>4, <3>5 DEF SessionInv, UnderWay
  <2>7. CASE Line[1] = "sat" /\ asked[Now].models
    <3>1. pc' = "emit" /\ todo' = <<<<"model", Now>>>> /\ results' = results
      BY <2>7 DEF ReadAnswer
    <3>2. <<"model", Now>> \in Commands
      BY <1>2 DEF Commands
    <3>3. todo' \in Seq(Commands) /\ Len(todo') = 1 /\ todo'[1] = <<"model", Now>>
      BY <3>1, <3>2
    <3>4. WantingModel'
      BY <1>1, <1>2, <1>3, <2>3, <2>4, <2>5, <2>7, <3>1, <3>3 DEF WantingModel, Left, Checked
    <3>5. TypeOK' /\ Numbered'
      BY <1>1, <1>2, <1>4, <3>1, <3>3 DEF TypeOK, Numbered
    <3>6. AnswersRight' /\ Len(results') = Now' - 1
      BY <1>1, <1>2, <3>1 DEF AnswersRight
    <3> QED BY <1>1, <1>2, <3>1, <3>4, <3>5, <3>6 DEF SessionInv, UnderWay
  <2> QED BY <2>1, <2>6, <2>7
<1> QED BY <1>5, <1>6

LEMMA ReadOpenStep == SessionInv /\ ReadOpen => SessionInv'
<1> SUFFICES ASSUME SessionInv, ReadOpen PROVE SessionInv'
  OBVIOUS
<1>1. /\ TypeOK /\ AnswersRight /\ Numbered /\ Now >= 1 /\ Len(results) = Now - 1 /\ pc = "open"
      /\ UNCHANGED <<asked, todo, inPipe, solver, context, produce, verdict, printing>>
      /\ Readable /\ ReadOn
      /\ WantingModel \/ NoModel \/ Reading
  BY DEF SessionInv, ReadOpen, UnderWay, AskingNothing, Encoding, Checked, process
<1>2. /\ Now \in Nat /\ Now' = Now /\ Now <= MaxQueries
      /\ Len(todo) \in Nat /\ Len(inPipe) \in Nat
      /\ Len(outPipe) \in Nat /\ Len(printing) \in Nat
  BY <1>1 DEF TypeOK, Now
<1>7. /\ todo \in Seq(Commands) /\ printing \in Seq(Prints)
      /\ inPipe \in Seq(Commands) /\ outPipe \in Seq(Prints)
  BY <1>1 DEF TypeOK
<1>3. todo = <<>> /\ got = <<>>
  <2>1. WantingModel \/ NoModel => todo = <<>>
    BY <1>1, <1>2, Empty DEF WantingModel, NoModel, Left
  <2>2. Reading => todo = <<>> /\ got = <<>>
    BY <1>1, <1>2, Empty DEF Reading, Left
  <2> QED BY <1>1, <2>1, <2>2 DEF WantingModel, NoModel
<1>4. /\ outPipe' \in Seq(Prints) /\ Len(outPipe') <= OutCap
      /\ outPipe = <<>> => Line[1] = "" /\ ~Alive /\ outPipe' = <<>>
      /\ outPipe # <<>> => /\ Len(outPipe) >= 1 /\ Len(outPipe') = Len(outPipe) - 1
                           /\ Line = outPipe[1] /\ Line \in Prints
                           /\ \A i \in 1..Len(outPipe) - 1 : outPipe'[i] = outPipe[i + 1]
  <2>1. CASE outPipe = <<>>
    BY <1>1, <2>1, NoLine, Zenon
  <2>2. CASE outPipe # <<>>
    BY <1>1, <2>2, OneLine, Zenon
  <2> QED BY <2>1, <2>2, Zenon
<1>5. CASE Line[1] = "("
  <2>1. pc' = "model" /\ got' = <<Line>> /\ results' = results /\ outPipe # <<>>
    BY <1>4, <1>5 DEF ReadOpen
  <2>8. Line = outPipe[1] /\ Len(outPipe) >= 1 /\ 1 \in 1..Len(outPipe)
        /\ Len(outPipe') = Len(outPipe) - 1
    <3>1. Len(outPipe) >= 1
      BY <1>4, <2>1, Zenon
    <3>2. 1 \in 1..Len(outPipe)
      BY <1>2, <3>1
    <3> QED BY <1>4, <2>1, <3>1, <3>2, Zenon
  <2>2. Reading
    <3>1. WantingModel => outPipe = <<>>
      BY DEF WantingModel, Quiet
    <3>2. NoModel => Line[1] = "error"
      <4> QED BY <2>8 DEF NoModel, OneError
    <3> QED BY <1>1, <1>5, <2>1, <3>1, <3>2
  <2>3. got' \in Seq(Prints) /\ Len(got') = 1 /\ got'[1] = ModelLine(1, Now)
    <3>1. Len(got) = 0
      BY <1>3
    <3>2. Line = ModelLine(1, Now)
      <4> QED BY <2>2, <2>8, <3>1 DEF Reading
    <3>3. Line \in Prints
      BY <1>4, <2>1
    <3> DEFINE line == Line
    <3>4. line \in Prints /\ got' = <<line>> /\ line = ModelLine(1, Now)
      BY <2>1, <3>2, <3>3
    <3> HIDE DEF line
    <3> QED BY <3>4
  <2>4. /\ Len(got) = 0 /\ Len(outPipe) + Len(printing) = Definitions + 2
        /\ \A i \in 1..Len(outPipe) : outPipe[i] = ModelLine(i, Now)
        /\ \A i \in 1..Len(printing) : printing[i] = ModelLine(Len(outPipe) + i, Now)
    <3>1. Len(got) = 0
      BY <1>3
    <3> QED BY <1>2, <2>2, <3>1 DEF Reading
  <2>5. Reading'
    <3>1. \A i \in 1..Len(got') : got'[i] = ModelLine(i, Now)
      BY <2>3
    <3>2. \A i \in 1..Len(outPipe') : outPipe'[i] = ModelLine(Len(got') + i, Now)
      <4>1. ASSUME NEW i \in 1..Len(outPipe') PROVE outPipe'[i] = ModelLine(Len(got') + i, Now)
        <5>1. i \in 1..Len(outPipe) - 1
          BY <2>8
        <5>2. i + 1 \in 1..Len(outPipe) /\ Len(got') + i = i + 1
          BY <1>2, <2>3, <5>1
        <5>3. outPipe'[i] = outPipe[i + 1]
          BY <1>4, <2>1, <5>1, Zenon
        <5> QED BY <2>4, <5>2, <5>3
      <4> QED BY <4>1
    <3>3. Len(got') + Len(outPipe') = Len(outPipe)
      <4>1. Len(got') = 1
        BY <2>3
      <4> QED BY <1>2, <2>8, <4>1
    <3>4. got' # <<>> /\ asked[Now].asserts = "sat" /\ Left = 0
      <4>1. got' # <<>>
        BY <2>3, Empty
      <4> QED BY <2>2, <4>1 DEF Reading
    <3>5. \A i \in 1..Len(printing') : printing'[i] = ModelLine(Len(got') + Len(outPipe') + i, Now)
      <4>1. printing' = printing
        BY <1>1
      <4>2. ASSUME NEW i \in 1..Len(printing)
            PROVE  printing[i] = ModelLine(Len(got') + Len(outPipe') + i, Now)
        <5>1. printing[i] = ModelLine(Len(outPipe) + i, Now)
          BY <2>4
        <5> QED BY <3>3, <5>1
      <4> QED BY <4>1, <4>2
    <3>6. /\ pc' = "model" /\ asked' = asked /\ Now' = Now /\ Left' = Left
          /\ Len(got') + Len(outPipe') + Len(printing') = Definitions + 2
      BY <1>1, <1>2, <2>1, <2>4, <3>3 DEF Left
    <3> QED BY <3>1, <3>2, <3>4, <3>5, <3>6 DEF Reading, ModelLine
  <2>6. TypeOK' /\ Numbered'
    BY <1>1, <1>2, <1>4, <2>1, <2>3 DEF TypeOK, Numbered
  <2>7. AnswersRight' /\ Len(results') = Now' - 1
    BY <1>1, <1>2, <2>1 DEF AnswersRight
  <2> QED BY <1>1, <1>2, <2>1, <2>5, <2>6, <2>7 DEF SessionInv, UnderWay
<1>6. CASE Line[1] # "("
  <2>1. Throw /\ got' = got
    BY <1>6 DEF ReadOpen
  <2>2. TypeOK'
    BY <1>1, <1>4, <2>1, ThrowTypes DEF TypeOK, Now
  <2>3. solver = "running" => \A i \in 1..Len(inPipe) : inPipe[i][1] # "model"
    <3>1. CASE WantingModel
      BY <1>4, <3>1 DEF WantingModel, Quiet, Alive
    <3>2. CASE NoModel \/ Reading
      BY <1>2, <3>2 DEF NoModel, Reading, Left
    <3> QED BY <1>1, <3>1, <3>2
  <2> QED BY <1>1, <1>3, <2>1, <2>2, <2>3, ThrowStep
<1> QED BY <1>5, <1>6

\* The lines of the model are read in order, and the last one closes it.
LEMMA ReadModelStep == SessionInv /\ ReadModel => SessionInv'
<1> SUFFICES ASSUME SessionInv, ReadModel PROVE SessionInv'
  OBVIOUS
<1>1. /\ TypeOK /\ AnswersRight /\ Numbered /\ Now >= 1 /\ Len(results) = Now - 1 /\ pc = "model"
      /\ UNCHANGED <<asked, todo, inPipe, solver, context, produce, verdict, printing>>
      /\ ReadOn /\ outPipe # <<>> /\ got' = Append(got, Line) /\ Reading
  BY DEF SessionInv, ReadModel, UnderWay, AskingNothing, Encoding, Checked, WantingModel, NoModel, process
<1>2. /\ Now \in Nat /\ Now' = Now /\ Now <= MaxQueries
      /\ Len(todo) \in Nat /\ Len(inPipe) \in Nat /\ Len(got) \in Nat
      /\ Len(outPipe) \in Nat /\ Len(printing) \in Nat
  BY <1>1 DEF TypeOK, Now
<1>3. /\ todo \in Seq(Commands) /\ printing \in Seq(Prints) /\ got \in Seq(Prints)
      /\ inPipe \in Seq(Commands) /\ outPipe \in Seq(Prints)
  BY <1>1 DEF TypeOK
<1>4. /\ outPipe' \in Seq(Prints) /\ Len(outPipe') <= OutCap
      /\ Len(outPipe) >= 1 /\ Len(outPipe') = Len(outPipe) - 1
      /\ Line = outPipe[1] /\ Line \in Prints
      /\ \A i \in 1..Len(outPipe) - 1 : outPipe'[i] = outPipe[i + 1]
  BY <1>1, OneLine, Zenon
<1>5. /\ got' \in Seq(Prints) /\ Len(got') = Len(got) + 1
      /\ \A i \in 1..Len(got) + 1 : got'[i] = IF i = Len(got) + 1 THEN Line ELSE got[i]
  <2> DEFINE line == Line
  <2>1. line \in Prints /\ got' = Append(got, line)
    BY <1>1, <1>4, Zenon
  <2> HIDE DEF line
  <2>2. /\ Append(got, line) \in Seq(Prints) /\ Len(Append(got, line)) = Len(got) + 1
        /\ \A i \in 1..Len(got) + 1 : Append(got, line)[i] = IF i = Len(got) + 1 THEN line ELSE got[i]
    BY <1>3, <2>1, Appended
  <2> QED BY <2>1, <2>2, Zenon DEF line
<1>6. /\ got # <<>> /\ asked[Now].asserts = "sat" /\ Left = 0
      /\ Len(got) + Len(outPipe) + Len(printing) = Definitions + 2
      /\ \A i \in 1..Len(got) : got[i] = ModelLine(i, Now)
      /\ \A i \in 1..Len(outPipe) : outPipe[i] = ModelLine(Len(got) + i, Now)
      /\ \A i \in 1..Len(printing) : printing[i] = ModelLine(Len(got) + Len(outPipe) + i, Now)
  BY <1>1 DEF Reading
<1>7. Len(got) >= 1 /\ Len(inPipe) = 0 /\ todo = <<>>
  <2>1. Len(got) # 0
    BY <1>3, <1>6, Empty
  <2>2. Len(inPipe) = 0 /\ Len(todo) = 0
    BY <1>2, <1>6 DEF Left
  <2> QED BY <1>2, <1>3, <2>1, <2>2, Empty
<1>8. Line = ModelLine(Len(got) + 1, Now)
  <2>1. 1 \in 1..Len(outPipe)
    BY <1>2, <1>4
  <2> QED BY <1>4, <1>6, <2>1, Zenon
<1>9. \A i \in 1..Len(got') : got'[i] = ModelLine(i, Now)
  <2>1. ASSUME NEW i \in 1..Len(got) + 1 PROVE got'[i] = ModelLine(i, Now)
    <3>1. CASE i = Len(got) + 1
      BY <1>5, <1>8, <3>1, Zenon
    <3>2. CASE i # Len(got) + 1
      <4>1. i \in 1..Len(got)
        BY <1>2, <3>2
      <4> QED BY <1>5, <1>6, <3>2, <4>1, Zenon
    <3> QED BY <3>1, <3>2
  <2> QED BY <1>5, <2>1, Zenon
<1>10. Line[1] = ")" <=> Len(got) + 1 = Definitions + 2
  BY <1>2, <1>7, <1>8 DEF ModelLine
<1>11. CASE Line[1] = ")"
  <2>1. Len(got') = Definitions + 2 /\ Len(outPipe') = 0 /\ Len(printing) = 0
    BY <1>2, <1>4, <1>5, <1>6, <1>10, <1>11
  <2>2. Quiet'
    BY <1>1, <1>3, <1>4, <2>1, Empty DEF Quiet
  <2>3. got' = Model(Now)
    <3>1. /\ Model(Now) \in Seq(Prints) /\ Len(Model(Now)) = Definitions + 2
          /\ \A i \in 1..Definitions + 2 : Model(Now)[i] = ModelLine(i, Now)
      <4>1. Now \in 0..MaxQueries
        BY <1>2
      <4> QED BY <4>1, Models, Zenon
    <3> DEFINE model == Model(Now)
    <3>2. /\ model \in Seq(Prints) /\ Len(model) = Definitions + 2
          /\ \A i \in 1..Definitions + 2 : model[i] = ModelLine(i, Now)
      BY <3>1, Zenon
    <3> HIDE DEF model
    <3>3. \A i \in 1..Len(got') : got'[i] = model[i]
      BY <1>9, <2>1, <3>2, Zenon
    <3>4. Len(got') = Len(model)
      BY <2>1, <3>2, Zenon
    <3>5. got' = model
      BY <1>5, <3>2, <3>3, <3>4
    <3> QED BY <3>5 DEF model
  <2>4. CASE Return("cex")
    <3>1. results' = Append(results, "cex") /\ pc' = "idle"
      BY <2>4 DEF Return
    <3>2. /\ AnswersRight' /\ Len(results') = Now'
          /\ results' \in Seq({"unsat", "sat", "cex", "error"})
      BY <1>1, <1>6, <3>1, Returned
    <3>3. got' = Model(Now')
      BY <1>2, <2>3
    <3>4. Resting'
      BY <1>1, <1>7, <2>2, <3>2, <3>3 DEF Resting, OnlyResets
    <3>5. TypeOK' /\ Numbered'
      BY <1>1, <1>2, <1>4, <1>5, <3>1, <3>2 DEF TypeOK, Numbered
    <3> QED BY <3>1, <3>2, <3>4, <3>5 DEF SessionInv, UnderWay
  <2>5. CASE Throw
    <3>1. TypeOK'
      BY <1>1, <1>2, <1>4, <1>5, <2>5, ThrowTypes DEF TypeOK
    <3>2. \A i \in 1..Len(inPipe) : inPipe[i][1] # "model"
      BY <1>7
    <3> QED BY <1>1, <1>7, <2>5, <3>1, <3>2, ThrowStep
  <2> QED BY <1>11, <2>4, <2>5 DEF ReadModel
<1>12. CASE Line[1] # ")"
  <2>1. pc' = "model" /\ results' = results
    BY <1>1, <1>12 DEF ReadModel
  <2>2. Len(got') + Len(outPipe') = Len(got) + Len(outPipe)
    BY <1>2, <1>4, <1>5
  <2>3. \A i \in 1..Len(outPipe') : outPipe'[i] = ModelLine(Len(got') + i, Now)
    <3>1. ASSUME NEW i \in 1..Len(outPipe') PROVE outPipe'[i] = ModelLine(Len(got') + i, Now)
      <4>1. i \in 1..Len(outPipe) - 1
        BY <1>4
      <4>2. i + 1 \in 1..Len(outPipe) /\ Len(got') + i = Len(got) + (i + 1)
        BY <1>2, <1>5, <4>1
      <4>3. outPipe'[i] = outPipe[i + 1]
        BY <1>4, <4>1, Zenon
      <4> QED BY <1>6, <4>2, <4>3, Zenon
    <3> QED BY <3>1
  <2>4. \A i \in 1..Len(printing') : printing'[i] = ModelLine(Len(got') + Len(outPipe') + i, Now)
    <3>1. printing' = printing
      BY <1>1
    <3>2. ASSUME NEW i \in 1..Len(printing)
          PROVE  printing[i] = ModelLine(Len(got') + Len(outPipe') + i, Now)
      <4>1. printing[i] = ModelLine(Len(got) + Len(outPipe) + i, Now)
        BY <1>6, Zenon
      <4> QED BY <2>2, <4>1, Zenon
    <3> QED BY <3>1, <3>2
  <2>5. /\ asked' = asked /\ Now' = Now /\ Left' = Left /\ got' # <<>>
        /\ Len(got') + Len(outPipe') + Len(printing') = Definitions + 2
    <3>1. Len(got') # 0
      BY <1>2, <1>5
    <3> QED BY <1>1, <1>2, <1>5, <1>6, <2>2, <3>1, Empty DEF Left
  <2>6. Reading'
    BY <1>6, <1>9, <2>1, <2>3, <2>4, <2>5 DEF Reading, ModelLine
  <2>7. TypeOK' /\ Numbered'
    BY <1>1, <1>2, <1>4, <1>5, <2>1 DEF TypeOK, Numbered
  <2>8. AnswersRight' /\ Len(results') = Now' - 1
    BY <1>1, <1>2, <2>1 DEF AnswersRight
  <2> QED BY <1>1, <1>2, <2>1, <2>6, <2>7, <2>8 DEF SessionInv, UnderWay
<1> QED BY <1>11, <1>12

LEMMA FinishStep == SessionInv /\ Finish => SessionInv'
<1> SUFFICES ASSUME SessionInv, Finish PROVE SessionInv'
  OBVIOUS
<1>1. /\ TypeOK /\ AnswersRight /\ Numbered /\ Resting /\ pc' = "cleanup"
      /\ UNCHANGED <<asked, results, todo, got, inPipe, outPipe, solver, context, produce, verdict, printing>>
  BY DEF SessionInv, Finish, process
<1>2. TypeOK' /\ AnswersRight' /\ Numbered'
  BY <1>1 DEF TypeOK, AnswersRight, Numbered, Now
<1>3. Ending'
  BY <1>1 DEF Ending, Resting, OnlyResets, Now
<1> QED BY <1>1, <1>2, <1>3 DEF SessionInv, UnderWay

LEMMA CleanupStep == SessionInv /\ Cleanup => SessionInv'
<1> SUFFICES ASSUME SessionInv, Cleanup PROVE SessionInv'
  OBVIOUS
<1>1. /\ TypeOK /\ AnswersRight /\ Numbered /\ Ending /\ pc' = "wait"
      /\ UNCHANGED <<asked, results, todo, got, outPipe, solver, context, produce, verdict, printing>>
      /\ inPipe' = inPipe \/ (Len(inPipe) < InCap /\ inPipe' = Append(inPipe, <<"exit", Now>>))
  BY DEF SessionInv, Cleanup, process
<1>2. Now \in Nat /\ Now <= MaxQueries /\ Now' = Now /\ Len(inPipe) \in Nat
  BY <1>1 DEF TypeOK, Now
<1>3. CASE inPipe' = inPipe
  <2>1. TypeOK' /\ AnswersRight' /\ Numbered' /\ Ending'
    BY <1>1, <1>2, <1>3 DEF TypeOK, AnswersRight, Numbered, Ending
  <2> QED BY <1>1, <2>1 DEF SessionInv, UnderWay
<1>4. CASE Len(inPipe) < InCap /\ inPipe' = Append(inPipe, <<"exit", Now>>)
  <2> DEFINE exit == <<"exit", Now>>
  <2>1. exit \in Commands /\ inPipe \in Seq(Commands) /\ inPipe' = Append(inPipe, exit)
    BY <1>1, <1>2, <1>4 DEF Commands, TypeOK
  <2>2. exit[1] = "exit"
    OBVIOUS
  <2> HIDE DEF exit
  <2>3. /\ Append(inPipe, exit) \in Seq(Commands) /\ Len(Append(inPipe, exit)) = Len(inPipe) + 1
        /\ \A i \in 1..Len(inPipe) + 1 :
             Append(inPipe, exit)[i] = IF i = Len(inPipe) + 1 THEN exit ELSE inPipe[i]
    BY <2>1, Appended
  <2>4. inPipe' \in Seq(Commands) /\ Len(inPipe') = Len(inPipe) + 1 /\ Len(inPipe') <= InCap
    BY <1>2, <1>4, <2>1, <2>3
  <2>5. \A i \in 1..Len(inPipe') : inPipe'[i] = exit \/ (i \in 1..Len(inPipe) /\ inPipe'[i] = inPipe[i])
    BY <1>2, <2>1, <2>3
  <2>6. TypeOK'
    BY <1>1, <1>2, <2>4 DEF TypeOK
  <2>7. Numbered' /\ Ending'
    BY <1>1, <1>2, <2>2, <2>5 DEF Numbered, Ending
  <2>8. AnswersRight'
    BY <1>1 DEF AnswersRight
  <2> QED BY <1>1, <2>6, <2>7, <2>8 DEF SessionInv, UnderWay
<1> QED BY <1>1, <1>3, <1>4

LEMMA ReapStep == SessionInv /\ Reap => SessionInv'
<1> SUFFICES ASSUME SessionInv, Reap PROVE SessionInv'
  OBVIOUS
<1>1. /\ TypeOK /\ AnswersRight /\ Numbered /\ Ending /\ pc' = "closed" /\ solver' = "reaped"
      /\ UNCHANGED <<asked, results, todo, got, inPipe, outPipe, context, produce, verdict, printing>>
  BY DEF SessionInv, Reap
<1>2. TypeOK' /\ AnswersRight' /\ Numbered' /\ Ending'
  BY <1>1 DEF TypeOK, AnswersRight, Numbered, Ending, Now
<1> QED BY <1>1, <1>2 DEF SessionInv, UnderWay

\* The solver dies: whatever it held or was about to print is of no account.
LEMMA GoneStep == SessionInv /\ (Quit \/ Crash) => SessionInv'
<1> SUFFICES ASSUME SessionInv, Quit \/ Crash PROVE SessionInv'
  OBVIOUS
<1>1. /\ TypeOK /\ AnswersRight /\ Numbered /\ solver' = "dead"
      /\ UNCHANGED <<pc, asked, results, todo, got, inPipe, outPipe, context, produce, verdict, printing>>
  BY DEF SessionInv, Quit, Crash, client
<1>2. TypeOK' /\ AnswersRight' /\ Numbered' /\ Now' = Now /\ Left' = Left
  BY <1>1 DEF TypeOK, AnswersRight, Numbered, Now, Left
<1>3. (Resting => Resting') /\ (AskingNothing => AskingNothing') /\ (Ending => Ending')
  BY <1>1, <1>2 DEF Resting, AskingNothing, Ending, Quiet, OnlyResets, Model
<1>4. OneError => OneError'
  BY <1>1 DEF OneError, Quiet
<1>5. (Encoding => Encoding') /\ (NoModel => NoModel')
  BY <1>1, <1>2, <1>4 DEF Encoding, NoModel, InOrder, OpAt
<1>6. (Checked => Checked') /\ (WantingModel => WantingModel')
  BY <1>1, <1>2 DEF Checked, WantingModel, Quiet
<1>7. Reading => Reading'
  BY <1>1, <1>2 DEF Reading, ModelLine
<1> QED BY <1>1, <1>2, <1>3, <1>5, <1>6, <1>7 DEF SessionInv, UnderWay

\* A line goes from the solver's buffer to its output pipe.
LEMMA PrintLineStep == SessionInv /\ PrintLine => SessionInv'
<1> SUFFICES ASSUME SessionInv, PrintLine PROVE SessionInv'
  OBVIOUS
<1>1. /\ TypeOK /\ AnswersRight /\ Numbered /\ printing # <<>> /\ Len(outPipe) < OutCap
      /\ outPipe' = Append(outPipe, Head(printing)) /\ printing' = Tail(printing)
      /\ UNCHANGED <<pc, asked, results, todo, got, inPipe, solver, context, produce, verdict>>
  BY DEF SessionInv, PrintLine, client
<1>2. /\ Now' = Now /\ Left' = Left /\ Len(outPipe) \in Nat /\ Len(printing) \in Nat /\ Len(got) \in Nat
  BY <1>1 DEF TypeOK, Now, Left
<1>3. printing \in Seq(Prints) /\ outPipe \in Seq(Prints)
  BY <1>1 DEF TypeOK
<1>4. /\ printing' \in Seq(Prints) /\ Len(printing') = Len(printing) - 1 /\ Len(printing) >= 1
      /\ \A i \in 1..Len(printing) - 1 : printing'[i] = printing[i + 1]
      /\ Head(printing) = printing[1] /\ Head(printing) \in Prints
  BY <1>1, <1>3, Rest
<1>5. /\ outPipe' \in Seq(Prints) /\ Len(outPipe') = Len(outPipe) + 1
      /\ \A i \in 1..Len(outPipe) + 1 :
           outPipe'[i] = IF i = Len(outPipe) + 1 THEN printing[1] ELSE outPipe[i]
  <2> DEFINE line == Head(printing)
  <2>1. line \in Prints /\ outPipe' = Append(outPipe, line) /\ line = printing[1]
    BY <1>1, <1>4, Zenon
  <2> HIDE DEF line
  <2>2. /\ Append(outPipe, line) \in Seq(Prints) /\ Len(Append(outPipe, line)) = Len(outPipe) + 1
        /\ \A i \in 1..Len(outPipe) + 1 :
             Append(outPipe, line)[i] = IF i = Len(outPipe) + 1 THEN line ELSE outPipe[i]
    BY <1>3, <2>1, Appended
  <2> QED BY <2>1, <2>2, Zenon
<1>6. /\ Len(outPipe') + Len(printing') = Len(outPipe) + Len(printing)
      /\ Len(outPipe') <= OutCap
  BY <1>1, <1>2, <1>4, <1>5
<1>7. TypeOK'
  BY <1>1, <1>2, <1>4, <1>5, <1>6 DEF TypeOK
<1>8. AnswersRight' /\ Numbered'
  BY <1>1, <1>2 DEF AnswersRight, Numbered
\* The only line there is moves.
<1>9. ASSUME Len(outPipe) + Len(printing) <= 1
      PROVE  /\ Len(printing) = 1 /\ Len(outPipe) = 0 /\ Len(printing') = 0 /\ Len(outPipe') = 1
             /\ outPipe'[1] = printing[1]
  <2>1. Len(printing) = 1 /\ Len(outPipe) = 0
    BY <1>2, <1>4, <1>9
  <2>2. Len(printing') = 0 /\ Len(outPipe') = 1
    BY <1>4, <1>5, <2>1
  <2>3. outPipe'[1] = printing[1]
    BY <1>5, <2>1
  <2> QED BY <2>1, <2>2, <2>3
<1>10. ~Quiet
  BY <1>1 DEF Quiet
<1>11. OneError => OneError' /\ solver # "running"
  <2> SUFFICES ASSUME OneError PROVE OneError' /\ solver # "running"
    OBVIOUS
  <2>1. Len(outPipe) + Len(printing) <= 1 /\ solver # "running"
    BY <1>10 DEF OneError
  <2>2. printing[1][1] = "error"
    <3>1. 1 \in 1..Len(printing)
      BY <1>9, <2>1
    <3> QED BY <3>1 DEF OneError
  <2>3. /\ \A i \in 1..Len(outPipe') : outPipe'[i][1] = "error"
        /\ \A i \in 1..Len(printing') : printing'[i][1] = "error"
    BY <1>9, <2>1, <2>2
  <2> QED BY <1>1, <1>6, <2>1, <2>3 DEF OneError
<1>12. Encoding => Encoding'
  BY <1>1, <1>2, <1>11 DEF Encoding, InOrder, OpAt
<1>13. NoModel => NoModel'
  BY <1>1, <1>2, <1>11 DEF NoModel
<1>14. Checked => Checked'
  <2> SUFFICES ASSUME Checked PROVE Checked'
    OBVIOUS
  <2>1. Len(outPipe) + Len(printing) <= 1
    BY DEF Checked
  <2>2. printing[1][1] \in {"unknown", asked[Now].asserts}
    <3>1. 1 \in 1..Len(printing)
      BY <1>9, <2>1
    <3> QED BY <3>1 DEF Checked
  <2>3. /\ \A i \in 1..Len(outPipe') : outPipe'[i][1] \in {"unknown", asked[Now].asserts}
        /\ \A i \in 1..Len(printing') : printing'[i][1] \in {"unknown", asked[Now].asserts}
    BY <1>9, <2>1, <2>2
  <2> QED BY <1>1, <1>2, <1>6, <2>1, <2>3 DEF Checked
<1>15. Reading => Reading'
  <2> SUFFICES ASSUME Reading PROVE Reading'
    OBVIOUS
  <2>1. /\ Len(got) + Len(outPipe) + Len(printing) = Definitions + 2
        /\ \A i \in 1..Len(outPipe) : outPipe[i] = ModelLine(Len(got) + i, Now)
        /\ \A i \in 1..Len(printing) : printing[i] = ModelLine(Len(got) + Len(outPipe) + i, Now)
    BY DEF Reading
  <2>2. ASSUME NEW i \in 1..Len(outPipe') PROVE outPipe'[i] = ModelLine(Len(got) + i, Now)
    <3>1. CASE i = Len(outPipe) + 1
      <4>1. 1 \in 1..Len(printing) /\ Len(got) + Len(outPipe) + 1 = Len(got) + i
        BY <1>2, <1>4, <3>1
      <4>2. printing[1] = ModelLine(Len(got) + Len(outPipe) + 1, Now)
        BY <2>1, <4>1, Zenon
      <4>3. outPipe'[i] = printing[1]
        BY <1>5, <3>1, Zenon
      <4> QED BY <4>1, <4>2, <4>3, Zenon
    <3>2. CASE i # Len(outPipe) + 1
      <4>1. i \in 1..Len(outPipe) /\ i \in 1..Len(outPipe) + 1
        BY <1>2, <1>5, <3>2
      <4>2. outPipe'[i] = outPipe[i]
        BY <1>5, <3>2, <4>1, Zenon
      <4> QED BY <2>1, <4>1, <4>2, Zenon
    <3> QED BY <3>1, <3>2
  <2>3. ASSUME NEW i \in 1..Len(printing')
        PROVE  printing'[i] = ModelLine(Len(got) + Len(outPipe') + i, Now)
    <3>1. i \in 1..Len(printing) - 1
      BY <1>4
    <3>2. i + 1 \in 1..Len(printing) /\ Len(got) + Len(outPipe') + i = Len(got) + Len(outPipe) + (i + 1)
      BY <1>2, <1>5, <3>1
    <3>3. printing'[i] = printing[i + 1]
      BY <1>4, <3>1, Zenon
    <3> QED BY <2>1, <3>2, <3>3, Zenon
  <2>4. Len(got) + Len(outPipe') + Len(printing') = Definitions + 2
    BY <1>2, <1>4, <1>5, <2>1
  <2> QED BY <1>1, <1>2, <2>2, <2>3, <2>4 DEF Reading, ModelLine
<1>16. ~Resting /\ ~AskingNothing /\ ~WantingModel
  BY <1>10 DEF Resting, AskingNothing, WantingModel
<1>17. Ending => Ending'
  BY <1>1, <1>2 DEF Ending
<1> QED BY <1>1, <1>2, <1>7, <1>8, <1>12, <1>13, <1>14, <1>15, <1>16, <1>17 DEF SessionInv, UnderWay

\* The solver takes the first command of the pipe.
LEMMA Taken ==
  ASSUME TypeOK, Obey
  PROVE  /\ inPipe' \in Seq(Commands) /\ Len(inPipe) \in Nat /\ Len(inPipe) >= 1
         /\ Len(inPipe') = Len(inPipe) - 1
         /\ \A i \in 1..Len(inPipe) - 1 : inPipe'[i] = inPipe[i + 1]
         /\ Head(inPipe) = inPipe[1] /\ inPipe[1] \in Commands
<1>1. inPipe \in Seq(Commands) /\ inPipe # <<>> /\ inPipe' = Tail(inPipe)
  BY DEF TypeOK, Obey
<1>2. /\ Tail(inPipe) \in Seq(Commands) /\ Len(Tail(inPipe)) = Len(inPipe) - 1
      /\ Len(inPipe) >= 1 /\ Len(inPipe) \in Nat
      /\ Head(inPipe) = inPipe[1] /\ Head(inPipe) \in Commands
      /\ \A i \in 1..Len(inPipe) - 1 : Tail(inPipe)[i] = inPipe[i + 1]
  BY <1>1, Rest
<1> QED BY <1>1, <1>2, Zenon

\* What stays as it is, and the types, whatever the command.
LEMMA ObeyTypes ==
  ASSUME TypeOK, AnswersRight, Numbered, Obey, inPipe[1][1] = "model" => context = {Now}
  PROVE  /\ TypeOK' /\ AnswersRight' /\ Numbered'
         /\ UNCHANGED <<pc, asked, results, todo, got, outPipe>>
<1>1. UNCHANGED <<pc, asked, results, todo, got, outPipe>> /\ solver = "running" /\ printing = <<>>
  BY DEF Obey, client
<1>2. /\ inPipe' \in Seq(Commands) /\ Len(inPipe) \in Nat /\ Len(inPipe) >= 1
      /\ Len(inPipe') = Len(inPipe) - 1
      /\ \A i \in 1..Len(inPipe) - 1 : inPipe'[i] = inPipe[i + 1]
      /\ Head(inPipe) = inPipe[1] /\ inPipe[1] \in Commands
  BY Taken, Zenon
<1>3. /\ Now \in Nat /\ Now' = Now /\ Now <= MaxQueries /\ asked \in Seq(Queries)
  BY <1>1 DEF TypeOK, Now
<1>4. AnswersRight'
  BY <1>1 DEF AnswersRight
<1>5. Numbered'
  <2>1. ASSUME NEW i \in 1..Len(inPipe'), inPipe'[i][1] # "exit" PROVE inPipe'[i][2] \in 1..Now
    <3>1. i \in 1..Len(inPipe) - 1 /\ i + 1 \in 1..Len(inPipe)
      BY <1>2
    <3>2. inPipe'[i] = inPipe[i + 1]
      BY <1>2, <3>1, Zenon
    <3> QED BY <2>1, <3>1, <3>2 DEF Numbered
  <2> QED BY <1>3, <2>1 DEF Numbered
<1>6. inPipe[1][1] # "exit" => inPipe[1][2] \in 1..Now
  <2>1. 1 \in 1..Len(inPipe)
    BY <1>2
  <2> QED BY <2>1 DEF Numbered
<1>7. /\ solver' \in {"running", "failing", "dead"} /\ context' \subseteq 1..Now
      /\ produce' \in BOOLEAN /\ verdict' \in {"none", "sat", "unsat", "unknown"}
      /\ printing' \in Seq(Prints)
  <2>0. /\ solver \in {"running", "failing", "dead"} /\ context \subseteq 1..Now
        /\ produce \in BOOLEAN /\ verdict \in {"none", "sat", "unsat", "unknown"}
        /\ printing \in Seq(Prints)
    BY <1>1 DEF TypeOK
  <2> DEFINE op == inPipe[1][1]
             n == inPipe[1][2]
  <2>1. /\ Head(inPipe)[1] = op /\ Head(inPipe)[2] = n
        /\ op # "exit" => n \in 1..Now
    BY <1>2, <1>6
  <2>2. CASE op \in {"reset", "exit"}
    BY <2>0, <2>1, <2>2 DEF Obey
  <2>3. CASE op = "option"
    <3>1. asked[n] \in Queries
      BY <1>3, <2>1, <2>3 DEF Now
    <3>2. produce' = asked[n].models /\ UNCHANGED <<solver, context, verdict, printing>>
      BY <2>1, <2>3 DEF Obey
    <3> QED BY <2>0, <3>1, <3>2 DEF Queries
  <2>4. CASE op \in {"assert", "declare"}
    <3>1. \/ Fails /\ UNCHANGED <<context, produce, verdict>>
          \/ /\ context' = context \/ context' = context \cup {n}
             /\ UNCHANGED <<solver, produce, verdict, printing>>
      BY <2>1, <2>4 DEF Obey, process
    <3>2. <<"error", Now>> \in Prints
      BY <1>3 DEF Prints
    <3>3. Fails => solver' = "failing" /\ printing' \in Seq(Prints)
      BY <3>2 DEF Fails
    <3> QED BY <2>0, <2>1, <2>4, <3>1, <3>3
  <2>5. CASE op = "check"
    <3>1. PICK v \in Truths \cup {"unknown"} : verdict' = v /\ printing' = <<<<v, n>>>>
      BY <2>1, <2>5 DEF Obey
    <3>2. v \in {"sat", "unsat", "unknown"}
      BY DEF Truths
    <3>3. <<v, n>> \in Prints
      BY <1>3, <2>1, <2>5, <3>2 DEF Prints
    <3>4. UNCHANGED <<solver, context, produce>>
      BY <2>1, <2>5 DEF Obey
    <3> QED BY <2>0, <3>1, <3>2, <3>3, <3>4
  <2>6. CASE op = "model"
    <3>1. /\ UNCHANGED <<context, produce, verdict>>
          /\ Fails \/ (printing' = Model(CHOOSE m \in context : TRUE) /\ solver' = solver)
      BY <2>1, <2>6 DEF Obey
    <3>2. <<"error", Now>> \in Prints
      BY <1>3 DEF Prints
    <3>3. Fails => solver' = "failing" /\ printing' \in Seq(Prints)
      BY <3>2 DEF Fails
    <3>4. (CHOOSE m \in context : TRUE) = Now
      BY <2>6
    <3>5. Model(Now) \in Seq(Prints)
      <4>1. Now \in 0..MaxQueries
        BY <1>3
      <4> QED BY <4>1, Models
    <3> QED BY <2>0, <3>1, <3>3, <3>4, <3>5
  <2> QED BY <1>2, <2>2, <2>3, <2>4, <2>5, <2>6 DEF Commands
<1>8. Len(inPipe') <= InCap
  <2>1. Len(inPipe) <= InCap
    BY DEF TypeOK
  <2> QED BY <1>2, <2>1
<1>9. TypeOK'
  BY <1>1, <1>2, <1>3, <1>7, <1>8 DEF TypeOK
<1> QED BY <1>1, <1>4, <1>5, <1>9

\* Before check-sat is obeyed the commands come in their order; what each
\* does leaves the query one command further, or the solver with an error.
LEMMA ObeyEncoding ==
  ASSUME TypeOK, Numbered, Encoding, Obey, UNCHANGED <<pc, asked, results, todo, got, outPipe>>
  PROVE  (Encoding \/ Checked)'
<1>1. /\ inPipe' \in Seq(Commands) /\ Len(inPipe) \in Nat /\ Len(inPipe) >= 1
      /\ Len(inPipe') = Len(inPipe) - 1
      /\ \A i \in 1..Len(inPipe) - 1 : inPipe'[i] = inPipe[i + 1]
      /\ Head(inPipe) = inPipe[1] /\ inPipe[1] \in Commands
  BY Taken, Zenon
<1>2. Now' = Now /\ Len(todo) \in Nat /\ Left \in Nat /\ Left >= 1 /\ Left' = Left - 1
  <2>1. Now' = Now /\ Len(todo) \in Nat /\ todo' = todo
    BY DEF TypeOK, Now
  <2> QED BY <1>1, <2>1 DEF Left
<1>3. /\ pc = IF todo = <<>> THEN "answer" ELSE "emit"
      /\ asked[Now].asserts \in {"unsat", "sat"} /\ got = <<>>
      /\ InOrder /\ solver = "running" /\ Quiet
      /\ Left <= 4 => context = IF Left = 1 THEN {Now} ELSE {}
  BY DEF Encoding, Obey, OneError
<1>4. inPipe[1][1] = OpAt(Left) /\ (inPipe[1][1] # "reset" => inPipe[1][2] = Now)
  <2>1. 1 \in 1..Len(inPipe) /\ Left - 1 + 1 = Left
    BY <1>1, <1>2
  <2>2. /\ inPipe[1][1] = OpAt(Left - 1 + 1)
        /\ inPipe[1][1] # "reset" => inPipe[1][2] = Now
    BY <1>3, <2>1 DEF InOrder
  <2> QED BY <2>1, <2>2
<1>5. InOrder'
  <2>1. ASSUME NEW i \in 1..Len(todo) PROVE todo[i] = <<OpAt(Len(todo) - i + 1), Now>>
    BY <1>3 DEF InOrder
  <2>2. ASSUME NEW i \in 1..Len(inPipe')
        PROVE  /\ inPipe'[i][1] = OpAt(Left' - i + 1)
               /\ inPipe'[i][1] # "reset" => inPipe'[i][2] = Now
    <3>1. i \in 1..Len(inPipe) - 1
      BY <1>1
    <3>2. i + 1 \in 1..Len(inPipe) /\ Left - (i + 1) + 1 = Left' - i + 1
      BY <1>1, <1>2, <3>1
    <3>3. inPipe'[i] = inPipe[i + 1]
      BY <1>1, <3>1, Zenon
    <3>4. /\ inPipe[i + 1][1] = OpAt(Left - (i + 1) + 1)
          /\ inPipe[i + 1][1] # "reset" => inPipe[i + 1][2] = Now
      BY <1>3, <3>2 DEF InOrder
    <3> QED BY <3>2, <3>3, <3>4
  <2> QED BY <1>2, <2>1, <2>2 DEF InOrder
<1> DEFINE op == Head(inPipe)[1]
           n == Head(inPipe)[2]
<1>6. op = OpAt(Left) /\ (op # "reset" => n = Now)
  BY <1>1, <1>4
\* The query stays in Encoding when these three facts hold after the step.
<1>7. ASSUME Left >= 2, OneError',
             solver' = "running" /\ Left' <= 4 => context' = IF Left' = 1 THEN {Now} ELSE {}
      PROVE  Encoding'
  <2>1. Left' >= 1
    BY <1>2, <1>7
  <2> QED BY <1>2, <1>3, <1>5, <1>7, <2>1 DEF Encoding
<1>8. Fails => OneError' /\ solver' = "failing"
  BY <1>3 DEF Fails, OneError, Quiet
<1>9. printing' = printing => OneError'
  BY <1>3 DEF OneError, Quiet
<1>10. CASE Left >= 5
  <2>1. op = "reset"
    BY <1>2, <1>6, <1>10 DEF OpAt
  <2>2. context' = {} /\ printing' = printing
    BY <2>1 DEF Obey
  <2>3. Left >= 2 /\ Left' # 1
    BY <1>2, <1>10
  <2> QED BY <1>7, <1>9, <2>2, <2>3
<1>11. CASE Left = 4
  <2>1. op = "option" /\ context = {} /\ Left' = 3
    BY <1>2, <1>3, <1>6, <1>11 DEF OpAt
  <2>2. context' = {} /\ printing' = printing
    BY <2>1 DEF Obey
  <2> QED BY <1>7, <1>9, <1>11, <2>1, <2>2
<1>12. CASE Left = 3
  <2>1. op = "declare" /\ context = {} /\ Left' = 2
    BY <1>2, <1>3, <1>6, <1>12 DEF OpAt
  <2>2. context' = {} /\ (printing' = printing \/ Fails)
    BY <2>1 DEF Obey, process
  <2> QED BY <1>7, <1>8, <1>9, <1>12, <2>1, <2>2
<1>13. CASE Left = 2
  <2>1. op = "assert" /\ n = Now /\ context = {} /\ Left' = 1
    BY <1>2, <1>3, <1>6, <1>13 DEF OpAt
  <2>2. (context' = {Now} /\ printing' = printing) \/ Fails
    BY <2>1 DEF Obey, process
  <2> QED BY <1>7, <1>8, <1>9, <1>13, <2>1, <2>2
<1>14. CASE Left = 1
  <2>1. op = "check" /\ n = Now /\ context = {Now} /\ Left' = 0
    BY <1>2, <1>3, <1>6, <1>14 DEF OpAt
  <2>2. todo = <<>>
    <3>1. Len(todo) = 0 /\ todo \in Seq(Commands)
      BY <1>1, <1>2, <1>14 DEF Left, TypeOK
    <3> QED BY <3>1, Empty
  <2>3. PICK v \in Truths \cup {"unknown"} : printing' = <<<<v, n>>>>
    BY <2>1 DEF Obey
  <2>4. UNCHANGED <<solver, context>>
    BY <2>1 DEF Obey
  <2>5. v \in {"unknown", asked[Now].asserts}
    <3>1. Held = {asked[Now].asserts}
      BY <2>1 DEF Held
    <3>2. Cardinality(context) = 1
      BY <2>1, FS_Singleton
    <3>3. Truths = {asked[Now].asserts}
      <4>1. CASE asked[Now].asserts = "unsat"
        BY <3>1, <4>1 DEF Truths
      <4>2. CASE asked[Now].asserts = "sat"
        <5>1. "unsat" \notin Held /\ Held \subseteq {"sat"} /\ Cardinality(context) <= 1
          BY <3>1, <3>2, <4>2
        <5> QED BY <4>2, <5>1 DEF Truths
      <4> QED BY <1>3, <4>1, <4>2
    <3> QED BY <3>3
  <2>6. /\ Len(outPipe') = 0 /\ Len(printing') = 1 /\ printing'[1][1] = v
    BY <1>3, <2>3 DEF Quiet
  <2>7. Checked'
    BY <1>2, <1>3, <2>1, <2>2, <2>4, <2>5, <2>6 DEF Checked
  <2> QED BY <2>7
<1> QED BY <1>2, <1>10, <1>11, <1>12, <1>13, <1>14

LEMMA ObeyModel ==
  ASSUME TypeOK, WantingModel, Obey, UNCHANGED <<pc, asked, results, todo, got, outPipe>>
  PROVE  (NoModel \/ Reading)'
<1>1. /\ inPipe' \in Seq(Commands) /\ Len(inPipe) \in Nat /\ Len(inPipe) >= 1
      /\ Len(inPipe') = Len(inPipe) - 1
      /\ Head(inPipe) = inPipe[1]
  BY Taken, Zenon
<1>2. Now' = Now /\ Now \in 0..MaxQueries /\ todo \in Seq(Commands) /\ Len(todo) \in Nat
  BY DEF TypeOK, Now
<1>3. /\ asked[Now].asserts = "sat" /\ got = <<>> /\ outPipe = <<>> /\ context = {Now}
      /\ Left = 1 /\ pc = IF todo = <<>> THEN "open" ELSE "emit"
  BY DEF WantingModel, Quiet, Obey
<1>4. Len(todo) = 0 /\ Left' = 0 /\ Len(inPipe) = 1
  BY <1>1, <1>2, <1>3 DEF Left
<1>5. pc' = "open"
  BY <1>2, <1>3, <1>4, Empty
<1>6. Head(inPipe)[1] = "model"
  <2>1. 1 \in 1..Len(inPipe)
    BY <1>4
  <2> QED BY <1>1, <2>1 DEF WantingModel
<1>7. Fails \/ printing' = Model(Now)
  <2>1. (CHOOSE m \in context : TRUE) = Now
    BY <1>3
  <2>2. Fails \/ printing' = Model(CHOOSE m \in context : TRUE)
    BY <1>6 DEF Obey
  <2> QED BY <2>1, <2>2
<1>8. CASE Fails
  <2>1. printing' = <<<<"error", Now>>>> /\ solver' = "failing" /\ outPipe' = <<>>
    BY <1>3, <1>8 DEF Fails
  <2>2. OneError'
    BY <2>1 DEF OneError
  <2> QED BY <1>3, <1>4, <1>5, <2>1, <2>2 DEF NoModel
<1>9. CASE printing' = Model(Now)
  <2>1. /\ Model(Now) \in Seq(Prints) /\ Len(Model(Now)) = Definitions + 2
        /\ \A i \in 1..Definitions + 2 : Model(Now)[i] = ModelLine(i, Now)
    BY <1>2, Models, Zenon
  <2>2. Len(printing') = Definitions + 2 /\ \A i \in 1..Definitions + 2 : printing'[i] = ModelLine(i, Now)
    BY <1>9, <2>1, Zenon
  <2>3. Len(got') = 0 /\ Len(outPipe') = 0 /\ got' = <<>>
    BY <1>3
  <2>4. ASSUME NEW i \in 1..Len(printing')
        PROVE  printing'[i] = ModelLine(Len(got') + Len(outPipe') + i, Now)
    <3>1. Len(got') + Len(outPipe') + i = i
      BY <2>3
    <3> QED BY <2>2, <3>1, Zenon
  <2>5. Len(got') + Len(outPipe') + Len(printing') = Definitions + 2
    BY <2>2, <2>3
  <2>6. Reading'
    BY <1>2, <1>3, <1>4, <1>5, <2>3, <2>4, <2>5 DEF Reading, ModelLine
  <2> QED BY <2>6
<1> QED BY <1>7, <1>8, <1>9

LEMMA ObeyStep == SessionInv /\ Obey => SessionInv'
<1> SUFFICES ASSUME SessionInv, Obey PROVE SessionInv'
  OBVIOUS
<1>1. TypeOK /\ AnswersRight /\ Numbered /\ Now \in Nat /\ solver = "running" /\ printing = <<>>
  BY DEF SessionInv, Obey, TypeOK, Now
<1>2. /\ inPipe' \in Seq(Commands) /\ Len(inPipe) \in Nat /\ Len(inPipe) >= 1
      /\ Len(inPipe') = Len(inPipe) - 1
      /\ \A i \in 1..Len(inPipe) - 1 : inPipe'[i] = inPipe[i + 1]
      /\ Head(inPipe) = inPipe[1] /\ inPipe[1] \in Commands
  BY <1>1, Taken, Zenon
<1>3. 1 \in 1..Len(inPipe)
  BY <1>2
<1>4. \A i \in 1..Len(inPipe') : i + 1 \in 1..Len(inPipe) /\ inPipe'[i] = inPipe[i + 1]
  <2>1. ASSUME NEW i \in 1..Len(inPipe')
        PROVE  i + 1 \in 1..Len(inPipe) /\ inPipe'[i] = inPipe[i + 1]
    <3>1. i \in 1..Len(inPipe) - 1 /\ i + 1 \in 1..Len(inPipe)
      BY <1>2
    <3> QED BY <1>2, <3>1, Zenon
  <2> QED BY <2>1
\* get-model is only obeyed for the query that wants it.
<1>5. inPipe[1][1] = "model" => WantingModel
  <2> SUFFICES ASSUME inPipe[1][1] = "model" PROVE WantingModel
    OBVIOUS
  <2>1. ~OnlyResets
    BY <1>3 DEF OnlyResets
  <2>2. ~Resting /\ ~AskingNothing
    BY <2>1 DEF Resting, AskingNothing
  <2>3. ~Encoding
    BY <1>3 DEF Encoding, InOrder, OpAt
  <2>4. ~Ending
    BY <1>1, <1>3 DEF Ending
  <2>5. ~Checked /\ ~Reading /\ ~NoModel
    <3>1. Len(todo) \in Nat
      BY <1>1 DEF TypeOK
    <3>2. Left # 0
      BY <1>2, <3>1 DEF Left
    <3> QED BY <3>2 DEF Checked, Reading, NoModel
  <2> QED BY <1>1, <2>2, <2>3, <2>4, <2>5 DEF SessionInv, UnderWay, TypeOK
<1>6. /\ TypeOK' /\ AnswersRight' /\ Numbered'
      /\ UNCHANGED <<pc, asked, results, todo, got, outPipe>>
  <2>1. inPipe[1][1] = "model" => context = {Now}
    BY <1>1, <1>5 DEF WantingModel
  <2> QED BY <1>1, <2>1, ObeyTypes
<1>7. Now' = Now
  BY <1>6 DEF Now
<1>8. OnlyResets /\ Quiet => OnlyResets' /\ Quiet'
  <2> SUFFICES ASSUME OnlyResets, Quiet PROVE OnlyResets' /\ Quiet'
    OBVIOUS
  <2>1. Head(inPipe)[1] = "reset"
    BY <1>2, <1>3 DEF OnlyResets
  <2>2. printing' = printing
    BY <2>1 DEF Obey
  <2> QED BY <1>4, <1>6, <2>2 DEF OnlyResets, Quiet
<1>9. Resting => Resting'
  BY <1>6, <1>7, <1>8 DEF Resting, Model
<1>10. AskingNothing => AskingNothing'
  BY <1>6, <1>7, <1>8 DEF AskingNothing
<1>11. Encoding => (Encoding \/ Checked)'
  BY <1>1, <1>6, ObeyEncoding
<1>12. WantingModel => (NoModel \/ Reading)'
  BY <1>1, <1>6, ObeyModel
<1>13. ~Checked /\ ~Reading /\ ~NoModel
  <2>1. Len(todo) \in Nat
    BY <1>1 DEF TypeOK
  <2>2. Left # 0
    BY <1>2, <2>1 DEF Left
  <2> QED BY <2>2 DEF Checked, Reading, NoModel
<1>14. Ending => Ending'
  BY <1>1, <1>4, <1>6, <1>7 DEF Ending
<1> QED BY <1>6, <1>7, <1>9, <1>10, <1>11, <1>12, <1>13, <1>14 DEF SessionInv, UnderWay

LEMMA SessionStep == SessionInv /\ [Next]_vars => SessionInv'
<1> SUFFICES ASSUME SessionInv, [Next]_vars PROVE SessionInv'
  OBVIOUS
<1>1. CASE \E q \in Queries : Ask(q) \/ Refuse(q)
  BY <1>1, AskStep, RefuseStep
<1>2. CASE Emit
  BY <1>2, EmitStep
<1>3. CASE Abort
  BY <1>3, AbortStep
<1>4. CASE ReadAnswer
  BY <1>4, ReadAnswerStep
<1>5. CASE ReadOpen
  BY <1>5, ReadOpenStep
<1>6. CASE ReadModel
  BY <1>6, ReadModelStep
<1>7. CASE Finish
  BY <1>7, FinishStep
<1>8. CASE Cleanup
  BY <1>8, CleanupStep
<1>9. CASE Reap
  BY <1>9, ReapStep
<1>10. CASE Obey
  BY <1>10, ObeyStep
<1>11. CASE PrintLine
  BY <1>11, PrintLineStep
<1>12. CASE Quit \/ Crash
  BY <1>12, GoneStep
<1>13. CASE UNCHANGED vars
  <2>1. UNCHANGED <<pc, asked, results, todo, got, inPipe, outPipe, solver, context, produce, verdict, printing>>
    BY <1>13 DEF vars, client, process
  <2>2. TypeOK' /\ AnswersRight' /\ Numbered' /\ Now' = Now /\ Left' = Left
    BY <2>1 DEF SessionInv, TypeOK, AnswersRight, Numbered, Now, Left
  <2>3. (Resting => Resting') /\ (AskingNothing => AskingNothing') /\ (Ending => Ending')
    BY <2>1, <2>2 DEF Resting, AskingNothing, Ending, Quiet, OnlyResets, Model
  <2>4. OneError => OneError'
    BY <2>1 DEF OneError, Quiet
  <2>5. (Encoding => Encoding') /\ (NoModel => NoModel')
    BY <2>1, <2>2, <2>4 DEF Encoding, NoModel, InOrder, OpAt
  <2>6. (Checked => Checked') /\ (WantingModel => WantingModel')
    BY <2>1, <2>2 DEF Checked, WantingModel, Quiet
  <2>7. Reading => Reading'
    BY <2>1, <2>2 DEF Reading, ModelLine
  <2> QED BY <2>1, <2>2, <2>3, <2>5, <2>6, <2>7 DEF SessionInv, UnderWay
<1> QED BY <1>1, <1>2, <1>3, <1>4, <1>5, <1>6, <1>7, <1>8, <1>9, <1>10, <1>11, <1>12, <1>13
        DEF Next, Client, Solver

-------------------------------------------------------------------------------
\* The invariant of the session, of which the properties are parts.
THEOREM SessionInvariant == Spec => []SessionInv
<1> QED BY SessionInitial, SessionStep, PTL DEF Spec

\* The pipes never hold more than they can, and the solver holds asserts of
\* queries that were asked, for every number of queries and capacity
\* (Solver.lean:167-171 and 212-249).
THEOREM SessionTypes == Spec => []TypeOK
<1>1. SessionInv => TypeOK
  BY DEF SessionInv
<1> QED BY <1>1, SessionInvariant, PTL

\* Every answer is the answer to its query, whatever was asked before it
\* and whatever happens to the solver (SatUnsat.lean:48-66 and 119-131).
THEOREM AnswersAreRight == Spec => []AnswersRight
<1>1. SessionInv => AnswersRight
  BY DEF SessionInv
<1> QED BY <1>1, SessionInvariant, PTL

\* A counterexample is read from the whole model of its own query
\* (Solver.lean:234-249).
THEOREM ModelsAreWhole == Spec => []ModelsWhole
<1>1. SessionInv => ModelsWhole
  BY DEF SessionInv, ModelsWhole, Resting
<1> QED BY <1>1, SessionInvariant, PTL

\* Between queries nothing is left of the one before that could be taken
\* for an answer (Solver.lean:167-171 and 212-221).
THEOREM NothingIsPending == Spec => []NothingPending
<1>1. SessionInv => NothingPending
  <2> SUFFICES ASSUME SessionInv, pc = "idle"
               PROVE  /\ outPipe = <<>> /\ printing = <<>>
                      /\ \A i \in DOMAIN inPipe : inPipe[i][1] \notin {"check", "model"}
    BY DEF NothingPending
  <2>1. Quiet /\ OnlyResets /\ inPipe \in Seq(Commands)
    BY DEF SessionInv, Resting, TypeOK
  <2> QED BY <2>1 DEF Quiet, OnlyResets
<1> QED BY <1>1, SessionInvariant, PTL

===============================================================================
