-------------------------- MODULE RustPrograms_proofs --------------------------
(* The theorems about the programs in Rust around the specification: the objects *)
(* that cross between Rust and Lean, the pool of solvers of the fuzz targets, the*)
(* command line, the analysis of policies it carries out, the generators of the  *)
(* entities, policies and requests a fuzz target is handed, and the benchmarks.  *)
EXTENDS LeanCli, LeanRuntime, SolverPool, EntityGenerator, Benchmarking,
        FiniteSetTheorems, SequenceTheorems, WellFoundedInduction, TLAPS

-------------------------------------------------------------------------------
(* LeanRuntime: every object that crosses between Rust and Lean is counted      *)
(* right, for every heap and every sequence of calls. Counted is not inductive: *)
(* that an argument was a fresh object and that a string answer holds nothing   *)
(* are facts about the steps before, so the invariant says what the heap looks  *)
(* like at each stage of a call.                                                *)

\* Between calls the only object is the schema of the client.
IdleShape ==
  /\ call.args = <<>> /\ call.ret = NoObject
  /\ \A o \in Objects : inner[o] = NoObject /\ rc[o] = One(leanSchema = o)

\* A call that was built holds its arguments, the schema perhaps among them.
BuiltShape ==
  /\ call.ret = NoObject
  /\ call.f = LoadSchema => leanSchema = NoObject
  /\ Len(call.args) = Arity(call.f)
  /\ \A o \in Objects : /\ inner[o] = NoObject
                        /\ rc[o] = One(leanSchema = o) + One(o \in ToSet(call.args))

\* A response is an object of its own, and the only one that may hold another.
AnsweredShape ==
  /\ call.args = <<>> /\ call.ret \in Objects
  /\ leanSchema # call.ret /\ inner[call.ret] # call.ret
  /\ \A o \in Objects :
       /\ o # call.ret => inner[o] = NoObject
       /\ rc[o] = One(leanSchema = o) + One(call.ret = o) + One(inner[call.ret] = o)
  /\ call.stage = "returned" /\ call.f = LoadSchema =>
       leanSchema = NoObject /\ (call.reply = "ok" => inner[call.ret] # NoObject)

RuntimeInv ==
  /\ RuntimeTypeOK
  /\ call.stage = "none" => IdleShape
  /\ call.stage \in {"built", "aborted"} => BuiltShape
  /\ call.stage \in {"returned", "decoded"} => AnsweredShape
  /\ thread => start = "done"
  /\ ~Idle => thread
  /\ leanSchema # NoObject => start = "done"

USE NoObjectAssumption

-------------------------------------------------------------------------------
\* How many arguments each kind of function declares.
LEMMA Arities ==
  /\ \A f \in TakesProtobuf : Arity(f) = 1
  /\ \A f \in TakesSchema : Arity(f) = 2
  /\ \A f \in GivenRawModel : Arity(f) = 3
<1>1. \A f \in GivenRawModel : f[1] = "runCheckWithCexGivenRawModel"
  BY DEF GivenRawModel
<1>2. \A f \in TakesSchema :
        \/ f[1] \in {"runCheck", "runCheckWithCex", "printCheck", "assertsOfCheck", "smtLibOfCheck"}
        \/ f[1] = "validate" /\ f[2] \in {"PartialEntities", "PartialRequest"}
  BY DEF TakesSchema, RunChecks, PrintChecks, AssertsOf, SmtLibOf, AssertsChecks, PartialValidations
<1>3. \A f \in TakesProtobuf :
        \/ f[1] \in {"print", "check", "level", "batched", "partial", "reauthorize",
                     "consistency", "is", "load"}
        \/ f[1] = "validate" /\ f[2] \in {"Policies", "Entities", "Request"}
  BY DEF TakesProtobuf, Evaluations, Validations, PartialCalls, Consistency, IsAuthorized, LoadSchema
<1>4. \A f \in TakesProtobuf : f \notin GivenRawModel /\ f \notin TakesSchema
  BY <1>1, <1>2, <1>3
<1>5. \A f \in TakesSchema : f \notin GivenRawModel
  BY <1>1, <1>2
<1> QED BY <1>4, <1>5 DEF Arity

LEMMA LoadIsNotSchema == /\ LoadSchema \in TakesProtobuf
                         /\ LoadSchema \notin TakesSchema /\ LoadSchema \notin GivenRawModel
<1>1. LoadSchema[1] = "load"
  BY DEF LoadSchema
<1>2. LoadSchema \in TakesProtobuf
  BY DEF TakesProtobuf
<1>3. Arity(LoadSchema) = 1
  BY <1>2, Arities
<1> QED BY <1>2, <1>3, Arities

LEMMA SetsOfArgs ==
  ASSUME NEW a, NEW b, NEW c
  PROVE  /\ ToSet(<<>>) = {} /\ ToSet(<<a>>) = {a}
         /\ ToSet(<<a, b>>) = {a, b} /\ ToSet(<<a, b, c>>) = {a, b, c}
  BY DEF ToSet

LEMMA NoCallType ==
  NoCall \in [f : Functions, stage : {"none", "built", "returned", "decoded", "aborted"},
               args : Seq(Objects), ret : Objects \cup {NoObject}, reply : Replies]
<1>1. LoadSchema \in Functions
  BY LoadIsNotSchema DEF Functions
<1> QED BY <1>1 DEF NoCall, Replies

LEMMA RuntimeInitial == RuntimeInit => RuntimeInv
<1> SUFFICES ASSUME RuntimeInit PROVE RuntimeInv
  OBVIOUS
<1>3. RuntimeTypeOK
  BY NoCallType DEF RuntimeInit, RuntimeTypeOK, Answers
<1>4. IdleShape
  BY DEF RuntimeInit, IdleShape, NoCall, One
<1> QED BY <1>3, <1>4 DEF RuntimeInv, RuntimeInit, NoCall, Idle

-------------------------------------------------------------------------------
\* Beginning a call: the client's schema gains a reference, what is new has one.
LEMMA BeginStep ==
  ASSUME RuntimeInv, NEW f \in Functions, NEW given \in Seq(Objects), NEW fresh \in SUBSET Objects,
         Idle, thread, \A o \in fresh : rc[o] = 0,
         Len(given) = Arity(f), f = LoadSchema => leanSchema = NoObject,
         \/ ToSet(given) = fresh
         \/ leanSchema # NoObject /\ ToSet(given) = fresh \cup {leanSchema},
         rc' \in [Objects -> Nat],
         \A o \in Objects : rc'[o] = IF o \in ToSet(given) THEN rc[o] + 1 ELSE rc[o],
         call' = [f |-> f, stage |-> "built", args |-> given, ret |-> NoObject, reply |-> "none"],
         answer' = "none", UNCHANGED <<start, thread, inner, leanSchema>>
  PROVE  RuntimeInv'
<1>1. call' = [f |-> f, stage |-> "built", args |-> given, ret |-> NoObject, reply |-> "none"]
  OBVIOUS
<1>2. RuntimeTypeOK'
  <2>1. call' \in [f : Functions, stage : {"none", "built", "returned", "decoded", "aborted"},
                   args : Seq(Objects), ret : Objects \cup {NoObject}, reply : Replies]
    BY <1>1 DEF Replies
  <2> QED BY <2>1 DEF RuntimeInv, RuntimeTypeOK, Answers
<1>3. IdleShape
  BY DEF RuntimeInv, Idle
<1>4. BuiltShape'
  <2>1. \A o \in Objects : rc'[o] = One(leanSchema' = o) + One(o \in ToSet(call'.args))
    BY <1>1, <1>3 DEF IdleShape, One
  <2>2. call'.f = f /\ call'.args = given /\ call'.ret = NoObject
    BY <1>1
  <2>3. \A o \in Objects : inner'[o] = NoObject
    BY <1>3 DEF IdleShape
  <2>4. Len(call'.args) = Arity(call'.f)
    BY <2>2
  <2> QED BY <2>1, <2>2, <2>3, <2>4 DEF BuiltShape
<1> QED BY <1>1, <1>2, <1>4 DEF RuntimeInv, Idle

LEMMA ReturnStep ==
  ASSUME RuntimeInv, NEW ret \in Objects, NEW held \in Objects \cup {NoObject},
         NEW reply \in Replies \ {"none"}, LeanReturns(ret, held, reply)
  PROVE  RuntimeInv'
<1>1. BuiltShape /\ RuntimeTypeOK /\ call.stage = "built" /\ rc[ret] = 0
  BY DEF RuntimeInv, LeanReturns, Free
<1>2. /\ call'.stage = "returned" /\ call'.args = <<>> /\ call'.ret = ret
      /\ call'.reply = reply /\ call'.f = call.f
  <2>1. call' = [call EXCEPT !.stage = "returned", !.args = <<>>, !.ret = ret, !.reply = reply]
    BY DEF LeanReturns
  <2> QED BY <1>1, <2>1 DEF RuntimeTypeOK
<1>3. call' \in [f : Functions, stage : {"none", "built", "returned", "decoded", "aborted"},
                 args : Seq(Objects), ret : Objects \cup {NoObject}, reply : Replies]
  <2>1. /\ call' = [call EXCEPT !.stage = "returned", !.args = <<>>, !.ret = ret, !.reply = reply]
        /\ call \in [f : Functions, stage : {"none", "built", "returned", "decoded", "aborted"},
                     args : Seq(Objects), ret : Objects \cup {NoObject}, reply : Replies]
    BY <1>1 DEF LeanReturns, RuntimeTypeOK
  <2>2. call' = [f |-> call.f, stage |-> "returned", args |-> <<>>, ret |-> ret, reply |-> reply]
    BY <2>1
  <2>3. call.f \in Functions /\ <<>> \in Seq(Objects)
    BY <2>1
  <2> QED BY <2>2, <2>3
<1>4. Forget(Consumed) = [o \in Objects |-> One(leanSchema = o)]
  BY <1>1 DEF Forget, Consumed, BuiltShape, One
<1>5. leanSchema # ret
  BY <1>1 DEF BuiltShape, One
<1>6. CASE call.f = LoadSchema /\ reply # "garbled"
  <2>1. /\ held \in Objects /\ held # ret /\ leanSchema = NoObject /\ rc[held] = 0
        /\ rc' = [[o \in Objects |-> One(leanSchema = o)] EXCEPT ![ret] = 1, ![held] = 1]
        /\ inner' = [inner EXCEPT ![ret] = held]
    BY <1>1, <1>4, <1>6 DEF LeanReturns, Free, BuiltShape
  <2>2. \A o \in Objects : rc'[o] = One(ret = o) + One(held = o)
    <3>1. \A o \in Objects : One(leanSchema = o) = 0
      BY <2>1, NoObjectAssumption DEF One
    <3>2. \A o \in Objects : rc'[o] = IF o = held \/ o = ret THEN 1 ELSE One(leanSchema = o)
      BY <2>1
    <3>3. \A o \in Objects : rc'[o] = IF o = held \/ o = ret THEN 1 ELSE 0
      BY <3>1, <3>2
    <3> QED BY <2>1, <3>3 DEF One
  <2>3. rc' \in [Objects -> Nat] /\ inner' \in [Objects -> Objects \cup {NoObject}]
    BY <1>1, <2>1 DEF RuntimeTypeOK, One
  <2>4. inner'[ret] = held /\ \A o \in Objects : o # ret => inner'[o] = NoObject
    BY <1>1, <2>1 DEF RuntimeTypeOK, BuiltShape
  <2>5. UNCHANGED <<start, thread, leanSchema, answer>>
    BY DEF LeanReturns
  <2>6. AnsweredShape'
    BY <1>2, <1>5, <2>1, <2>2, <2>4, <2>5 DEF AnsweredShape, One
  <2>7. RuntimeTypeOK'
    BY <1>1, <1>3, <2>3, <2>5 DEF RuntimeTypeOK
  <2> QED BY <1>1, <1>2, <2>5, <2>6, <2>7 DEF RuntimeInv, Idle
<1>7. CASE ~(call.f = LoadSchema /\ reply # "garbled")
  <2>1. /\ rc' = [[o \in Objects |-> One(leanSchema = o)] EXCEPT ![ret] = 1]
        /\ inner' = inner
    BY <1>4, <1>7 DEF LeanReturns
  <2>2. \A o \in Objects : rc'[o] = One(leanSchema = o) + One(ret = o)
    BY <1>5, <2>1 DEF One
  <2>3. rc' \in [Objects -> Nat]
    BY <2>1 DEF One
  <2>4. UNCHANGED <<start, thread, leanSchema, answer>>
    BY DEF LeanReturns
  <2>5. AnsweredShape'
    <3>1. inner'[ret] = NoObject /\ \A o \in Objects : inner'[o] = NoObject
      BY <1>1, <2>1 DEF BuiltShape
    <3>2. \A o \in Objects : One(inner'[ret] = o) = 0
      BY <3>1 DEF One
    <3>3. \A o \in Objects : rc'[o] = One(leanSchema' = o) + One(ret = o) + One(inner'[ret] = o)
      BY <2>2, <2>4, <3>2 DEF One
    <3>4. call'.f = LoadSchema => leanSchema' = NoObject /\ reply # "ok"
      BY <1>1, <1>2, <1>7, <2>4 DEF BuiltShape
    <3> QED BY <1>2, <1>5, <2>4, <3>1, <3>3, <3>4 DEF AnsweredShape
  <2>6. RuntimeTypeOK'
    BY <1>1, <1>3, <2>1, <2>3, <2>4 DEF RuntimeTypeOK
  <2> QED BY <1>1, <1>2, <2>4, <2>5, <2>6 DEF RuntimeInv, Idle
<1> QED BY <1>6, <1>7

LEMMA DecodeSchemaStep == RuntimeInv /\ DecodeSchema => RuntimeInv'
<1> SUFFICES ASSUME RuntimeInv, DecodeSchema PROVE RuntimeInv'
  OBVIOUS
<1>1. /\ AnsweredShape /\ RuntimeTypeOK /\ call.stage = "returned" /\ call.f = LoadSchema
      /\ leanSchema = NoObject
  BY DEF RuntimeInv, DecodeSchema, AnsweredShape
<1>2. /\ call' = [call EXCEPT !.stage = "decoded"] /\ UNCHANGED <<start, thread, inner>>
      /\ call'.stage = "decoded" /\ call'.f = call.f /\ call'.args = call.args
      /\ call'.ret = call.ret /\ call'.reply = call.reply
  BY <1>1 DEF DecodeSchema, RuntimeTypeOK
<1>3. call' \in [f : Functions, stage : {"none", "built", "returned", "decoded", "aborted"},
                 args : Seq(Objects), ret : Objects \cup {NoObject}, reply : Replies]
  BY <1>1, <1>2 DEF RuntimeTypeOK
<1>4. CASE call.reply = "ok"
  <2>1. /\ leanSchema' = inner[call.ret] /\ answer' = "value"
        /\ rc' = [rc EXCEPT ![inner[call.ret]] = @ + 1]
        /\ inner[call.ret] \in Objects /\ inner[call.ret] # call.ret
    BY <1>1, <1>4 DEF DecodeSchema, AnsweredShape, RuntimeTypeOK
  <2>2. rc' \in [Objects -> Nat]
    BY <1>1, <2>1 DEF RuntimeTypeOK
  <2>3. \A o \in Objects :
          rc'[o] = One(leanSchema' = o) + One(call.ret = o) + One(inner[call.ret] = o)
    BY <1>1, <2>1 DEF AnsweredShape, RuntimeTypeOK, One
  <2>4. AnsweredShape'
    BY <1>1, <1>2, <2>1, <2>3 DEF AnsweredShape
  <2>5. RuntimeTypeOK'
    BY <1>1, <1>2, <1>3, <2>1, <2>2 DEF RuntimeTypeOK, Answers
  <2> QED BY <1>1, <1>2, <2>4, <2>5 DEF RuntimeInv, Idle
<1>5. CASE call.reply # "ok"
  <2>1. answer' \in Answers /\ UNCHANGED <<rc, leanSchema>>
    BY <1>5 DEF DecodeSchema, Answers
  <2>2. AnsweredShape'
    BY <1>1, <1>2, <2>1 DEF AnsweredShape
  <2>3. RuntimeTypeOK'
    BY <1>1, <1>2, <1>3, <2>1 DEF RuntimeTypeOK
  <2> QED BY <1>1, <1>2, <2>1, <2>2, <2>3 DEF RuntimeInv, Idle
<1> QED BY <1>4, <1>5

LEMMA DecodeAnswerStep == RuntimeInv /\ DecodeAnswer => RuntimeInv'
<1> SUFFICES ASSUME RuntimeInv, DecodeAnswer PROVE RuntimeInv'
  OBVIOUS
<1>1. AnsweredShape /\ RuntimeTypeOK /\ call.stage = "returned"
  BY DEF RuntimeInv, DecodeAnswer
<1>2. /\ UNCHANGED <<start, thread, rc, inner, leanSchema>>
      /\ call' = [call EXCEPT !.stage = "decoded"]
      /\ call'.stage = "decoded" /\ call'.f = call.f /\ call'.args = call.args
      /\ call'.ret = call.ret /\ call'.reply = call.reply
  BY <1>1 DEF DecodeAnswer, RuntimeTypeOK
<1>3. answer' \in Answers
  BY DEF DecodeAnswer, Decoded, Answers
<1>4. RuntimeTypeOK'
  BY <1>1, <1>2, <1>3 DEF RuntimeTypeOK
<1>5. AnsweredShape'
  BY <1>1, <1>2 DEF AnsweredShape
<1> QED BY <1>1, <1>2, <1>4, <1>5 DEF RuntimeInv, Idle

LEMMA DropResponseStep == RuntimeInv /\ DropResponse => RuntimeInv'
<1> SUFFICES ASSUME RuntimeInv, DropResponse PROVE RuntimeInv'
  OBVIOUS
<1>1. AnsweredShape /\ RuntimeTypeOK /\ call.stage = "decoded" /\ thread /\ start = "done"
  BY DEF RuntimeInv, DropResponse, Idle
<1>2. /\ rc' = Dropped(rc, call.ret) /\ inner' = Emptied(rc') /\ call' = NoCall
      /\ UNCHANGED <<start, thread, leanSchema, answer>>
  BY DEF DropResponse
<1>3. rc[call.ret] = 1 /\ call.ret \in Objects
  BY <1>1 DEF AnsweredShape, One
<1>4. rc' \in [Objects -> Nat] /\ \A o \in Objects : rc'[o] = One(leanSchema = o)
  <2>1. CASE inner[call.ret] # NoObject
    <3>1. inner[call.ret] \in Objects /\ inner[call.ret] # call.ret
      BY <1>1, <1>3, <2>1 DEF RuntimeTypeOK, AnsweredShape
    <3>2. rc' = [rc EXCEPT ![call.ret] = 0, ![inner[call.ret]] = @ - 1]
      BY <1>2, <1>3, <2>1 DEF Dropped
    <3>3. \A o \in Objects : rc'[o] = One(leanSchema = o)
      BY <1>1, <1>3, <3>1, <3>2 DEF RuntimeTypeOK, AnsweredShape, One
    <3>4. rc' = [o \in Objects |-> rc'[o]]
      BY <1>1, <3>2 DEF RuntimeTypeOK
    <3> QED BY <3>3, <3>4 DEF One
  <2>2. CASE inner[call.ret] = NoObject
    <3>1. rc' = [rc EXCEPT ![call.ret] = @ - 1]
      BY <1>2, <2>2 DEF Dropped
    <3>2. \A o \in Objects : rc'[o] = One(leanSchema = o)
      BY <1>1, <1>3, <2>2, <3>1 DEF RuntimeTypeOK, AnsweredShape, One
    <3>3. rc' = [o \in Objects |-> rc'[o]]
      BY <1>1, <3>1 DEF RuntimeTypeOK
    <3> QED BY <3>2, <3>3 DEF One
  <2> QED BY <2>1, <2>2
<1>5. \A o \in Objects : inner'[o] = NoObject
  BY <1>1, <1>2, <1>4 DEF Emptied, AnsweredShape, One
<1>6. inner' \in [Objects -> Objects \cup {NoObject}]
  BY <1>1, <1>2 DEF Emptied, RuntimeTypeOK
<1>8. RuntimeTypeOK'
  BY <1>1, <1>2, <1>4, <1>6, NoCallType DEF RuntimeTypeOK
<1>9. IdleShape'
  BY <1>2, <1>4, <1>5 DEF IdleShape, NoCall
<1> QED BY <1>1, <1>2, <1>8, <1>9 DEF RuntimeInv, NoCall, Idle

LEMMA DropSchemaStep == RuntimeInv /\ DropSchema => RuntimeInv'
<1> SUFFICES ASSUME RuntimeInv, DropSchema PROVE RuntimeInv'
  OBVIOUS
<1>1. IdleShape /\ RuntimeTypeOK /\ call.stage = "none" /\ leanSchema \in Objects
  BY DEF RuntimeInv, DropSchema, Idle, RuntimeTypeOK
<1>2. /\ rc' = [rc EXCEPT ![leanSchema] = @ - 1] /\ inner' = Emptied(rc')
      /\ leanSchema' = NoObject /\ UNCHANGED <<start, thread, call, answer>>
  BY <1>1 DEF DropSchema, Dropped, IdleShape
<1>3. rc' = [o \in Objects |-> 0]
  <2>1. rc \in [Objects -> Nat] /\ rc[leanSchema] = 1
        /\ \A o \in Objects : o # leanSchema => rc[o] = 0
    BY <1>1 DEF RuntimeTypeOK, IdleShape, One
  <2>2. DOMAIN rc' = Objects /\ \A o \in Objects : rc'[o] = 0
    BY <1>1, <1>2, <2>1
  <2> QED BY <1>2, <2>1, <2>2
<1>4. inner' = [o \in Objects |-> NoObject]
  BY <1>2, <1>3 DEF Emptied
<1>5. RuntimeTypeOK'
  <2>1. rc' \in [Objects -> Nat] /\ inner' \in [Objects -> Objects \cup {NoObject}]
    BY <1>3, <1>4
  <2> QED BY <1>1, <1>2, <2>1 DEF RuntimeTypeOK
<1>6. IdleShape'
  BY <1>1, <1>2, <1>3, <1>4 DEF IdleShape, One
<1> QED BY <1>1, <1>2, <1>5, <1>6 DEF RuntimeInv, Idle

-------------------------------------------------------------------------------
LEMMA RuntimeStep == RuntimeInv /\ [RuntimeNext]_runtimeVars => RuntimeInv'
<1> SUFFICES ASSUME RuntimeInv, [RuntimeNext]_runtimeVars PROVE RuntimeInv'
  OBVIOUS
<1>1. CASE New
  BY <1>1 DEF New, RuntimeInv, RuntimeTypeOK, IdleShape, Idle
<1>2. ASSUME NEW f \in TakesProtobuf, NEW o \in Objects, BeginProtobuf(f, o) PROVE RuntimeInv'
  <2>1. f \in Functions /\ Arity(f) = 1
    BY Arities DEF Functions
  <2>2. ToSet(<<o>>) = {o} /\ <<o>> \in Seq(Objects) /\ Len(<<o>>) = 1
    <3>1. ToSet(<<o>>) = {o}
      BY SetsOfArgs, Zenon
    <3> QED BY <3>1
  <2>3. rc \in [Objects -> Nat] /\ rc[o] = 0 /\ rc' = [rc EXCEPT ![o] = 1]
    BY <1>2 DEF BeginProtobuf, RuntimeInv, RuntimeTypeOK, Free
  <2>4. rc' \in [Objects -> Nat]
        /\ \A x \in Objects : rc'[x] = IF x \in ToSet(<<o>>) THEN rc[x] + 1 ELSE rc[x]
    BY <2>2, <2>3
  <2> DEFINE fresh == {o}
  <2>5. fresh \in SUBSET Objects /\ \A x \in fresh : rc[x] = 0
    BY <2>3
  <2> HIDE DEF fresh
  <2>6. ToSet(<<o>>) = fresh
    BY <2>2 DEF fresh
  <2> QED BY <1>2, <2>1, <2>2, <2>4, <2>5, <2>6, BeginStep DEF BeginProtobuf, NoCall
<1>3. ASSUME NEW f \in TakesSchema, NEW o \in Objects, BeginWithSchema(f, o) PROVE RuntimeInv'
  <2>1. f \in Functions /\ Arity(f) = 2 /\ f # LoadSchema
    BY Arities, LoadIsNotSchema DEF Functions
  <2>2. leanSchema \in Objects /\ leanSchema # NoObject /\ rc \in [Objects -> Nat]
        /\ rc[leanSchema] = 1
    BY <1>3 DEF BeginWithSchema, RuntimeInv, RuntimeTypeOK, IdleShape, Idle, One
  <2>3. ToSet(<<leanSchema, o>>) = {o} \cup {leanSchema} /\ <<leanSchema, o>> \in Seq(Objects)
        /\ Len(<<leanSchema, o>>) = 2
    <3>1. ToSet(<<leanSchema, o>>) = {leanSchema, o}
      BY SetsOfArgs, Zenon
    <3> QED BY <2>2, <3>1
  <2>4. rc[o] = 0 /\ rc' = [rc EXCEPT ![leanSchema] = @ + 1, ![o] = 1]
    BY <1>3 DEF BeginWithSchema, Free
  <2>5. rc' \in [Objects -> Nat]
        /\ \A x \in Objects : rc'[x] = IF x \in ToSet(<<leanSchema, o>>) THEN rc[x] + 1 ELSE rc[x]
    BY <2>2, <2>3, <2>4
  <2> DEFINE fresh == {o}
  <2>6. fresh \in SUBSET Objects /\ \A x \in fresh : rc[x] = 0
    BY <2>4
  <2> HIDE DEF fresh
  <2>7. ToSet(<<leanSchema, o>>) = fresh \cup {leanSchema}
    BY <2>3 DEF fresh
  <2> QED BY <1>3, <2>1, <2>2, <2>3, <2>5, <2>6, <2>7, BeginStep DEF BeginWithSchema, NoCall
<1>4. ASSUME NEW f \in GivenRawModel, NEW o \in Objects, NEW model \in Objects,
             BeginGivenRawModel(f, o, model)
      PROVE  RuntimeInv'
  <2>1. f \in Functions /\ Arity(f) = 3 /\ f # LoadSchema
    BY Arities, LoadIsNotSchema DEF Functions
  <2>2. leanSchema \in Objects /\ leanSchema # NoObject /\ rc \in [Objects -> Nat]
        /\ rc[leanSchema] = 1
    BY <1>4 DEF BeginGivenRawModel, RuntimeInv, RuntimeTypeOK, IdleShape, Idle, One
  <2>3. ToSet(<<leanSchema, o, model>>) = {o, model} \cup {leanSchema}
        /\ <<leanSchema, o, model>> \in Seq(Objects) /\ Len(<<leanSchema, o, model>>) = 3
    <3>1. ToSet(<<leanSchema, o, model>>) = {leanSchema, o, model}
      BY DEF ToSet
    <3> QED BY <2>2, <3>1
  <2>4. /\ rc[o] = 0 /\ rc[model] = 0 /\ o # model
        /\ rc' = [rc EXCEPT ![leanSchema] = @ + 1, ![o] = 1, ![model] = 1]
    BY <1>4 DEF BeginGivenRawModel, Free
  <2>5. rc' \in [Objects -> Nat]
        /\ \A x \in Objects :
             rc'[x] = IF x \in ToSet(<<leanSchema, o, model>>) THEN rc[x] + 1 ELSE rc[x]
    BY <2>2, <2>3, <2>4
  <2> DEFINE fresh == {o, model}
  <2>6. fresh \in SUBSET Objects /\ \A x \in fresh : rc[x] = 0
    BY <2>4
  <2> HIDE DEF fresh
  <2>7. ToSet(<<leanSchema, o, model>>) = fresh \cup {leanSchema}
    BY <2>3 DEF fresh
  <2> QED BY <1>4, <2>1, <2>2, <2>3, <2>5, <2>6, <2>7, BeginStep DEF BeginGivenRawModel, NoCall
<1>5. ASSUME NEW ret \in Objects, NEW held \in Objects \cup {NoObject},
             NEW reply \in Replies \ {"none"}, LeanReturns(ret, held, reply)
      PROVE  RuntimeInv'
  BY <1>5, ReturnStep
<1>6. CASE LeanPanics
  <2>1. RuntimeTypeOK' /\ call'.stage = "aborted" /\ call.stage = "built"
    BY <1>6 DEF LeanPanics, RuntimeInv, RuntimeTypeOK
  <2>2. /\ call'.ret = call.ret /\ call'.args = call.args /\ call'.f = call.f
        /\ UNCHANGED <<start, thread, rc, inner, leanSchema, answer>>
    BY <1>6 DEF LeanPanics, RuntimeInv, RuntimeTypeOK
  <2> QED BY <2>1, <2>2 DEF RuntimeInv, BuiltShape, Idle
<1>7. CASE DecodeSchema
  BY <1>7, DecodeSchemaStep
<1>8. CASE DecodeAnswer
  BY <1>8, DecodeAnswerStep
<1>9. CASE DropResponse
  BY <1>9, DropResponseStep
<1>10. CASE DropSchema
  BY <1>10, DropSchemaStep
<1>11. CASE DropFfi
  BY <1>11 DEF DropFfi, RuntimeInv, RuntimeTypeOK, IdleShape, Idle, Answers
<1>12. CASE UNCHANGED runtimeVars
  BY <1>12 DEF runtimeVars, RuntimeInv, RuntimeTypeOK, IdleShape, BuiltShape, AnsweredShape, Idle
<1> QED
  BY <1>1, <1>2, <1>3, <1>4, <1>5, <1>6, <1>7, <1>8, <1>9, <1>10, <1>11, <1>12 DEF RuntimeNext

LEMMA InvImpliesCounted == RuntimeInv => Counted
<1> SUFFICES ASSUME RuntimeInv PROVE Counted
  OBVIOUS
<1>1. RuntimeTypeOK /\ (Held # {} => start = "done" /\ (thread \/ (Idle /\ Held = {leanSchema})))
  <2>1. RuntimeTypeOK /\ (thread => start = "done") /\ (leanSchema # NoObject => start = "done")
    BY DEF RuntimeInv
  <2>2. ~thread => Idle /\ IdleShape
    BY DEF RuntimeInv, Idle
  <2>3. IdleShape => Held = IF leanSchema = NoObject THEN {} ELSE {leanSchema}
    BY <2>1 DEF IdleShape, One, Held, RuntimeTypeOK
  <2> QED BY <2>1, <2>2, <2>3
<1>2. CASE call.stage = "none"
  <2>1. IdleShape /\ ToSet(call.args) = {}
    BY <1>2, SetsOfArgs DEF RuntimeInv, IdleShape
  <2>2. \A o \in Objects : ~\E x \in Held : inner[x] = o
    BY <2>1 DEF IdleShape, Held
  <2>3. leanSchema = NoObject => Held = {}
    BY <2>1 DEF IdleShape, Held, One
  <2> QED BY <1>1, <1>2, <2>1, <2>2, <2>3 DEF Counted, IdleShape, One, Held
<1>3. CASE call.stage \in {"built", "aborted"}
  <2>1. BuiltShape
    BY <1>3 DEF RuntimeInv
  <2>2. \A o \in Objects : ~\E x \in Held : inner[x] = o
    BY <2>1 DEF BuiltShape, Held
  <2> QED BY <1>1, <1>3, <2>1, <2>2 DEF Counted, BuiltShape, One, Held, Idle
<1>4. CASE call.stage \in {"returned", "decoded"}
  <2>1. AnsweredShape /\ ToSet(call.args) = {}
    BY <1>4, SetsOfArgs DEF RuntimeInv, AnsweredShape
  <2>2. call.ret \in Held
    BY <1>1, <2>1 DEF AnsweredShape, Held, One, RuntimeTypeOK
  <2>3. \A o \in Objects : (\E x \in Held : inner[x] = o) <=> inner[call.ret] = o
    BY <2>1, <2>2 DEF AnsweredShape, Held
  <2>4. \A x, y \in Held : inner[x] = inner[y] /\ inner[x] # NoObject => x = y
    BY <2>1 DEF AnsweredShape, Held
  <2>5. \A o \in Objects :
          rc[o] = One(leanSchema = o) + One(o \in ToSet(call.args)) + One(call.ret = o)
                    + One(\E x \in Held : inner[x] = o)
    BY <2>1, <2>3 DEF AnsweredShape, One
  <2> QED BY <1>1, <1>4, <2>4, <2>5 DEF Counted, Idle
<1> QED BY <1>1, <1>2, <1>3, <1>4 DEF RuntimeTypeOK

\* Every variable of the runtime keeps its type; no count goes below zero.
THEOREM RuntimeTypes == RuntimeSpec => []RuntimeTypeOK
<1>1. RuntimeInv => RuntimeTypeOK
  BY DEF RuntimeInv
<1> QED BY <1>1, RuntimeInitial, RuntimeStep, PTL DEF RuntimeSpec

\* Whatever is called in whatever order, each object is counted as often as it is
\* held, so nothing is freed early or twice and nothing stays behind.
THEOREM EverythingCounted == RuntimeSpec => []Counted
<1> QED BY InvImpliesCounted, RuntimeInitial, RuntimeStep, PTL DEF RuntimeSpec

-------------------------------------------------------------------------------
(* SolverPool: the pool hands out a solver that owes nothing, and what a target *)
(* judges belongs to its query, for every number of queries and usage limit.    *)

\* What holds of the shared solver between the steps: before a query is asked it owes
\* nothing and, in the target that takes models, holds none; while a query waits it
\* owes exactly the answer to that query; and what was found is of that query.
PoolInv ==
  /\ PoolTypeOK
  /\ poolAt \in {"holding", "waiting", "found"} => queried > 0
  /\ poolAt = "found" => Shared
  /\ Shared /\ poolAt \in {"idle", "holding", "found"} => solver.owed = <<>>
  /\ Shared /\ poolAt = "waiting" =>
       \E says \in Answers3 : solver.owed = <<[of |-> queried, says |-> says]>>
  /\ fuzzTarget = "cexDrt" /\ poolAt \in {"idle", "holding", "waiting"} => solver.raw = NoModel
  /\ poolAt = "found" => inHand.cex = queried
  /\ fuzzTarget = "cexDrt" /\ poolAt = "found" =>
       solver.raw = IF inHand.called THEN queried ELSE NoModel
  /\ judged # NothingJudged =>
       /\ judged.cex = judged.query
       /\ fuzzTarget = "cexDrt" =>
            judged.model = IF judged.called THEN judged.query ELSE NoModel

USE SolverPoolAssumption

LEMMA NewSolverType ==
  NewSymCC \in [usage : 0 .. UsageLimit - 1, raw : 0 .. Queries,
                owed : Seq([of : 1 .. Queries, says : Answers3])]
  BY DEF NewSymCC, NoModel

\* Reading an answer shortens what is owed by it, and one answer is all of it.
LEMMA OwedHead ==
  ASSUME NEW S, NEW s \in Seq(S), s # <<>>
  PROVE  Head(s) \in S /\ Tail(s) \in Seq(S)
  OBVIOUS

LEMMA OnlyOneOwed ==
  ASSUME NEW x
  PROVE  Append(<<>>, x) = <<x>> /\ Head(<<x>>) = x /\ Tail(<<x>>) = <<>>
  OBVIOUS

LEMMA PoolInitial == PoolInit => PoolInv
  BY NewSolverType DEF PoolInit, PoolInv, PoolTypeOK, NewSymCC, NoModel, NothingFound,
                       NothingJudged, Shared, PoolTargets

LEMMA PoolStep == PoolInv /\ [PoolNext]_poolVars => PoolInv'
<1> SUFFICES ASSUME PoolInv, [PoolNext]_poolVars PROVE PoolInv'
  OBVIOUS
<1> USE DEF PoolInv, PoolTypeOK, Shared, NoModel
<1>1. CASE SkipEnvironment
  BY <1>1 DEF SkipEnvironment
<1>2. CASE GetSolver
  <2>1. /\ queried' = queried + 1 /\ poolAt' = "holding"
        /\ UNCHANGED <<fuzzTarget, inHand, judged>>
        /\ poolAt = "idle" /\ queried < Queries
    BY <1>2 DEF GetSolver
  <2>2. \/ solver' = solver
        \/ solver' = NewSymCC
        \/ solver' = [solver EXCEPT !.usage = @ + 1] /\ solver.usage + 1 < UsageLimit
    BY <1>2 DEF GetSolver, GotSolver
  <2>3. CASE solver' = solver
    BY <2>1, <2>3
  <2>4. CASE solver' = NewSymCC
    BY <2>1, <2>4, NewSolverType DEF NewSymCC
  <2>5. CASE solver' = [solver EXCEPT !.usage = @ + 1] /\ solver.usage + 1 < UsageLimit
    <3>1. /\ solver'.usage = solver.usage + 1 /\ solver'.raw = solver.raw /\ solver'.owed = solver.owed
          /\ solver' = [usage |-> solver.usage + 1, raw |-> solver.raw, owed |-> solver.owed]
      BY <2>5
    <3>2. PoolTypeOK'
      <4>1. /\ solver.raw \in 0 .. Queries /\ solver.owed \in Seq([of : 1 .. Queries, says : Answers3])
            /\ solver.usage + 1 \in 0 .. UsageLimit - 1 /\ queried + 1 \in 0 .. Queries
        BY <2>1, <2>5
      <4>2. solver' \in [usage : 0 .. UsageLimit - 1, raw : 0 .. Queries,
                         owed : Seq([of : 1 .. Queries, says : Answers3])]
        BY <3>1, <4>1
      <4> QED BY <2>1, <4>1, <4>2
    <3>3. queried' > 0 /\ poolAt' # "found" /\ poolAt' # "waiting"
      BY <2>1
    <3>4. solver'.owed = solver.owed /\ solver'.raw = solver.raw
      BY <3>1
    <3> HIDE DEF PoolTypeOK
    <3> QED BY <2>1, <3>2, <3>3, <3>4
  <2> QED BY <2>2, <2>3, <2>4, <2>5
<1>3. CASE EndInput
  BY <1>3, NewSolverType DEF EndInput, NewSymCC
<1>4. CASE EncodeFails
  BY <1>4, NewSolverType DEF EncodeFails, NewSymCC
<1>5. ASSUME NEW says \in {"sat", "unsat"}, Reduce(says) PROVE PoolInv'
  <2>1. CASE says = "sat" /\ Shared
    <3>1. /\ poolAt = "holding" /\ poolAt' = "found"
          /\ inHand' = [cex |-> queried, called |-> FALSE]
          /\ UNCHANGED <<fuzzTarget, queried, solver, judged>>
      BY <1>5, <2>1 DEF Reduce
    <3> QED BY <2>1, <3>1
  <2>2. CASE ~(says = "sat" /\ Shared)
    <3>1. /\ poolAt = "holding" /\ poolAt' = "idle"
          /\ UNCHANGED <<fuzzTarget, queried, solver, inHand, judged>>
      BY <1>5, <2>2 DEF Reduce
    <3> QED BY <3>1
  <2> QED BY <2>1, <2>2
<1>6. ASSUME NEW says \in Answers3, AskSolver(says) PROVE PoolInv'
  <2>1. queried \in 1 .. Queries
    BY <1>6 DEF AskSolver
  <2>2. solver.owed \in Seq([of : 1 .. Queries, says : Answers3])
    OBVIOUS
  <2>3. Append(solver.owed, [of |-> queried, says |-> says])
          \in Seq([of : 1 .. Queries, says : Answers3])
    BY <2>1, <2>2
  <2>4. Shared => solver'.owed = <<[of |-> queried, says |-> says]>>
    BY <1>6, OnlyOneOwed DEF AskSolver
  <2> QED BY <1>6, <2>1, <2>3, <2>4 DEF AskSolver
<1>7. CASE ReadAnswer
  <2> DEFINE reply == Head(solver.owed)
             read == [solver EXCEPT !.owed = Tail(@)]
  <2>1. solver.owed \in Seq([of : 1 .. Queries, says : Answers3]) /\ solver.owed # <<>>
    BY <1>7 DEF ReadAnswer
  <2>2. reply \in [of : 1 .. Queries, says : Answers3]
        /\ Tail(solver.owed) \in Seq([of : 1 .. Queries, says : Answers3])
    BY <2>1, OwedHead
  <2>3. Shared => reply.of = queried /\ Tail(solver.owed) = <<>>
    <3>1. SUFFICES ASSUME Shared PROVE reply.of = queried /\ Tail(solver.owed) = <<>>
      OBVIOUS
    <3>2. PICK says \in Answers3 : solver.owed = <<[of |-> queried, says |-> says]>>
      BY <1>7, <3>1 DEF ReadAnswer
    <3> QED BY <3>2, OnlyOneOwed
  <2>4. read \in [usage : 0 .. UsageLimit - 1, raw : 0 .. Queries,
                  owed : Seq([of : 1 .. Queries, says : Answers3])]
        /\ read.owed = Tail(solver.owed) /\ read.raw = solver.raw
    BY <2>2
  <2>5. Noted(read, reply) \in [usage : 0 .. UsageLimit - 1, raw : 0 .. Queries,
                                owed : Seq([of : 1 .. Queries, says : Answers3])]
        /\ Noted(read, reply).owed = Tail(solver.owed)
        /\ Noted(read, reply).raw = IF reply.says = "sat" THEN reply.of ELSE solver.raw
    <3>1. CASE reply.says = "sat"
      <4>1. Noted(read, reply) = [read EXCEPT !.raw = reply.of]
        BY <3>1 DEF Noted
      <4>2. reply.of \in 0 .. Queries
        BY <2>2
      <4> HIDE DEF read, reply
      <4> QED BY <3>1, <4>1, <4>2, <2>4
    <3>2. CASE reply.says # "sat"
      BY <3>2, <2>4 DEF Noted
    <3> QED BY <3>1, <3>2
  <2> HIDE DEF reply, read
  <2>6. solver' = IF Shared THEN Noted(read, reply) ELSE read
    BY <1>7 DEF ReadAnswer, reply, read
  <2>7. /\ inHand' = IF reply.says = "sat" /\ Shared
                       THEN [cex |-> reply.of, called |-> TRUE] ELSE inHand
        /\ poolAt' = CASE reply.says = "unknown" -> "failed"
                       [] reply.says = "sat" /\ Shared -> "found"
                       [] OTHER -> "idle"
        /\ poolAt = "waiting" /\ UNCHANGED <<fuzzTarget, queried, judged>>
    BY <1>7 DEF ReadAnswer, reply
  <2>8. PoolTypeOK'
    BY <2>2, <2>4, <2>5, <2>6, <2>7
  <2>9. CASE Shared
    BY <2>3, <2>5, <2>6, <2>7, <2>8, <2>9, <2>2 DEF Answers3
  <2>10. CASE ~Shared
    BY <2>6, <2>7, <2>8, <2>10, <2>2 DEF Answers3
  <2> QED BY <2>9, <2>10
<1>8. CASE SolverDies
  BY <1>8 DEF SolverDies
<1>9. CASE QueryTimesOut
  BY <1>9, NewSolverType DEF QueryTimesOut, AfterTimeout, NewSymCC
<1>10. CASE HandToLean
  BY <1>10 DEF HandToLean, TakenModel, NothingFound
<1>11. CASE Reproduce
  BY <1>11 DEF Reproduce, NothingFound
<1>12. CASE UNCHANGED poolVars
  BY <1>12 DEF poolVars
<1> QED
  BY <1>1, <1>2, <1>3, <1>4, <1>5, <1>6, <1>7, <1>8, <1>9, <1>10, <1>11, <1>12 DEF PoolNext

\* Every variable of the pool keeps its type, the use count below the limit.
THEOREM PoolTypes == PoolSpec => []PoolTypeOK
<1>1. PoolInv => PoolTypeOK
  BY DEF PoolInv
<1> QED BY <1>1, PoolInitial, PoolStep, PTL DEF PoolSpec

\* What is compared or reproduced belongs to the query it is compared for, and Lean
\* gets the model of that query exactly when the solver was called.
THEOREM PoolModelsAreFresh == PoolSpec => []FreshModels
<1>1. PoolInv => FreshModels
  BY DEF PoolInv, FreshModels
<1> QED BY <1>1, PoolInitial, PoolStep, PTL DEF PoolSpec

-------------------------------------------------------------------------------
(* Finite sets.                                                                 *)

\* The same things under other names are as many.
LEMMA SameSize ==
  ASSUME NEW S, IsFiniteSet(S), NEW T, NEW f \in [S -> T],
         \A x, y \in S : f[x] = f[y] => x = y, \A z \in T : \E x \in S : f[x] = z
  PROVE  IsFiniteSet(T) /\ Cardinality(T) = Cardinality(S)
<1>1. f \in Injection(S, T)
  BY DEF Injection, IsInjective
<1>2. f \in Surjection(S, T)
  BY DEF Surjection
<1>3. ExistsBijection(S, T)
  BY <1>1, <1>2 DEF ExistsBijection, Bijection
<1> QED BY <1>3, FS_Bijection

-------------------------------------------------------------------------------
(* LeanCli: what a command parses, asks, prints and exits with. Neither property *)
(* is inductive: that nothing was asked before every input was good, and that    *)
(* the answers so far are those of the environments so far, are facts about the  *)
(* steps before; the invariant says what is so at each stage of the process.     *)

\* A set of natural numbers has a least one.
LEMMA LeastOf ==
  ASSUME NEW T, T \subseteq Nat, T # {}
  PROVE  Min(T) \in T /\ \A y \in T : Min(T) <= y
<1>1. PICK x \in T : \A y \in T : ~(<<y, x>> \in OpToRel(<, Nat))
  BY NatLessThanWellFounded, WFMin
<1>2. ASSUME NEW y \in T PROVE x <= y
  <2>1. <<y, x>> \in Nat \X Nat
    OBVIOUS
  <2>2. ~(<<y, x>> \in OpToRel(<, Nat))
    BY <1>1
  <2>3. ~(y < x)
    BY <2>1, <2>2 DEF OpToRel
  <2>4. x \in Nat /\ y \in Nat
    OBVIOUS
  <2> QED
    BY <2>3, <2>4
<1>3. x \in T /\ \A y \in T : x <= y
  BY <1>2
<1> QED BY <1>3 DEF Min

\* A finite set in a sequence: each of its elements once.
LEMMA EachListed ==
  ASSUME NEW S, IsFiniteSet(S)
  PROVE  /\ SetToSeq(S) \in Seq(S) /\ Cardinality(S) \in Nat
         /\ Len(SetToSeq(S)) = Cardinality(S) /\ DOMAIN SetToSeq(S) = 1..Cardinality(S)
         /\ \A i \in 1..Cardinality(S) : SetToSeq(S)[i] \in S
         /\ \A i, j \in 1..Cardinality(S) : SetToSeq(S)[i] = SetToSeq(S)[j] => i = j
         /\ \A x \in S : \E i \in 1..Cardinality(S) : SetToSeq(S)[i] = x
<1> DEFINE n == Cardinality(S)
           f == SetToSeq(S)
<1>1. n \in Nat /\ ExistsBijection(1..n, S)
  BY FS_CardinalityType
<1>2. PICK g \in Bijection(1..n, S) : TRUE
  BY <1>1 DEF ExistsBijection
<1>3. g \in [1..n -> S] /\ IsInjective(g)
  BY <1>2 DEF Bijection, Injection
<1>4. f \in [1..n -> S] /\ IsInjective(f)
  BY <1>3 DEF SetToSeq
<1> HIDE DEF f
<1>5. f \in Injection(1..n, S)
  BY <1>4 DEF Injection
<1>6. Cardinality(1..n) = n
  <2> HIDE DEF n
  <2>1. Cardinality(1..n) = IF 1 > n THEN 0 ELSE n - 1 + 1
    BY <1>1, FS_Interval
  <2> QED BY <1>1, <2>1
<1>7. f \in Surjection(1..n, S)
  BY <1>5, <1>6, FS_Injection
<1>8. \A x \in S : \E i \in 1..n : f[i] = x
  BY <1>7 DEF Surjection
<1>9. f \in Seq(S) /\ Len(f) = n /\ DOMAIN f = 1..n
  <2> HIDE DEF n
  <2> QED BY <1>1, <1>4
<1> QED BY <1>1, <1>4, <1>8, <1>9 DEF IsInjective, f

\* Every step of a command is a known one, and none is a panic.
Inputs == {"principal", "action", "resource", "context", "request", "entities", "expression",
           "expected", "schema", "policy", "policyset", "policyset 2", "principal type",
           "resource type"}
Deeds == {"read", "parse", "rename", "uid", "json", "string", "valid", "type"}
StepNames == Inputs \X Deeds

LEMMA Together ==
  LET K == Seq(StepNames)
  IN  /\ \A s, t \in K : s \o t \in K
      /\ \A s, t, u \in K : (s \o t) \o u \in K
      /\ \A s, t, u, v \in K : ((s \o t) \o u) \o v \in K
      /\ \A s, t, u, v, w \in K : (((s \o t) \o u) \o v) \o w \in K
<1>1. \A x, y \in Seq(StepNames) : x \o y \in Seq(StepNames)
  OBVIOUS
<1> QED BY <1>1

LEMMA KnownFiles ==
  /\ \A input \in Inputs : File(input) \in Seq(StepNames) /\ PolicySetFile(input) \in Seq(StepNames)
  /\ \A b \in BOOLEAN, input \in Inputs : IfGiven(b, input) \in Seq(StepNames)
<1>1. ASSUME NEW input \in Inputs
      PROVE  File(input) \in Seq(StepNames)
  <2>1. <<input, "read">> \in StepNames /\ <<input, "parse">> \in StepNames
    BY DEF StepNames, Deeds
  <2> QED BY <2>1 DEF File
<1>2. ASSUME NEW input \in Inputs
      PROVE  PolicySetFile(input) \in Seq(StepNames)
  <2>1. <<input, "rename">> \in StepNames
    BY DEF StepNames, Deeds
  <2>2. <<<<input, "rename">>>> \in Seq(StepNames)
    BY <2>1
  <2> QED BY <1>1, <2>2, Together DEF PolicySetFile
<1> QED BY <1>1, <1>2 DEF IfGiven

LEMMA KnownRequests ==
  ASSUME NEW o \in RequestOptions
  PROVE  RequestSteps(o) \in Seq(StepNames)
<1>1. /\ FromArgs \in Seq(StepNames)
      /\ <<<<"request", "json">>>> \in Seq(StepNames) /\ <<<<"request", "valid">>>> \in Seq(StepNames)
      /\ <<<<"context", "string">>, <<"request", "valid">>>> \in Seq(StepNames)
  <2>1. /\ <<"principal", "uid">> \in StepNames /\ <<"action", "uid">> \in StepNames
        /\ <<"resource", "uid">> \in StepNames /\ <<"request", "json">> \in StepNames
        /\ <<"request", "valid">> \in StepNames /\ <<"context", "string">> \in StepNames
    BY DEF StepNames, Inputs, Deeds
  <2> QED BY <2>1 DEF FromArgs
<1>2. File("request") \in Seq(StepNames) /\ File("context") \in Seq(StepNames)
  BY KnownFiles DEF Inputs
<1>3. RequestForm(o) \in {"file", "args", "args with context", "args with context file"}
  BY DEF RequestForm, RequestOptions
<1>4. CASE RequestForm(o) = "file"
  <2>1. RequestSteps(o) = ((File("request") \o <<<<"request", "json">>>>) \o FromArgs)
                            \o <<<<"context", "string">>, <<"request", "valid">>>>
    BY <1>4 DEF RequestSteps
  <2> QED BY <1>1, <1>2, <2>1, Together
<1>5. CASE RequestForm(o) = "args"
  <2>1. RequestSteps(o) = FromArgs \o <<<<"request", "valid">>>>
    BY <1>5 DEF RequestSteps
  <2> QED BY <1>1, <2>1, Together
<1>6. CASE RequestForm(o) = "args with context"
  <2>1. RequestSteps(o) = FromArgs \o <<<<"context", "string">>, <<"request", "valid">>>>
    BY <1>6 DEF RequestSteps
  <2> QED BY <1>1, <2>1, Together
<1>7. CASE RequestForm(o) = "args with context file"
  <2>1. RequestSteps(o) = (FromArgs \o File("context")) \o <<<<"request", "valid">>>>
    BY <1>7 DEF RequestSteps
  <2> QED BY <1>1, <1>2, <2>1, Together
<1> QED BY <1>3, <1>4, <1>5, <1>6, <1>7

LEMMA KnownSteps ==
  ASSUME NEW c, \/ c \in EvaluationCommands \cup ValidationCommands \cup AnalysisCommands
                \/ c \in SymCCCommands({c.open})
  PROVE  Steps(c) \in Seq(StepNames)
<1>1. \A input \in Inputs : File(input) \in Seq(StepNames) /\ PolicySetFile(input) \in Seq(StepNames)
  BY KnownFiles
<1>2. {"entities", "expression", "expected", "schema", "policy", "policyset", "policyset 2"}
        \subseteq Inputs
  BY DEF Inputs
<1>3. \A b \in BOOLEAN, input \in Inputs : IfGiven(b, input) \in Seq(StepNames)
  BY KnownFiles
<1>4. CASE c \in EvaluationCommands
  <2>1. CASE c.do = "authorize" /\ c.schema \in BOOLEAN /\ c.req \in RequestOptions
    <3>1. Steps(c) = ((PolicySetFile("policyset") \o IfGiven(c.schema, "schema"))
                        \o RequestSteps(c.req)) \o File("entities")
      BY <2>1 DEF Steps, EvaluationSteps
    <3>2. RequestSteps(c.req) \in Seq(StepNames)
      BY <2>1, KnownRequests
    <3>3. PolicySetFile("policyset") \in Seq(StepNames) /\ File("entities") \in Seq(StepNames)
          /\ IfGiven(c.schema, "schema") \in Seq(StepNames)
      BY <1>1, <1>2, <1>3, <2>1
    <3> QED BY <3>1, <3>2, <3>3, Together
  <2>2. CASE /\ c.do = "evaluate" /\ c.schema \in BOOLEAN /\ c.req \in RequestOptions
             /\ c.expected \in BOOLEAN
    <3>1. Steps(c) = (((File("expression") \o IfGiven(c.schema, "schema")) \o File("entities"))
                        \o RequestSteps(c.req)) \o IfGiven(c.expected, "expected")
      BY <2>2 DEF Steps, EvaluationSteps
    <3>2. RequestSteps(c.req) \in Seq(StepNames)
      BY <2>2, KnownRequests
    <3>3. File("expression") \in Seq(StepNames) /\ File("entities") \in Seq(StepNames)
          /\ IfGiven(c.schema, "schema") \in Seq(StepNames) /\ IfGiven(c.expected, "expected") \in Seq(StepNames)
      BY <1>1, <1>2, <1>3, <2>2
    <3>4. (File("expression") \o IfGiven(c.schema, "schema")) \o File("entities") \in Seq(StepNames)
      BY <3>3, Together
    <3>5. ((File("expression") \o IfGiven(c.schema, "schema")) \o File("entities"))
            \o RequestSteps(c.req) \in Seq(StepNames)
      BY <3>2, <3>4, Together
    <3> QED BY <3>1, <3>3, <3>5, Together
  <2> QED BY <1>4, <2>1, <2>2 DEF EvaluationCommands
<1>5. CASE c \in ValidationCommands
  <2>1. PolicySetFile("policyset") \in Seq(StepNames) /\ File("entities") \in Seq(StepNames)
        /\ File("schema") \in Seq(StepNames)
    BY <1>1, <1>2
  <2>2. CASE c.do = "validate entities"
    <3>1. Steps(c) = File("schema") \o File("entities")
      BY <2>2 DEF Steps, ValidationSteps
    <3> QED BY <2>1, <3>1, Together
  <2>3. CASE c.do = "validate request" /\ c.req \in RequestOptions
    <3>1. Steps(c) = File("schema") \o RequestSteps(c.req)
      BY <2>3 DEF Steps, ValidationSteps
    <3>2. RequestSteps(c.req) \in Seq(StepNames)
      BY <2>3, KnownRequests
    <3> QED BY <2>1, <3>1, <3>2, Together
  <2>4. CASE c.do \in {"validate policy-set", "validate level"}
    <3>1. Steps(c) = PolicySetFile("policyset") \o File("schema")
      BY <2>4 DEF Steps, ValidationSteps
    <3> QED BY <2>1, <3>1, Together
  <2> QED BY <1>5, <2>2, <2>3, <2>4 DEF ValidationCommands
<1>6. CASE c \in AnalysisCommands
  <2>1. PolicySetFile("policyset") \in Seq(StepNames) /\ PolicySetFile("policyset 2") \in Seq(StepNames)
        /\ File("schema") \in Seq(StepNames)
    BY <1>1, <1>2
  <2>2. CASE c.do = "analyze policies"
    <3>1. Steps(c) = PolicySetFile("policyset") \o File("schema")
      BY <2>2 DEF Steps, AnalysisSteps
    <3> QED BY <2>1, <3>1, Together
  <2>3. CASE c.do = "analyze compare"
    <3>1. Steps(c) = (PolicySetFile("policyset") \o PolicySetFile("policyset 2")) \o File("schema")
      BY <2>3 DEF Steps, AnalysisSteps
    <3>2. PolicySetFile("policyset") \o PolicySetFile("policyset 2") \in Seq(StepNames)
      BY <2>1, Together
    <3>3. (PolicySetFile("policyset") \o PolicySetFile("policyset 2")) \o File("schema") \in Seq(StepNames)
      BY <2>1, <3>2, Together
    <3> QED BY <3>1, <3>3
  <2> QED BY <1>6, <2>2, <2>3 DEF AnalysisCommands
<1>7. CASE c \in SymCCCommands({c.open})
  <2>1. /\ PolicySetFile("policyset") \in Seq(StepNames) /\ PolicySetFile("policyset 2") \in Seq(StepNames)
        /\ File("schema") \in Seq(StepNames) /\ File("policy") \in Seq(StepNames)
    BY <1>1, <1>2
  <2>2. c.do = "symcc" /\ c.check \in Checks
    BY <1>7 DEF SymCCCommands
  <2>3. OpenSteps(c.open) \in Seq(StepNames)
    <3>1. <<<<"principal type", "type">>>> \in Seq(StepNames) /\ <<<<"resource type", "type">>>> \in Seq(StepNames)
          /\ <<>> \in Seq(StepNames)
      <4>1. <<"principal type", "type">> \in StepNames /\ <<"resource type", "type">> \in StepNames
        BY DEF StepNames, Inputs, Deeds
      <4>2. \A x \in StepNames : <<x>> \in Seq(StepNames)
        OBVIOUS
      <4>3. <<>> \in Seq(StepNames)
        OBVIOUS
      <4> QED BY <4>1, <4>2, <4>3
    <3> QED BY <3>1, Together DEF OpenSteps
  <2> DEFINE texts == CASE c.check \in PolicyChecks -> File("policy")
                        [] c.check \in PolicySetChecks -> PolicySetFile("policyset")
                        [] c.check \in PairChecks -> PolicySetFile("policyset") \o PolicySetFile("policyset 2")
  <2>4. texts \in Seq(StepNames)
    <3>1. CASE c.check \in PolicyChecks
      BY <2>1, <3>1 DEF PolicyChecks, PolicySetChecks, PairChecks
    <3>2. CASE c.check \in PolicySetChecks
      BY <2>1, <3>2 DEF PolicyChecks, PolicySetChecks, PairChecks
    <3>3. CASE c.check \in PairChecks
      <4>1. texts = PolicySetFile("policyset") \o PolicySetFile("policyset 2")
        BY <3>3 DEF PolicyChecks, PolicySetChecks, PairChecks
      <4> HIDE DEF texts
      <4> QED BY <2>1, <4>1, Together
    <3> QED BY <2>2, <3>1, <3>2, <3>3 DEF Checks
  <2>5. Steps(c) = (texts \o File("schema")) \o OpenSteps(c.open)
    BY <2>2 DEF Steps, SymCCSteps
  <2> HIDE DEF texts
  <2>6. texts \o File("schema") \in Seq(StepNames)
    BY <2>1, <2>4, Together
  <2> QED BY <2>3, <2>5, <2>6, Together
<1> QED BY <1>4, <1>5, <1>6, <1>7

\* What a check is asked about.
LEMMA OptionFits ==
  ASSUME NEW o, o = None \/ o = Some(o[1]), NEW x
  PROVE  (Given(o) => x = o[1]) <=> o \in {None, Some(x)}
<1>1. \A y : Some(y) # None /\ Some(y)[1] = y
  BY DEF Some, None
<1>2. CASE o = None
  BY <1>2 DEF Given
<1>3. CASE o = Some(o[1])
  BY <1>1, <1>3 DEF Given
<1> QED BY <1>2, <1>3

LEMMA SymCCCommand ==
  ASSUME Understood(invocation), command.do = "symcc"
  PROVE  /\ command \in SymCCCommands({command.open}) /\ command.check \in Checks
         /\ command.mode \in ModeFlags
         /\ DOMAIN command.open = {"principal", "action", "resource"}
         /\ \A c \in {"principal", "action", "resource"} :
              command.open[c] = None \/ command.open[c] = Some(command.open[c][1])
<1>1. command \notin EvaluationCommands \cup ValidationCommands \cup AnalysisCommands
  BY DEF EvaluationCommands, ValidationCommands, AnalysisCommands
<1>2. /\ command \in SymCCCommands({command.open})
      /\ DOMAIN command.open = {"principal", "action", "resource"}
      /\ \A c \in DOMAIN command.open :
           command.open[c] = None \/ command.open[c] = Some(command.open[c][1])
  BY <1>1 DEF Understood, command
<1> QED BY <1>2 DEF SymCCCommands

LEMMA AskedFor ==
  ASSUME Understood(invocation), command.do = "symcc"
  PROVE  /\ ToRequestEnvs(command.open, invocation.schema) = Asked
         /\ IsFiniteSet(Asked) /\ \A e \in Asked : invocation.holds[e] \in BOOLEAN
<1> DEFINE open == command.open
           schema == invocation.schema
<1>1. DOMAIN invocation.holds = EnvsOf(schema) /\ IsFiniteSet(DOMAIN invocation.holds)
      /\ \A e \in DOMAIN invocation.holds : invocation.holds[e] \in BOOLEAN
  BY DEF Understood
<1>2. \A e \in EnvsOf(schema) : /\ e.action \in DOMAIN schema
                                /\ e.principal \in schema[e.action].principals
                                /\ e.resource \in schema[e.action].resources
  BY DEF EnvsOf
<1>3. /\ open.principal = None \/ open.principal = Some(open.principal[1])
      /\ open.action = None \/ open.action = Some(open.action[1])
      /\ open.resource = None \/ open.resource = Some(open.resource[1])
  BY SymCCCommand
<1>4. ASSUME NEW e
      PROVE  Fits(open, e) <=> /\ open.principal \in {None, Some(e.principal)}
                               /\ open.action \in {None, Some(e.action[2])}
                               /\ open.resource \in {None, Some(e.resource)}
  <2>1. (Given(open.principal) => e.principal = open.principal[1])
          <=> open.principal \in {None, Some(e.principal)}
    BY <1>3, OptionFits
  <2>2. (Given(open.action) => e.action[2] = open.action[1])
          <=> open.action \in {None, Some(e.action[2])}
    BY <1>3, OptionFits
  <2>3. (Given(open.resource) => e.resource = open.resource[1])
          <=> open.resource \in {None, Some(e.resource)}
    BY <1>3, OptionFits
  <2> QED BY <2>1, <2>2, <2>3 DEF Fits
<1>5. ToRequestEnvs(open, schema) = Asked
  BY <1>1, <1>2, <1>4 DEF ToRequestEnvs, Asked
<1>6. Asked \subseteq DOMAIN invocation.holds
  BY DEF Asked
<1>7. IsFiniteSet(Asked)
  BY <1>1, <1>6, FS_Subset
<1> QED BY <1>1, <1>5, <1>6, <1>7

\* The claims, for a list of answers.
LEMMA Claims ==
  ASSUME NEW check \in Checks, NEW rs, \A i \in DOMAIN rs : rs[i] \in BOOLEAN
  PROVE  /\ Verdict(check, rs) = "every" <=> AllOf(rs)
         /\ Verdict(check, rs) = "none" <=> NoneOf(rs) /\ ~AllOf(rs)
<1>1. CASE check \in PolicyChecks
  <2>1. Verdict(check, rs) = PolicyVerdict(rs)
    BY <1>1 DEF Verdict, PolicyChecks, PolicySetChecks, PairChecks
  <2> QED BY <2>1 DEF PolicyVerdict
<1>2. CASE check \in PolicySetChecks
  <2>1. Verdict(check, rs) = PolicySetVerdict(rs)
    BY <1>2 DEF Verdict, PolicyChecks, PolicySetChecks, PairChecks
  <2> QED BY <2>1 DEF PolicySetVerdict
<1>3. CASE check \in PairChecks
  <2>1. Verdict(check, rs) = PairVerdict(check, rs)
    BY <1>3 DEF Verdict, PolicyChecks, PolicySetChecks, PairChecks
  <2> QED BY <2>1 DEF PairVerdict
<1> QED BY <1>1, <1>2, <1>3 DEF Checks


LEMMA HeadAndRest ==
  ASSUME NEW S, NEW x \in S, NEW s \in Seq(S)
  PROVE  /\ Tail(<<x>> \o s) = s /\ (<<x>> \o s)[1] = x /\ <<x>> \o s \in Seq(S)
<1>1. <<x>> \in Seq(S) /\ Len(<<x>>) = 1 /\ <<x>>[1] = x
  OBVIOUS
<1> DEFINE l == <<x>> \o s
<1>2. l \in Seq(S) /\ Len(l) = Len(s) + 1 /\ \A i \in 1..Len(s) : l[i + 1] = s[i]
  BY <1>1
<1>3. l[1] = x
  BY <1>1
<1>4. Tail(l) \in Seq(S) /\ Len(Tail(l)) = Len(s) /\ \A i \in 1..Len(s) : Tail(l)[i] = l[i + 1]
  <2> HIDE DEF l
  <2>1. Len(s) \in Nat /\ l # <<>>
    BY <1>2
  <2> QED BY <1>2, <2>1
<1>5. Tail(l) = s
  <2>1. \A i \in 1..Len(s) : Tail(l)[i] = s[i]
    BY <1>2, <1>4
  <2> HIDE DEF l
  <2> QED BY <1>4, <2>1
<1> QED BY <1>2, <1>3, <1>5

\* What PrintResults prints, when every environment that was asked for has its
\* answer.
AnswerOf(c, queries, rs) ==
  <<<<"verdict", Verdict(c.check, rs), Restriction(c.open)>>>> \o Rows(SetToSeq(queries), rs)
Printed(rs) == AnswerOf(command, Asked, rs)

AnswersRun(out) ==
  LET claim == out[1][2]
      rows == Tail(out)
  IN /\ claim = "every" <=> Holding = Asked
     /\ claim = "none" <=> Holding = {} /\ Asked # {}
     /\ out[1][3] = {<<c, command.open[c][1]>> :
                       c \in {"principal", "action", "resource"} \cap
                             {d \in DOMAIN command.open : command.open[d] # None}}
     /\ Len(rows) = Cardinality(Asked)
     /\ \A t \in {TRUE, FALSE} :
          Cardinality({i \in DOMAIN rows : rows[i][3] = t})
            = Cardinality({e \in Asked : invocation.holds[e] = t})

LEMMA WhatIsPrinted ==
  ASSUME Understood(invocation), command.do = "symcc", NEW rs,
         DOMAIN rs = 1..Cardinality(Asked),
         \A i \in 1..Cardinality(Asked) : rs[i] = invocation.holds[SetToSeq(Asked)[i]]
  PROVE  AnswersRun(Printed(rs))
<1> DEFINE es == SetToSeq(Asked)
           n == Cardinality(Asked)
           x == <<"verdict", Verdict(command.check, rs), Restriction(command.open)>>
           rows == Rows(es, rs)
           holds == invocation.holds
<1>1. IsFiniteSet(Asked) /\ \A e \in Asked : holds[e] \in BOOLEAN
  BY AskedFor
<1>2. /\ n \in Nat /\ DOMAIN es = 1..n
      /\ \A i \in 1..n : es[i] \in Asked
      /\ \A i, j \in 1..n : es[i] = es[j] => i = j
      /\ \A e \in Asked : \E i \in 1..n : es[i] = e
  BY <1>1, EachListed
<1>3. DOMAIN rs = 1..n /\ \A i \in 1..n : rs[i] = holds[es[i]]
  OBVIOUS
<1> HIDE DEF es
<1>4. \A i \in DOMAIN rs : rs[i] \in BOOLEAN
  BY <1>1, <1>2, <1>3
<1>5. /\ Verdict(command.check, rs) = "every" <=> AllOf(rs)
      /\ Verdict(command.check, rs) = "none" <=> NoneOf(rs) /\ ~AllOf(rs)
  BY <1>4, SymCCCommand, Claims
<1>6. /\ AllOf(rs) <=> \A e \in Asked : holds[e]
      /\ NoneOf(rs) <=> \A e \in Asked : ~holds[e]
  BY <1>2, <1>3 DEF AllOf, NoneOf
<1>7. rows = [i \in 1..n |-> <<"row", Shown(es[i]), rs[i]>>]
  BY <1>3 DEF Rows
<1>8. /\ DOMAIN rows = 1..n /\ Len(rows) = n
      /\ rows \in Seq({rows[i] : i \in 1..n})
      /\ \A i \in 1..n : rows[i][3] = rs[i]
  <2>1. DOMAIN rows = 1..n
    BY <1>7
  <2>2. \A i \in 1..n : rows[i][3] = rs[i]
    BY <1>7
  <2>3. rows \in [1..n -> {rows[i] : i \in 1..n}]
    BY <1>7
  <2> DEFINE T == {rows[i] : i \in 1..n}
  <2>4. rows \in Seq(T)
    <3> HIDE DEF rows, n, T
    <3>1. rows \in [1..n -> T] /\ n \in Nat
      BY <1>2, <2>3 DEF T
    <3> QED BY <3>1
  <2> HIDE DEF rows, n
  <2> QED BY <1>2, <2>1, <2>2, <2>4
<1> DEFINE S == {x} \cup {rows[i] : i \in 1..n}
<1>9. x \in S /\ rows \in Seq(S)
  <2> HIDE DEF x, rows, n
  <2> QED BY <1>8
<1>10. Printed(rs) = <<x>> \o rows
  BY DEF Printed, AnswerOf, es
<1>11. Tail(Printed(rs)) = rows /\ Printed(rs)[1] = x
  <2> HIDE DEF x, rows, S
  <2> QED BY <1>9, <1>10, HeadAndRest
<1>12. Printed(rs)[1][2] = Verdict(command.check, rs) /\ Printed(rs)[1][3] = Restriction(command.open)
  BY <1>11
<1>13. /\ Holding = Asked <=> \A e \in Asked : holds[e]
       /\ Holding = {} <=> \A e \in Asked : ~holds[e]
  BY DEF Holding
<1>14. Restriction(command.open) =
         {<<c, command.open[c][1]>> :
            c \in {"principal", "action", "resource"} \cap
                  {d \in DOMAIN command.open : command.open[d] # None}}
  BY SymCCCommand DEF Restriction, Given
<1>15. ASSUME NEW t \in {TRUE, FALSE}
       PROVE  Cardinality({i \in DOMAIN rows : rows[i][3] = t})
                = Cardinality({e \in Asked : holds[e] = t})
  <2> DEFINE I == {i \in 1..n : holds[es[i]] = t}
             E == {e \in Asked : holds[e] = t}
             f == [i \in I |-> es[i]]
  <2>1. {i \in DOMAIN rows : rows[i][3] = t} = I
    BY <1>3, <1>8
  <2>2. IsFiniteSet(I)
    <3>1. IsFiniteSet(1..n)
      BY <1>2, FS_Interval
    <3> QED BY <3>1, FS_Subset
  <2>3. f \in [I -> E]
    BY <1>2
  <2>4. \A i, j \in I : f[i] = f[j] => i = j
    BY <1>2
  <2>5. \A e \in E : \E i \in I : f[i] = e
    BY <1>2
  <2>6. Cardinality(E) = Cardinality(I)
    <3> HIDE DEF I, E, f
    <3> QED BY <2>2, <2>3, <2>4, <2>5, SameSize
  <2> QED BY <2>1, <2>6
<1>16. \A t \in {TRUE, FALSE} :
         Cardinality({i \in DOMAIN rows : rows[i][3] = t})
           = Cardinality({e \in Asked : holds[e] = t})
  BY <1>15
<1>17. /\ Printed(rs)[1][2] = "every" <=> Holding = Asked
       /\ Printed(rs)[1][2] = "none" <=> Holding = {} /\ Asked # {}
  BY <1>5, <1>6, <1>12, <1>13
<1>18. /\ LET claim == Printed(rs)[1][2]
           IN /\ claim = "every" <=> Holding = Asked
              /\ claim = "none" <=> Holding = {} /\ Asked # {}
       /\ Printed(rs)[1][3] = {<<c, command.open[c][1]>> :
                                 c \in {"principal", "action", "resource"} \cap
                                       {d \in DOMAIN command.open : command.open[d] # None}}
  <2> HIDE DEF rows, x, holds, n, S
  <2> QED BY <1>12, <1>14, <1>17, Zenon
<1>19. /\ Len(Tail(Printed(rs))) = Cardinality(Asked)
       /\ \A t \in {TRUE, FALSE} :
            Cardinality({i \in DOMAIN Tail(Printed(rs)) : Tail(Printed(rs))[i][3] = t})
              = Cardinality({e \in Asked : invocation.holds[e] = t})
  <2>1. Tail(Printed(rs)) = rows /\ Len(rows) = Cardinality(Asked)
    BY <1>8, <1>11
  <2> HIDE DEF rows, x, S
  <2> QED BY <1>16, <2>1, Zenon
<1> HIDE DEF rows, x, n, S
<1> QED BY <1>18, <1>19, Zenon DEF AnswersRun

-------------------------------------------------------------------------------
\* The invariant: what is so at each stage of a command.
InputsGood == \A i \in DOMAIN Steps(command) : ~Bad(Steps(command)[i])
FirstBad == \E i \in DOMAIN Steps(command) :
              /\ exit.why = Steps(command)[i] /\ Bad(Steps(command)[i])
              /\ \A j \in DOMAIN Steps(command) : Bad(Steps(command)[j]) => i <= j

Entitled == Asked = {} => IsAny(command.open)
AskedSeq == SetToSeq(Asked)
OutLines(queries) == {<<"header", Shown(e)>> : e \in queries} \cup {<<"script", e>> : e \in queries}
\* The first k scripts of print mode.
Scripted(out, queries, k) ==
  /\ k \in Nat /\ out \in Seq(OutLines(queries))
  /\ \A i \in 1..k : /\ out[2 * i - 1] = <<"header", Shown(SetToSeq(queries)[i])>>
                     /\ out[2 * i] = <<"script", SetToSeq(queries)[i]>>

InMode(mode) == command.do = "symcc" /\ ModeEnum(command.mode) = mode
Checking ==
  /\ command.do = "symcc" /\ Entitled /\ envs = AskedSeq
  /\ symccResults \in Seq(BOOLEAN) /\ Len(symccResults) <= Len(envs)
  /\ InMode("run") =>
       stdout = <<>> /\ \A i \in DOMAIN symccResults : symccResults[i] = invocation.holds[envs[i]]
  /\ InMode("print") =>
       Len(stdout) = 2 * Len(symccResults) /\ Scripted(stdout, Asked, Len(symccResults))

Succeeded ==
  /\ exit.code = 0
  /\ command.do = "authorize" => (stdout[1][3] = "implicitly denied" <=> stdout[1][2] = {})
  /\ command.do = "symcc" => Entitled
  /\ InMode("run") =>
       \E rs : /\ stdout = AnswerOf(command, Asked, rs) /\ DOMAIN rs = 1..Cardinality(Asked)
               /\ \A i \in 1..Cardinality(Asked) : rs[i] = invocation.holds[AskedSeq[i]]
  /\ InMode("print") =>
       Len(stdout) = 2 * Cardinality(Asked) /\ Scripted(stdout, Asked, Cardinality(Asked))

FailedLate ==
  /\ exit.code = 2 /\ exit.why \in {<<"backend">>, <<"action entities">>, <<"request environment", "incompatible">>}
  /\ stdout # <<>> =>
       InMode("print") /\ \E k \in Nat : Len(stdout) = 2 * k + 1 /\ Scripted(stdout, Asked, k)

Untouched == stdout = <<>> /\ envs = <<>> /\ symccResults = <<>>

CliInv ==
  /\ invocation \in Invocations
  /\ \/ cliStage = "parsing" /\ exit.code = 1 /\ Untouched
     \/ cliStage = "ready" /\ exit.code = 1 /\ InputsGood /\ Untouched
     \/ /\ cliStage = "analyzing" /\ exit.code = 1 /\ InputsGood /\ Untouched
        /\ command.do \in {"analyze policies", "analyze compare"}
     \/ cliStage = "symcc" /\ exit.code = 1 /\ InputsGood /\ Checking
     \/ cliStage = "exited" /\ InputsGood /\ (Succeeded \/ FailedLate)
     \/ cliStage = "exited" /\ exit.code = 2 /\ stdout = <<>> /\ FirstBad

LEMMA CliInitial == LeanCliInit => CliInv
BY DEF LeanCliInit, CliInv, Untouched

LEMMA CommandUnderstood == CliInv => Understood(invocation)
BY InvocationsAssumption DEF CliInv

LEMMA NoPanic ==
  ASSUME Understood(invocation)
  PROVE  /\ Steps(command) \in Seq(StepNames) /\ DOMAIN Steps(command) \subseteq Nat
         /\ \A i \in DOMAIN Steps(command) : Steps(command)[i][2] # "panic"
<1> DEFINE steps == Steps(command)
<1>1. steps \in Seq(StepNames)
  BY KnownSteps DEF Understood, command
<1> HIDE DEF steps
<1>2. \A i \in DOMAIN steps : steps[i] \in StepNames
  BY <1>1
<1>3. \A x \in StepNames : x[2] # "panic"
  BY DEF StepNames, Deeds
<1>4. DOMAIN steps \subseteq Nat
  BY <1>1
<1>5. steps \in Seq(StepNames) /\ DOMAIN steps \subseteq Nat /\ \A i \in DOMAIN steps : steps[i][2] # "panic"
  BY <1>1, <1>2, <1>3, <1>4
<1> QED BY <1>5 DEF steps

\* What parsing decides.
LEMMA InputsParsed == CliInv /\ ParseInputs => CliInv'
<1> SUFFICES ASSUME CliInv, ParseInputs PROVE CliInv'
  OBVIOUS
<1> DEFINE steps == Steps(command)
           wrong == {i \in DOMAIN steps : Bad(steps[i]) \/ steps[i][2] = "panic"}
<1>1. DOMAIN steps \subseteq Nat /\ \A i \in DOMAIN steps : steps[i][2] # "panic"
  BY CommandUnderstood, NoPanic
<1>2. invocation \in Invocations /\ invocation' = invocation
      /\ cliStage = "parsing" /\ exit.code = 1 /\ Untouched
  BY DEF CliInv, ParseInputs
<1>3. \A step : Bad(step)' = Bad(step)
  BY <1>2 DEF Bad
<1>4. command' = command
  BY <1>2 DEF command
<1>5. CASE wrong = {}
  <2>1. InputsGood'
    BY <1>3, <1>4, <1>5 DEF InputsGood
  <2>2. cliStage' = "ready" /\ UNCHANGED <<envs, symccResults, stdout, exit>>
    BY <1>5 DEF ParseInputs
  <2> QED BY <1>2, <2>1, <2>2 DEF CliInv, Untouched
<1>6. CASE wrong # {}
  <2> DEFINE i == Min(wrong)
  <2>1. wrong \subseteq Nat /\ wrong # {}
    BY <1>1, <1>6
  <2>2. i \in wrong /\ \A j \in wrong : i <= j
    <3> HIDE DEF wrong
    <3> QED BY <2>1, LeastOf
  <2>3. i \in DOMAIN steps /\ Bad(steps[i]) /\ \A j \in DOMAIN steps : Bad(steps[j]) => i <= j
    BY <1>1, <2>2
  <2>4. cliStage' = "exited" /\ stdout' = stdout
        /\ exit' = [code |-> IF steps[i][2] = "panic" THEN 101 ELSE 2, why |-> steps[i]]
    BY <1>6 DEF ParseInputs, Exit
  <2> HIDE DEF i
  <2>5. exit'.code = 2 /\ exit'.why = steps[i]
    BY <1>1, <2>3, <2>4
  <2>6. FirstBad'
    BY <1>3, <1>4, <2>3, <2>5 DEF FirstBad
  <2> QED BY <1>2, <2>4, <2>5, <2>6 DEF CliInv, Untouched
<1> QED BY <1>5, <1>6

LEMMA SameInvocation ==
  ASSUME invocation' = invocation
  PROVE  /\ command' = command /\ InputsGood' = InputsGood /\ Entitled' = Entitled
         /\ Asked' = Asked /\ AskedSeq' = AskedSeq
         /\ \A mode : InMode(mode)' = InMode(mode)
<1>1. command' = command
  BY DEF command
<1>2. \A step : Bad(step)' = Bad(step)
  BY DEF Bad
<1>3. InputsGood' = InputsGood
  BY <1>1, <1>2 DEF InputsGood
<1>4. Asked' = Asked
  BY <1>1 DEF Asked
<1>5. AskedSeq' = AskedSeq
  BY <1>4 DEF AskedSeq
<1>6. Entitled' = Entitled
  BY <1>1, <1>4 DEF Entitled
<1>7. \A mode : InMode(mode)' = InMode(mode)
  BY <1>1 DEF InMode
<1> QED BY <1>1, <1>3, <1>4, <1>5, <1>6, <1>7

LEMMA ReadyMeans ==
  ASSUME CliInv, cliStage = "ready"
  PROVE  invocation \in Invocations /\ exit.code = 1 /\ InputsGood /\ Untouched
BY DEF CliInv

\* The commands that are one call of the backend.
LEMMA Answered == CliInv /\ (Authorize \/ Evaluate \/ Validate) => CliInv'
<1> SUFFICES ASSUME CliInv, Authorize \/ Evaluate \/ Validate PROVE CliInv'
  OBVIOUS
<1>1. /\ cliStage = "ready" /\ invocation' = invocation /\ cliStage' = "exited"
      /\ exit' = [code |-> 0, why |-> <<"done">>]
  <2>1. CASE Authorize
    BY <2>1 DEF Authorize, Exit
  <2>2. CASE Evaluate
    BY <2>2 DEF Evaluate, Exit
  <2>3. CASE Validate
    BY <2>3 DEF Validate, Exit
  <2> QED BY <2>1, <2>2, <2>3
<1>2. invocation' \in Invocations /\ InputsGood'
  BY <1>1, ReadyMeans, SameInvocation
<1>3. command' = command
  BY <1>1 DEF command
<1>4. CASE Authorize
  <2>1. command.do = "authorize"
    BY <1>4 DEF Authorize
  <2>2. PICK permits \in SUBSET {"a", "b"}, forbids \in SUBSET {"a", "b"},
             erring \in SUBSET {"a", "b"} :
          LET allow == permits # {} /\ forbids = {}
              determining == Determining(permits, forbids)
          IN stdout' = <<<<"authorize", permits \cup forbids,
                           IF allow THEN "allowed"
                           ELSE IF determining = {} THEN "implicitly denied" ELSE "denied",
                           determining>>>>
                         \o (IF erring = {} THEN <<>> ELSE <<<<"errors", erring>>>>)
    BY <1>4 DEF Authorize
  <2> DEFINE said == IF permits # {} /\ forbids = {} THEN "allowed"
                     ELSE IF Determining(permits, forbids) = {} THEN "implicitly denied"
                     ELSE "denied"
             x == <<"authorize", permits \cup forbids, said, Determining(permits, forbids)>>
             rest == IF erring = {} THEN <<>> ELSE <<<<"errors", erring>>>>
  <2>3. stdout' = <<x>> \o rest
    BY <2>2
  <2>4. rest \in Seq({x, <<"errors", erring>>})
    <3> HIDE DEF x
    <3> DEFINE y == <<"errors", erring>>
    <3>1. <<y>> \in Seq({x, y}) /\ <<>> \in Seq({x, y})
      <4> HIDE DEF y
      <4> QED OBVIOUS
    <3> QED BY <3>1
  <2>5. stdout'[1] = x
    <3> DEFINE S == {x, <<"errors", erring>>}
    <3>1. x \in S
      OBVIOUS
    <3> HIDE DEF x, rest, S
    <3> QED BY <2>3, <2>4, <3>1, HeadAndRest DEF S
  <2>6. stdout'[1][3] = said /\ stdout'[1][2] = permits \cup forbids
    <3>1. \A a, b, c, d : <<a, b, c, d>>[3] = c /\ <<a, b, c, d>>[2] = b
      OBVIOUS
    <3> HIDE DEF said
    <3> QED BY <2>5, <3>1
  <2>7. said = "implicitly denied" <=> permits \cup forbids = {}
    BY DEF Determining
  <2>8. Succeeded'
    <3> HIDE DEF said
    <3> QED BY <1>1, <1>3, <2>1, <2>6, <2>7 DEF Succeeded, InMode
  <2> QED BY <1>1, <1>2, <2>8 DEF CliInv
<1>5. CASE Evaluate \/ Validate
  <2>1. command.do \notin {"authorize", "symcc"}
    BY <1>5 DEF Evaluate, Validate, ValidationCommands
  <2>2. Succeeded'
    BY <1>1, <1>3, <2>1 DEF Succeeded, InMode
  <2> QED BY <1>1, <1>2, <2>2 DEF CliInv
<1> QED BY <1>4, <1>5

LEMMA SymCCStarted == CliInv /\ StartSymCC => CliInv'
<1> SUFFICES ASSUME CliInv, StartSymCC PROVE CliInv'
  OBVIOUS
<1> DEFINE found == ToRequestEnvs(command.open, invocation.schema)
<1>1. /\ cliStage = "ready" /\ invocation' = invocation /\ command.do = "symcc"
      /\ symccResults' = symccResults /\ stdout' = stdout
  BY DEF StartSymCC, Fail, Exit
<1>2. /\ invocation' \in Invocations /\ InputsGood' /\ Untouched /\ exit.code = 1
      /\ command' = command /\ AskedSeq' = AskedSeq
      /\ Entitled' = Entitled /\ \A mode : InMode(mode)' = InMode(mode)
  BY <1>1, ReadyMeans, SameInvocation
<1>3. found = Asked /\ IsFiniteSet(Asked)
  BY <1>1, CommandUnderstood, AskedFor
<1>4. CASE \E why \in {<<"action entities">>, <<"request environment", "incompatible">>} : Fail(why)
  <2>1. PICK why \in {<<"action entities">>, <<"request environment", "incompatible">>} :
           cliStage' = "exited" /\ exit' = [code |-> 2, why |-> why]
    BY <1>4 DEF Fail, Exit
  <2>2. FailedLate'
    BY <1>1, <1>2, <2>1 DEF FailedLate, Untouched
  <2> QED BY <1>2, <2>1, <2>2 DEF CliInv
<1>5. CASE /\ ~(found = {} /\ ~IsAny(command.open))
           /\ cliStage' = "symcc" /\ envs' = SetToSeq(found) /\ exit' = exit
  <2>1. cliStage' = "symcc" /\ envs' = SetToSeq(found) /\ exit' = exit
    BY <1>5
  <2>2. envs' = AskedSeq' /\ Entitled'
    BY <1>2, <1>3, <1>5, <2>1 DEF AskedSeq, Entitled
  <2>3. symccResults' = <<>> /\ stdout' = <<>>
    BY <1>1, <1>2 DEF Untouched
  <2>4. Len(envs') \in Nat
    BY <1>2, <1>3, <2>2, EachListed DEF AskedSeq
  <2>5. Checking'
    <3>1. command'.do = "symcc"
      BY <1>1, <1>2
    <3>2. symccResults' \in Seq(BOOLEAN) /\ Len(symccResults') = 0 /\ DOMAIN symccResults' = {}
      BY <2>3
    <3>3. Len(stdout') = 0 /\ stdout' \in Seq(OutLines(Asked')) /\ 1..0 = {}
      BY <2>3
    <3>4. Scripted(stdout', Asked', 0)
      BY <3>3 DEF Scripted
    <3> QED BY <2>2, <2>3, <2>4, <3>1, <3>2, <3>3, <3>4 DEF Checking
  <2> QED BY <1>2, <2>1, <2>5 DEF CliInv
<1>6. \/ \E why \in {<<"action entities">>, <<"request environment", "incompatible">>} : Fail(why)
      \/ /\ ~(found = {} /\ ~IsAny(command.open))
         /\ cliStage' = "symcc" /\ envs' = SetToSeq(found) /\ exit' = exit
  BY DEF StartSymCC
<1> QED BY <1>4, <1>5, <1>6

\* What is so while the environments are asked about, with the sequence of them
\* spelled out.
LEMMA CheckingMeans ==
  ASSUME CliInv, cliStage = "symcc"
  PROVE  /\ invocation \in Invocations /\ exit.code = 1 /\ InputsGood /\ Checking
         /\ Cardinality(Asked) \in Nat /\ envs \in Seq(Asked) /\ Len(envs) = Cardinality(Asked)
         /\ DOMAIN envs = 1..Cardinality(Asked)
         /\ \A i \in 1..Cardinality(Asked) : envs[i] \in Asked /\ invocation.holds[envs[i]] \in BOOLEAN
<1>1. invocation \in Invocations /\ exit.code = 1 /\ InputsGood /\ Checking
  BY DEF CliInv
<1>2. command.do = "symcc" /\ envs = SetToSeq(Asked)
  BY <1>1 DEF Checking, AskedSeq
<1>3. IsFiniteSet(Asked) /\ \A e \in Asked : invocation.holds[e] \in BOOLEAN
  BY <1>2, CommandUnderstood, AskedFor
<1> QED BY <1>1, <1>2, <1>3, EachListed

LEMMA EnvironmentChecked == CliInv /\ CheckEnvironment => CliInv'
<1> SUFFICES ASSUME CliInv, CheckEnvironment PROVE CliInv'
  OBVIOUS
<1> DEFINE k == Len(symccResults)
           r == invocation.holds[envs[k + 1]]
<1>1. /\ cliStage = "symcc" /\ cliStage' = "symcc" /\ invocation' = invocation
      /\ ModeEnum(command.mode) = "run" /\ k < Len(envs)
      /\ symccResults' = Append(symccResults, r) /\ UNCHANGED <<envs, stdout, exit>>
  BY DEF CheckEnvironment, SymCCRuns, Left, Current
<1>2. /\ invocation \in Invocations /\ exit.code = 1 /\ InputsGood /\ Checking
      /\ Cardinality(Asked) \in Nat /\ Len(envs) = Cardinality(Asked)
      /\ \A i \in 1..Cardinality(Asked) : invocation.holds[envs[i]] \in BOOLEAN
  BY <1>1, CheckingMeans
<1>3. /\ command' = command /\ InputsGood' = InputsGood /\ Entitled' = Entitled
      /\ AskedSeq' = AskedSeq /\ \A mode : InMode(mode)' = InMode(mode)
  BY <1>1, SameInvocation
<1>4. symccResults \in Seq(BOOLEAN) /\ InMode("run") /\ ~InMode("print")
  BY <1>1, <1>2 DEF Checking, InMode
<1>5. k \in Nat /\ r \in BOOLEAN
  BY <1>1, <1>2, <1>4
<1>6. /\ symccResults' \in Seq(BOOLEAN) /\ Len(symccResults') = k + 1
      /\ DOMAIN symccResults' = 1..k + 1 /\ DOMAIN symccResults = 1..k
      /\ \A i \in 1..k + 1 : symccResults'[i] = IF i = k + 1 THEN r ELSE symccResults[i]
  <2> HIDE DEF r
  <2> QED BY <1>1, <1>4, <1>5
<1>7. \A i \in DOMAIN symccResults' : symccResults'[i] = invocation'.holds[envs'[i]]
  <2>1. \A i \in 1..k + 1 : i # k + 1 => i \in DOMAIN symccResults
    BY <1>5, <1>6
  <2>2. \A i \in DOMAIN symccResults : symccResults[i] = invocation.holds[envs[i]]
    BY <1>2, <1>4 DEF Checking
  <2> QED BY <1>1, <1>6, <2>1, <2>2
<1>8. Len(symccResults') <= Len(envs')
  BY <1>1, <1>2, <1>5, <1>6
<1>9. Checking'
  BY <1>1, <1>2, <1>3, <1>4, <1>6, <1>7, <1>8 DEF Checking
<1> QED BY <1>1, <1>2, <1>3, <1>9 DEF CliInv

LEMMA ResultsPrinted == CliInv /\ PrintResults => CliInv'
<1> SUFFICES ASSUME CliInv, PrintResults PROVE CliInv'
  OBVIOUS
<1>1. /\ cliStage = "symcc" /\ cliStage' = "exited" /\ invocation' = invocation
      /\ ModeEnum(command.mode) = "run" /\ ~(Len(symccResults) < Len(envs))
      /\ exit' = [code |-> 0, why |-> <<"done">>]
      /\ stdout' = <<<<"verdict", Verdict(command.check, symccResults), Restriction(command.open)>>>>
               \o Rows(envs, symccResults)
  BY DEF PrintResults, SymCCRuns, Left, Exit
<1>2. /\ invocation \in Invocations /\ InputsGood /\ Checking
      /\ Cardinality(Asked) \in Nat /\ Len(envs) = Cardinality(Asked)
  BY <1>1, CheckingMeans
<1>3. /\ command' = command /\ InputsGood' = InputsGood /\ Entitled' = Entitled
      /\ Asked' = Asked /\ AskedSeq' = AskedSeq /\ \A mode : InMode(mode)' = InMode(mode)
  BY <1>1, SameInvocation
<1>4. /\ symccResults \in Seq(BOOLEAN) /\ InMode("run") /\ ~InMode("print")
      /\ envs = AskedSeq /\ Len(symccResults) <= Len(envs) /\ command.do = "symcc" /\ Entitled
      /\ \A i \in DOMAIN symccResults : symccResults[i] = invocation.holds[envs[i]]
  BY <1>1, <1>2 DEF Checking, InMode
<1>5. Len(symccResults) = Cardinality(Asked) /\ DOMAIN symccResults = 1..Len(symccResults)
  BY <1>1, <1>2, <1>4
<1>6. stdout' = AnswerOf(command', Asked', symccResults)
  BY <1>1, <1>3, <1>4 DEF AnswerOf, AskedSeq
<1>7. /\ DOMAIN symccResults = 1..Cardinality(Asked')
      /\ \A i \in 1..Cardinality(Asked') : symccResults[i] = invocation'.holds[AskedSeq'[i]]
  BY <1>1, <1>3, <1>4, <1>5
<1>8. Succeeded'
  BY <1>1, <1>3, <1>4, <1>6, <1>7 DEF Succeeded
<1> QED BY <1>1, <1>2, <1>3, <1>8 DEF CliInv

LEMMA ScriptPrinted == CliInv /\ PrintScript => CliInv'
<1> SUFFICES ASSUME CliInv, PrintScript PROVE CliInv'
  OBVIOUS
<1> DEFINE k == Len(symccResults)
           e == envs[k + 1]
           header == <<"header", Shown(e)>>
           script == <<"script", e>>
<1>1. /\ cliStage = "symcc" /\ invocation' = invocation /\ envs' = envs
      /\ ModeEnum(command.mode) = "print" /\ k < Len(envs)
  BY DEF PrintScript, SymCCRuns, Left, Current
<1>2. /\ invocation \in Invocations /\ exit.code = 1 /\ InputsGood /\ Checking
      /\ Cardinality(Asked) \in Nat /\ Len(envs) = Cardinality(Asked)
      /\ \A i \in 1..Cardinality(Asked) : envs[i] \in Asked
  BY <1>1, CheckingMeans
<1>3. /\ command' = command /\ InputsGood' = InputsGood /\ Entitled' = Entitled
      /\ Asked' = Asked /\ AskedSeq' = AskedSeq /\ \A mode : InMode(mode)' = InMode(mode)
  BY <1>1, SameInvocation
<1>4. /\ symccResults \in Seq(BOOLEAN) /\ InMode("print") /\ ~InMode("run") /\ command.do = "symcc"
      /\ envs = AskedSeq /\ Len(stdout) = 2 * k /\ Scripted(stdout, Asked, k) /\ Entitled
  BY <1>1, <1>2 DEF Checking, InMode
<1>5. k \in Nat /\ e \in Asked /\ e = AskedSeq[k + 1]
  BY <1>1, <1>2, <1>4
<1>6. header \in OutLines(Asked) /\ script \in OutLines(Asked) /\ stdout \in Seq(OutLines(Asked))
  BY <1>4, <1>5 DEF OutLines, Scripted, AskedSeq
<1>7. ASSUME NEW i \in 1..k
      PROVE  /\ stdout[2 * i - 1] = <<"header", Shown(AskedSeq[i])>>
             /\ stdout[2 * i] = <<"script", AskedSeq[i]>>
             /\ 2 * i - 1 \in 1..Len(stdout) /\ 2 * i \in 1..Len(stdout)
  <2>1. i \in Nat /\ 1 <= i /\ i <= k
    BY <1>5
  <2>2. 2 * i - 1 \in 1..Len(stdout) /\ 2 * i \in 1..Len(stdout)
    BY <1>4, <1>5, <2>1
  <2> QED BY <1>4, <2>2 DEF Scripted, AskedSeq
<1> HIDE DEF header, script
<1>8. CASE /\ stdout' = stdout \o <<header, script>>
           /\ symccResults' = Append(symccResults, TRUE)
           /\ UNCHANGED <<invocation, cliStage, envs, exit>>
  <2>1. symccResults' \in Seq(BOOLEAN) /\ Len(symccResults') = k + 1
    BY <1>4, <1>5, <1>8
  <2>2. stdout' \in Seq(OutLines(Asked)) /\ Len(stdout') = Len(stdout) + 2
    BY <1>6, <1>8
  <2>3. Len(stdout') = 2 * Len(symccResults')
    BY <1>4, <1>5, <2>1, <2>2
  <2>4. /\ \A j \in 1..Len(stdout) : stdout'[j] = stdout[j]
        /\ stdout'[Len(stdout) + 1] = header /\ stdout'[Len(stdout) + 2] = script
    BY <1>6, <1>8
  <2>5. ASSUME NEW i \in 1..k + 1
        PROVE  /\ stdout'[2 * i - 1] = <<"header", Shown(AskedSeq[i])>>
               /\ stdout'[2 * i] = <<"script", AskedSeq[i]>>
    <3>1. CASE i = k + 1
      <4>1. 2 * i - 1 = Len(stdout) + 1 /\ 2 * i = Len(stdout) + 2
        BY <1>4, <1>5, <3>1
      <4> QED BY <1>5, <2>4, <3>1, <4>1 DEF header, script
    <3>2. CASE i # k + 1
      <4>1. i \in 1..k
        BY <1>5, <3>2
      <4> QED BY <1>7, <2>4, <4>1
    <3> QED BY <3>1, <3>2
  <2>6. Scripted(stdout', Asked', Len(symccResults'))
    <3> DEFINE m == Len(symccResults')
    <3>1. m = k + 1 /\ m \in Nat /\ AskedSeq = SetToSeq(Asked')
      BY <1>3, <1>5, <2>1 DEF AskedSeq
    <3> HIDE DEF m
    <3>2. \A i \in 1..m : /\ stdout'[2 * i - 1] = <<"header", Shown(SetToSeq(Asked')[i])>>
                          /\ stdout'[2 * i] = <<"script", SetToSeq(Asked')[i]>>
      BY <2>5, <3>1
    <3>3. Scripted(stdout', Asked', m)
      BY <1>3, <2>2, <3>1, <3>2 DEF Scripted
    <3> QED BY <3>3 DEF m
  <2>7. Len(symccResults') <= Len(envs')
    BY <1>1, <1>2, <1>5, <2>1
  <2>8. Checking'
    BY <1>1, <1>3, <1>4, <2>1, <2>3, <2>6, <2>7 DEF Checking
  <2> QED BY <1>1, <1>2, <1>3, <1>8, <2>8 DEF CliInv
<1>9. CASE /\ stdout' = Append(stdout, header)
           /\ Exit(2, <<"backend">>)
  <2>1. stdout' \in Seq(OutLines(Asked)) /\ Len(stdout') = 2 * k + 1 /\ stdout' # <<>>
    BY <1>4, <1>5, <1>6, <1>9
  <2>2. \A j \in 1..Len(stdout) : stdout'[j] = stdout[j]
    BY <1>6, <1>9
  <2>3. \A i \in 1..k : /\ stdout'[2 * i - 1] = <<"header", Shown(AskedSeq[i])>>
                        /\ stdout'[2 * i] = <<"script", AskedSeq[i]>>
    BY <1>7, <2>2
  <2>4. Scripted(stdout', Asked', k)
    BY <1>3, <1>5, <2>1, <2>3 DEF Scripted, AskedSeq
  <2>5. exit' = [code |-> 2, why |-> <<"backend">>] /\ cliStage' = "exited"
    BY <1>9 DEF Exit
  <2>6. FailedLate'
    BY <1>3, <1>4, <1>5, <2>1, <2>4, <2>5 DEF FailedLate
  <2> QED BY <1>1, <1>2, <1>3, <2>5, <2>6 DEF CliInv
<1> QED BY <1>8, <1>9 DEF PrintScript, header, script, Current

LEMMA ScriptsEnded == CliInv /\ EndScripts => CliInv'
<1> SUFFICES ASSUME CliInv, EndScripts PROVE CliInv'
  OBVIOUS
<1>1. /\ cliStage = "symcc" /\ cliStage' = "exited" /\ invocation' = invocation
      /\ ModeEnum(command.mode) = "print" /\ ~(Len(symccResults) < Len(envs))
      /\ exit' = [code |-> 0, why |-> <<"done">>] /\ stdout' = stdout
  BY DEF EndScripts, SymCCRuns, Left, Exit
<1>2. /\ invocation \in Invocations /\ InputsGood /\ Checking
      /\ Cardinality(Asked) \in Nat /\ Len(envs) = Cardinality(Asked)
  BY <1>1, CheckingMeans
<1>3. /\ command' = command /\ InputsGood' = InputsGood /\ Entitled' = Entitled
      /\ Asked' = Asked /\ \A mode : InMode(mode)' = InMode(mode)
  BY <1>1, SameInvocation
<1>4. /\ symccResults \in Seq(BOOLEAN) /\ ~InMode("run") /\ Len(symccResults) <= Len(envs)
      /\ Len(stdout) = 2 * Len(symccResults) /\ Scripted(stdout, Asked, Len(symccResults))
      /\ Entitled /\ command.do = "symcc"
  BY <1>1, <1>2 DEF Checking, InMode
<1>5. Len(symccResults) = Cardinality(Asked)
  BY <1>1, <1>2, <1>4
<1>6. Succeeded'
  BY <1>1, <1>3, <1>4, <1>5 DEF Succeeded
<1> QED BY <1>1, <1>2, <1>3, <1>6 DEF CliInv

LEMMA BackendFailed == CliInv /\ BackendFails => CliInv'
<1> SUFFICES ASSUME CliInv, BackendFails PROVE CliInv'
  OBVIOUS
<1>1. /\ invocation' = invocation /\ cliStage' = "exited" /\ stdout' = stdout
      /\ exit' = [code |-> 2, why |-> <<"backend">>]
  BY DEF BackendFails, Fail, Exit
<1>2. cliStage \in {"ready", "symcc"} /\ invocation \in Invocations /\ InputsGood
  <2>1. cliStage \in {"ready", "symcc"}
    BY DEF BackendFails, SymCCRuns
  <2> QED BY <2>1, ReadyMeans, CheckingMeans
<1>3. stdout = <<>>
  <2>1. CASE cliStage = "ready"
    BY <2>1, ReadyMeans DEF Untouched
  <2>2. CASE cliStage = "symcc"
    <3>1. Checking
      BY <2>2, CheckingMeans
    <3>2. SymCCRuns("run") => InMode("run")
      BY <3>1 DEF SymCCRuns, InMode, Checking
    <3> QED BY <2>2, <3>1, <3>2 DEF BackendFails, Checking
  <2> QED BY <1>2, <2>1, <2>2
<1>4. InputsGood'
  BY <1>1, <1>2, SameInvocation
<1>5. FailedLate'
  BY <1>1, <1>3 DEF FailedLate
<1> QED BY <1>1, <1>2, <1>4, <1>5 DEF CliInv

LEMMA AnalysisRuns == CliInv /\ (StartAnalysis \/ EndAnalysis) => CliInv'
<1> SUFFICES ASSUME CliInv, StartAnalysis \/ EndAnalysis PROVE CliInv'
  OBVIOUS
<1>1. invocation' = invocation
  BY DEF StartAnalysis, EndAnalysis
<1>2. command' = command /\ InputsGood' = InputsGood /\ \A mode : InMode(mode)' = InMode(mode)
  BY <1>1, SameInvocation
<1>3. CASE StartAnalysis
  <2>1. /\ cliStage = "ready" /\ cliStage' = "analyzing"
        /\ command.do \in {"analyze policies", "analyze compare"}
        /\ UNCHANGED <<envs, symccResults, stdout, exit>>
    BY <1>3 DEF StartAnalysis
  <2>2. Untouched' /\ invocation \in Invocations /\ InputsGood /\ exit.code = 1
    BY <2>1, ReadyMeans DEF Untouched
  <2> QED BY <1>1, <1>2, <2>1, <2>2 DEF CliInv
<1>4. CASE EndAnalysis
  <2>1. /\ cliStage' = "exited" /\ invocation \in Invocations /\ InputsGood
        /\ command.do \in {"analyze policies", "analyze compare"}
    BY <1>4 DEF EndAnalysis, CliInv, Exit
  <2>2. CASE exit' = [code |-> 0, why |-> <<"done">>]
    <3>1. Succeeded'
      BY <1>2, <2>1, <2>2 DEF Succeeded, InMode
    <3> QED BY <1>1, <1>2, <2>1, <3>1 DEF CliInv
  <2>3. CASE exit' = [code |-> 2, why |-> <<"backend">>] /\ stdout' = <<>>
    <3>1. FailedLate'
      BY <2>3 DEF FailedLate
    <3> QED BY <1>1, <1>2, <2>1, <3>1 DEF CliInv
  <2> QED BY <1>4, <2>2, <2>3 DEF EndAnalysis, Exit
<1> QED BY <1>3, <1>4

LEMMA CliKept == CliInv /\ [LeanCliNext]_<<cliVars, analysisVars>> => CliInv'
<1>1. CliInv /\ UNCHANGED cliVars => CliInv'
  <2> SUFFICES ASSUME CliInv, UNCHANGED cliVars PROVE CliInv'
    OBVIOUS
  <2>1. UNCHANGED <<invocation, cliStage, envs, symccResults, stdout, exit>>
    BY DEF cliVars
  <2>2. /\ command' = command /\ InputsGood' = InputsGood /\ Entitled' = Entitled
        /\ Asked' = Asked /\ AskedSeq' = AskedSeq /\ \A mode : InMode(mode)' = InMode(mode)
    BY <2>1, SameInvocation
  <2>3. \A step : Bad(step)' = Bad(step)
    BY <2>1 DEF Bad
  <2>4. /\ Checking' = Checking /\ FailedLate' = FailedLate
        /\ Untouched' = Untouched /\ FirstBad' = FirstBad
    BY <2>1, <2>2, <2>3 DEF Checking, FailedLate, Untouched, FirstBad
  <2>5. Succeeded' = Succeeded
    <3>1. exit' = exit /\ stdout' = stdout /\ command' = command /\ invocation' = invocation
      BY <2>1, <2>2
    <3>2. InMode("run")' = InMode("run") /\ InMode("print")' = InMode("print")
      BY <2>2
    <3>3. AskedSeq' = AskedSeq /\ Asked' = Asked
      BY <2>2
    <3> DEFINE Ran(line, c, which, order, inv) ==
                 \E rs : /\ line = AnswerOf(c, which, rs) /\ DOMAIN rs = 1..Cardinality(which)
                        /\ \A i \in 1..Cardinality(which) : rs[i] = inv.holds[order[i]]
               Wrote(line, which) ==
                 Len(line) = 2 * Cardinality(which) /\ Scripted(line, which, Cardinality(which))
    <3>4. Ran(stdout, command, Asked, AskedSeq, invocation)' = Ran(stdout, command, Asked, AskedSeq, invocation)
      BY <3>1, <3>3, Zenon
    <3>5. Wrote(stdout, Asked)' = Wrote(stdout, Asked)
      BY <3>1, <3>3, Zenon
    <3> QED BY <2>2, <3>1, <3>2, <3>4, <3>5, Zenon DEF Succeeded
  <2> QED BY <2>1, <2>2, <2>4, <2>5 DEF CliInv
<1> QED BY <1>1, InputsParsed, Answered, SymCCStarted, EnvironmentChecked, ResultsPrinted,
           ScriptPrinted, ScriptsEnded, BackendFailed, AnalysisRuns
        DEF LeanCliNext, CliStep

-------------------------------------------------------------------------------
\* A file whose statements have names of their own is read whole.
LEMMA EveryStatement ==
  ASSUME Understood(invocation), ~Collides(invocation.statements)
  PROVE  Cardinality(DOMAIN Renamed(invocation.statements)) = Len(invocation.statements)
<1> DEFINE body == invocation.statements
           n == Len(body)
           names == {NameOf(body, i) : i \in DOMAIN body}
           f == [i \in DOMAIN body |-> NameOf(body, i)]
<1>1. body \in Seq(ToSet(body))
  BY DEF Understood
<1>2. DOMAIN body = 1..n /\ n \in Nat
  <2> HIDE DEF body
  <2> QED BY <1>1
<1>3. IsFiniteSet(DOMAIN body) /\ Cardinality(DOMAIN body) = n
  <2> HIDE DEF body, n
  <2>1. IsFiniteSet(1..n) /\ Cardinality(1..n) = IF 1 > n THEN 0 ELSE n - 1 + 1
    BY <1>2, FS_Interval
  <2> QED BY <1>2, <2>1
<1>4. f \in [DOMAIN body -> names]
  OBVIOUS
<1>5. \A i, j \in DOMAIN body : f[i] = f[j] => i = j
  BY DEF Collides
<1>6. \A z \in names : \E i \in DOMAIN body : f[i] = z
  OBVIOUS
<1>7. Cardinality(names) = n
  <2> DEFINE S == DOMAIN body
  <2> HIDE DEF f, n
  <2>1. f \in [S -> names] /\ IsFiniteSet(S) /\ Cardinality(S) = n
    BY <1>3, <1>4
  <2>2. (\A i, j \in S : f[i] = f[j] => i = j) /\ (\A z \in names : \E i \in S : f[i] = z)
    BY <1>5, <1>6
  <2> HIDE DEF S, names
  <2> QED BY <2>1, <2>2, SameSize
<1>8. DOMAIN Renamed(body) = names
  BY DEF Renamed
<1> QED BY <1>7, <1>8

LEMMA GoodInputs ==
  ASSUME CliInv, InputsGood
  PROVE  /\ \A i \in DOMAIN Steps(command) : Steps(command)[i] \notin invocation.bad
         /\ <<"policyset", "rename">> \in {Steps(command)[i] : i \in DOMAIN Steps(command)} =>
              Cardinality(DOMAIN Renamed(invocation.statements)) = Len(invocation.statements)
<1>1. \A i \in DOMAIN Steps(command) : ~Bad(Steps(command)[i])
  BY DEF InputsGood
<1>2. ASSUME <<"policyset", "rename">> \in {Steps(command)[i] : i \in DOMAIN Steps(command)}
      PROVE  Cardinality(DOMAIN Renamed(invocation.statements)) = Len(invocation.statements)
  <2>1. ~Bad(<<"policyset", "rename">>)
    BY <1>1, <1>2
  <2>2. ~Collides(invocation.statements)
    BY <2>1 DEF Bad
  <2> QED BY <2>2, EveryStatement, CommandUnderstood
<1> QED BY <1>1, <1>2 DEF Bad

LEMMA OddOrEven ==
  ASSUME NEW k \in Nat, NEW i \in 1..2 * k
  PROVE  \E j \in 1..k : i = 2 * j - 1 \/ i = 2 * j
<1> DEFINE m == (i + 1) \div 2
<1>1. i \in Nat /\ 1 <= i /\ i <= 2 * k
  OBVIOUS
<1>2. m \in Int /\ (i + 1 = 2 * m \/ i + 1 = 2 * m + 1)
  <2>1. \A n \in Nat : n \div 2 \in Int /\ n % 2 \in 0..1 /\ n = 2 * (n \div 2) + (n % 2)
    OBVIOUS
  <2>2. i + 1 \in Nat
    BY <1>1
  <2>3. m \in Int /\ (i + 1) % 2 \in 0..1 /\ i + 1 = 2 * m + ((i + 1) % 2)
    BY <2>1, <2>2
  <2> QED BY <2>3
<1> HIDE DEF m
<1>3. m \in 1..k /\ (i = 2 * m - 1 \/ i = 2 * m)
  BY <1>1, <1>2
<1> QED BY <1>3

\* Print mode: a header has its script after it, but for the last.
LEMMA HeadersWithScripts ==
  ASSUME NEW queries, NEW k \in Nat, NEW out, Len(out) = 2 * k + 1, Scripted(out, queries, k)
  PROVE  \A i \in DOMAIN out : out[i][1] = "header" /\ i # Len(out) =>
           out[i + 1][1] = "script" /\ Shown(out[i + 1][2]) = out[i][2]
<1> SUFFICES ASSUME NEW i \in DOMAIN out, out[i][1] = "header", i # Len(out)
             PROVE  out[i + 1][1] = "script" /\ Shown(out[i + 1][2]) = out[i][2]
  OBVIOUS
<1>1. \A j \in 1..k : /\ out[2 * j - 1] = <<"header", Shown(SetToSeq(queries)[j])>>
                      /\ out[2 * j] = <<"script", SetToSeq(queries)[j]>>
  BY DEF Scripted
<1>2. i \in 1..2 * k
  <2>1. DOMAIN out = 1..Len(out)
    BY DEF Scripted
  <2>2. \A m \in Nat : \A j \in 1..2 * m + 1 : j # 2 * m + 1 => j \in 1..2 * m
    OBVIOUS
  <2> QED BY <2>1, <2>2
<1>3. PICK j \in 1..k : i = 2 * j - 1 \/ i = 2 * j
  BY <1>2, OddOrEven
<1>4. i # 2 * j
  <2>1. out[2 * j] = <<"script", SetToSeq(queries)[j]>>
    BY <1>1
  <2>2. <<"script", SetToSeq(queries)[j]>>[1] = "script"
    OBVIOUS
  <2>3. out[2 * j][1] = "script"
    BY <2>1, <2>2
  <2>4. "script" # "header"
    OBVIOUS
  <2> QED BY <2>3, <2>4
<1>5. i = 2 * j - 1 /\ i + 1 = 2 * j
  BY <1>2, <1>3, <1>4
<1>6. out[i] = <<"header", Shown(SetToSeq(queries)[j])>> /\ out[i + 1] = <<"script", SetToSeq(queries)[j]>>
  BY <1>1, <1>5
<1> QED BY <1>6

LEMMA CliClean == CliInv => CleanFailure
<1> SUFFICES ASSUME CliInv PROVE CleanFailure
  OBVIOUS
<1> DEFINE steps == Steps(command)
           wrong == {i \in DOMAIN steps : steps[i] \in invocation.bad}
           Whole == <<"policyset", "rename">> \in {steps[i] : i \in DOMAIN steps} =>
                      Cardinality(DOMAIN Renamed(invocation.statements))
                        = Len(invocation.statements)
<1>1. InputsGood => wrong = {} /\ Whole
  BY GoodInputs
<1> DEFINE Named == exit.code = 2
                      /\ exit.why \notin {<<"backend">>, <<"action entities">>, <<"request environment", "incompatible">>} =>
                    \E i \in DOMAIN steps : /\ exit.why = steps[i] /\ \A j \in wrong : i <= j
                                            /\ steps[i][2] # "rename" => i \in wrong
           Paired == exit.code = 2 /\ stdout # <<>> =>
                    /\ command.do = "symcc" /\ ModeEnum(command.mode) = "print"
                    /\ \A i \in DOMAIN stdout : stdout[i][1] = "header" /\ i # Len(stdout) =>
                         stdout[i + 1][1] = "script" /\ Shown(stdout[i + 1][2]) = stdout[i][2]
<1> SUFFICES /\ exit.code \in {0, 1, 2}
             /\ wrong # {} => stdout = <<>> /\ exit.code # 0 /\ cliStage \in {"parsing", "exited"}
             /\ Named /\ Paired
             /\ cliStage \notin {"parsing", "exited"} \/ exit.code = 0 => Whole
  BY DEF CleanFailure
<1> HIDE DEF Whole
<1>2. CASE cliStage = "parsing" /\ exit.code = 1 /\ Untouched
  BY <1>2 DEF Untouched
<1>3. CASE cliStage \in {"ready", "analyzing", "symcc"} /\ exit.code = 1 /\ InputsGood
  BY <1>1, <1>3
<1>4. CASE cliStage = "exited" /\ InputsGood /\ Succeeded
  <2>1. exit.code = 0
    BY <1>4 DEF Succeeded
  <2> QED BY <1>1, <1>4, <2>1
<1>5. CASE cliStage = "exited" /\ InputsGood /\ FailedLate
  <2>1. exit.code = 2 /\ exit.why \in {<<"backend">>, <<"action entities">>, <<"request environment", "incompatible">>}
    BY <1>5 DEF FailedLate
  <2>2. ASSUME stdout # <<>>
        PROVE  /\ command.do = "symcc" /\ ModeEnum(command.mode) = "print"
               /\ \A i \in DOMAIN stdout : stdout[i][1] = "header" /\ i # Len(stdout) =>
                    stdout[i + 1][1] = "script" /\ Shown(stdout[i + 1][2]) = stdout[i][2]
    <3>1. InMode("print") /\ \E k \in Nat : Len(stdout) = 2 * k + 1 /\ Scripted(stdout, Asked, k)
      BY <1>5, <2>2 DEF FailedLate
    <3>2. PICK k \in Nat : Len(stdout) = 2 * k + 1 /\ Scripted(stdout, Asked, k)
      BY <3>1
    <3>3. \A i \in DOMAIN stdout : stdout[i][1] = "header" /\ i # Len(stdout) =>
            stdout[i + 1][1] = "script" /\ Shown(stdout[i + 1][2]) = stdout[i][2]
      BY <3>2, HeadersWithScripts
    <3> QED BY <3>1, <3>3 DEF InMode
  <2>3. wrong = {} /\ Paired /\ Named
    BY <1>1, <1>5, <2>1, <2>2
  <2>4. exit.code = 2
    BY <2>1, Zenon
  <2> HIDE DEF Paired, Named
  <2> QED BY <1>5, <2>3, <2>4
<1>6. CASE cliStage = "exited" /\ exit.code = 2 /\ stdout = <<>> /\ FirstBad
  <2>1. PICK i \in DOMAIN steps :
          /\ exit.why = steps[i] /\ Bad(steps[i])
          /\ \A j \in DOMAIN steps : Bad(steps[j]) => i <= j
    BY <1>6 DEF FirstBad
  <2>2. \A j \in wrong : i <= j
    BY <2>1 DEF Bad
  <2>3. steps[i][2] # "rename" => i \in wrong
    BY <2>1 DEF Bad
  <2>4. \E n \in DOMAIN steps : /\ exit.why = steps[n] /\ \A j \in wrong : n <= j
                                /\ steps[n][2] # "rename" => n \in wrong
    BY <2>1, <2>2, <2>3
  <2>5. Named /\ Paired
    BY <1>6, <2>4
  <2> HIDE DEF Paired, Named
  <2> QED BY <1>6, <2>5
<1> QED BY <1>2, <1>3, <1>4, <1>5, <1>6 DEF CliInv

LEMMA CliVerdicts == CliInv => VerdictExact
<1> SUFFICES ASSUME CliInv, exit.code = 0 PROVE VerdictExact
  BY DEF VerdictExact
<1>1. Succeeded
  BY DEF CliInv, FailedLate
<1>2. Understood(invocation)
  BY CommandUnderstood
<1>3. command.do = "authorize" => (stdout[1][3] = "implicitly denied" <=> stdout[1][2] = {})
  BY <1>1 DEF Succeeded
<1>4. command.do = "symcc" => (Asked = {} => IsAny(command.open))
  BY <1>1 DEF Succeeded, Entitled
<1>5. InMode("run") => AnswersRun(stdout)
  <2> SUFFICES ASSUME InMode("run") PROVE AnswersRun(stdout)
    OBVIOUS
  <2>1. command.do = "symcc"
    BY DEF InMode
  <2>2. PICK rs : /\ stdout = Printed(rs) /\ DOMAIN rs = 1..Cardinality(Asked)
                  /\ \A i \in 1..Cardinality(Asked) : rs[i] = invocation.holds[SetToSeq(Asked)[i]]
    BY <1>1 DEF Succeeded, Printed, AskedSeq
  <2> QED BY <1>2, <2>1, <2>2, WhatIsPrinted
<1>6. ASSUME InMode("print"), NEW e \in Asked
      PROVE  \E i \in DOMAIN stdout : stdout[i] = <<"script", e>>
  <2> DEFINE n == Cardinality(Asked)
  <2>1. Len(stdout) = 2 * n /\ Scripted(stdout, Asked, n)
    BY <1>1, <1>6 DEF Succeeded
  <2>2. IsFiniteSet(Asked)
    BY <1>2, <1>6, AskedFor DEF InMode
  <2>3. PICK i \in 1..n : SetToSeq(Asked)[i] = e
    BY <2>2, EachListed
  <2>4. DOMAIN stdout = 1..2 * n /\ n \in Nat
    BY <2>1 DEF Scripted
  <2>5. stdout[2 * i] = <<"script", e>>
    BY <2>1, <2>3 DEF Scripted
  <2>6. 2 * i \in 1..2 * n
    <3> HIDE DEF n
    <3> QED BY <2>4
  <2> QED BY <2>4, <2>5, <2>6
<1> QED BY <1>3, <1>4, <1>5, <1>6 DEF VerdictExact, InMode, AnswersRun

\* Whatever a command that succeeds says is so, for every schema, every set of
\* options and every answer of the backend.
THEOREM VerdictsAreExact == LeanCliSpec => []VerdictExact
<1>1. AnalysisInit /\ LeanCliInit => CliInv
  BY CliInitial
<1>2. CliInv /\ [LeanCliNext]_<<cliVars, analysisVars>> => CliInv'
  BY CliKept
<1> QED BY <1>1, <1>2, CliVerdicts, PTL DEF LeanCliSpec

\* A command that fails exits with 2 and the error of the first bad input, has
\* printed nothing that could be taken for an answer, and never panics.
THEOREM FailuresAreClean == LeanCliSpec => []CleanFailure
<1>1. AnalysisInit /\ LeanCliInit => CliInv
  BY CliInitial
<1>2. CliInv /\ [LeanCliNext]_<<cliVars, analysisVars>> => CliInv'
  BY CliKept
<1> QED BY <1>1, <1>2, CliClean, PTL DEF LeanCliSpec

-------------------------------------------------------------------------------
(* PolicyAnalysis: what is reported is what is so. The invariant says of every   *)
(* pair that was compared that its findings are exactly those that are so, and   *)
(* of the section at work that a policy with a twin is still to be looked at or  *)
(* has its class; then a report is the facts of each environment, in other words.*)

USE ProgramsAssumption

\* The policies that can be told from p by no request in an environment.
ClassIn(p, e) == {q \in PolicyIds : q = p \/ SameSituations(p, q, e)}
HasTwin(p, e) == \E q \in PolicyIds : SameSituations(p, q, e)
ClassesIn(e) == {ClassIn(p, e) : p \in {x \in PolicyIds : HasTwin(x, e)}}

\* Vacuity is what it is, and every pair that was compared has left exactly the
\* findings that are so.
VacuityRight ==
  /\ DOMAIN policyVacuity \subseteq PolicyIds
  /\ \A p \in DOMAIN policyVacuity : policyVacuity[p] = PolicyVacuous(p)
  /\ compared # {} \/ analysisStage = "pairs" => DOMAIN policyVacuity = PolicyIds
FindingsRight ==
  /\ compared \subseteq AllPairs
  /\ redundant \subseteq EnvPairs /\ permitShadowed \subseteq EnvPairs
  /\ permitOverridden \subseteq EnvPairs /\ forbidShadowed \subseteq EnvPairs
  /\ \A p, q \in PolicyIds, e \in Environments :
       /\ <<p, q, e>> \in redundant <=> {p, q} \in compared /\ SameSituations(p, q, e)
       /\ <<p, q, e>> \in permitShadowed <=> {p, q} \in compared /\ Permits(p) /\ Within(p, q, e)
       /\ <<p, q, e>> \in forbidShadowed <=> {p, q} \in compared /\ ~Permits(p) /\ Within(p, q, e)
       /\ <<p, q, e>> \in permitOverridden <=> {p, q} \in compared /\ NeverGrants(p, q, e)

\* A class that was formed is a class, and those of a section that is done are
\* all there; in the section at work a policy with a twin is still to be looked
\* at, or its class is there.
ClassesRight ==
  /\ section \in 0..Len(EnvSeq)
  /\ section # 0 => compared = AllPairs
  /\ section = 0 => DOMAIN unclassed = {}
  /\ classes \in [Environments -> SUBSET SUBSET PolicyIds]
  /\ \A e \in Environments : classes[e] \subseteq ClassesIn(e)
  /\ \A i \in 1..section : \A p \in PolicyIds :
       HasTwin(p, EnvSeq[i]) =>
         \/ ClassIn(p, EnvSeq[i]) \in classes[EnvSeq[i]]
         \/ i = section /\ p \in DOMAIN unclassed
  /\ DOMAIN unclassed \subseteq PolicyIds
  /\ \A p \in DOMAIN unclassed :
       unclassed[p] = {q \in PolicyIds : SameSituations(p, q, EnvSeq[section])}

StatusRight(r, one, two) ==
  /\ r.is = "Equivalent" <=> one = two
  /\ r.is = "LessPermissive" <=> (one \subseteq two /\ one # two)
  /\ r.is = "MorePermissive" <=> (two \subseteq one /\ one # two)
  /\ r.is \in {"MorePermissive", "Incomparable"} => r.more \in one \ two
  /\ r.is \in {"LessPermissive", "Incomparable"} => r.less \in two \ one
OneAllows(i) == AllowedBy(psets[1], EnvSeq[i])
OtherAllows(i) == AllowedBy(psets[2], EnvSeq[i])

ComparedSoFar ==
  /\ status \in Seq({status[i] : i \in DOMAIN status}) /\ Len(status) <= Len(EnvSeq)
  /\ \A i \in DOMAIN status : StatusRight(status[i], OneAllows(i), OtherAllows(i))
  /\ analysisStage = "idle" => status = <<>> /\ report = NoReport

AnalysisInv ==
  /\ program \in Programs
  /\ VacuityRight /\ FindingsRight /\ ClassesRight /\ ComparedSoFar
  /\ AnalysisExact

LEMMA PolicyFacts ==
  ASSUME program \in Programs, NEW p \in PolicyIds, NEW e \in Environments
  PROVE  Permits(p) \in BOOLEAN /\ Sat(p, e) \subseteq Situations
<1>1. program.effect \in [PolicyIds -> Effects]
      /\ program.sat \in [PolicyIds -> [Environments -> SUBSET Situations]]
  OBVIOUS
<1> QED BY <1>1 DEF Permits, Sat

LEMMA OnePermit ==
  ASSUME program \in Programs, NEW p \in PolicyIds, NEW e \in Environments, Permits(p)
  PROVE  AllowedBy({p}, e) = Sat(p, e)
BY PolicyFacts DEF AllowedBy

\* What the comparison of two policies is, in terms of what they match.
PairResult(A, B) ==
  ByVacuity(Vacuity(A = Situations, A = {}), Vacuity(B = Situations, B = {}),
            A \subseteq B, B \subseteq A)

LEMMA ComparedByVacuity ==
  ASSUME NEW A \in SUBSET Situations, NEW B \in SUBSET Situations
  PROVE  /\ PairResult(A, B) = "Equivalent" <=> A = B /\ A # {}
         /\ PairResult(A, B) = "Policy2Shadows1" <=> A # {} /\ A \subseteq B /\ A # B
         /\ PairResult(A, B) = "Policy1Shadows2" <=> B # {} /\ B \subseteq A /\ A # B
<1> DEFINE v1 == Vacuity(A = Situations, A = {})
           v2 == Vacuity(B = Situations, B = {})
           result == PairResult(A, B)
<1>1. /\ v1 \in {"MatchesAll", "MatchesNone", "MatchesSome"}
      /\ v1 = "MatchesAll" <=> A = Situations
      /\ v1 = "MatchesNone" <=> A = {}
  BY DEF Vacuity
<1>2. /\ v2 \in {"MatchesAll", "MatchesNone", "MatchesSome"}
      /\ v2 = "MatchesAll" <=> B = Situations
      /\ v2 = "MatchesNone" <=> B = {}
  BY DEF Vacuity
<1>3. result = ByVacuity(v1, v2, A \subseteq B, B \subseteq A)
  BY DEF PairResult
<1> SUFFICES /\ result = "Equivalent" <=> A = B /\ A # {}
             /\ result = "Policy2Shadows1" <=> A # {} /\ A \subseteq B /\ A # B
             /\ result = "Policy1Shadows2" <=> B # {} /\ B \subseteq A /\ A # B
  OBVIOUS
<1> HIDE DEF v1, v2, result
<1>4. CASE v1 = "MatchesNone" \/ v2 = "MatchesNone"
  <2>1. result = "NoResult"
    BY <1>3, <1>4 DEF ByVacuity
  <2> QED BY <1>1, <1>2, <1>4, <2>1
<1>5. CASE v1 = "MatchesAll" /\ v2 = "MatchesAll"
  <2>1. result = "Equivalent"
    BY <1>3, <1>5 DEF ByVacuity
  <2> QED BY <1>1, <1>2, <1>5, <2>1
<1>6. CASE v1 = "MatchesAll" /\ v2 = "MatchesSome"
  <2>1. result = "Policy1Shadows2"
    BY <1>3, <1>6 DEF ByVacuity
  <2> QED BY <1>1, <1>2, <1>6, <2>1
<1>7. CASE v1 = "MatchesSome" /\ v2 = "MatchesAll"
  <2>1. result = "Policy2Shadows1"
    BY <1>3, <1>7 DEF ByVacuity
  <2> QED BY <1>1, <1>2, <1>7, <2>1
<1>8. CASE v1 = "MatchesSome" /\ v2 = "MatchesSome"
  <2>1. result = IF A \subseteq B THEN IF B \subseteq A THEN "Equivalent" ELSE "Policy2Shadows1"
                 ELSE IF B \subseteq A THEN "Policy1Shadows2" ELSE "NoResult"
    BY <1>3, <1>8 DEF ByVacuity
  <2>2. A # {} /\ B # {} /\ (A = B <=> A \subseteq B /\ B \subseteq A)
    BY <1>1, <1>2, <1>8
  <2> QED BY <2>1, <2>2
<1> QED BY <1>1, <1>2, <1>4, <1>5, <1>6, <1>7, <1>8

LEMMA PermitPair ==
  ASSUME program \in Programs, NEW p \in PolicyIds, NEW q \in PolicyIds, NEW e \in Environments,
         p # q, Permits(p), Permits(q),
         policyVacuity[p] = PolicyVacuous(p), policyVacuity[q] = PolicyVacuous(q)
  PROVE  /\ PermitShadowing(p, q, e) = "Equivalent" <=> SameSituations(p, q, e)
         /\ PermitShadowing(p, q, e) = "Policy2Shadows1" <=> Within(p, q, e)
         /\ PermitShadowing(p, q, e) = "Policy1Shadows2" <=> Within(q, p, e)
<1>1. PermitShadowing(p, q, e) = PairResult(Sat(p, e), Sat(q, e))
  <2>1. policyVacuity[p][e] = Vacuity(Sat(p, e) = Situations, Sat(p, e) = {})
    BY DEF PolicyVacuous, AlwaysMatches, NeverMatches
  <2>2. policyVacuity[q][e] = Vacuity(Sat(q, e) = Situations, Sat(q, e) = {})
    BY DEF PolicyVacuous, AlwaysMatches, NeverMatches
  <2>3. AllowedBy({p}, e) = Sat(p, e) /\ AllowedBy({q}, e) = Sat(q, e)
    BY OnePermit
  <2> QED BY <2>1, <2>2, <2>3 DEF PermitShadowing, Implies, PairResult
<1>2. Sat(p, e) \in SUBSET Situations /\ Sat(q, e) \in SUBSET Situations
  BY PolicyFacts
<1>3. Permits(p) = Permits(q)
  BY PolicyFacts
<1> QED BY <1>1, <1>2, <1>3, ComparedByVacuity DEF SameSituations, Within

LEMMA ForbidPair ==
  ASSUME program \in Programs, NEW p \in PolicyIds, NEW q \in PolicyIds, NEW e \in Environments,
         p # q, ~Permits(p), ~Permits(q),
         policyVacuity[p] = PolicyVacuous(p), policyVacuity[q] = PolicyVacuous(q)
  PROVE  /\ ForbidShadowing(p, q, e) = "Equivalent" <=> SameSituations(p, q, e)
         /\ ForbidShadowing(p, q, e) = "Policy2Shadows1" <=> Within(p, q, e)
         /\ ForbidShadowing(p, q, e) = "Policy1Shadows2" <=> Within(q, p, e)
<1>1. ForbidShadowing(p, q, e) = PairResult(Sat(p, e), Sat(q, e))
  BY DEF ForbidShadowing, PolicyVacuous, AlwaysMatches, NeverMatches, MatchesImplies, PairResult
<1>2. Sat(p, e) \in SUBSET Situations /\ Sat(q, e) \in SUBSET Situations
  BY PolicyFacts
<1>3. Permits(p) = Permits(q)
  BY PolicyFacts
<1> QED BY <1>1, <1>2, <1>3, ComparedByVacuity DEF SameSituations, Within

LEMMA MixedPair ==
  ASSUME program \in Programs, NEW p \in PolicyIds, NEW q \in PolicyIds, NEW e \in Environments,
         Permits(p), ~Permits(q),
         policyVacuity[p] = PolicyVacuous(p), policyVacuity[q] = PolicyVacuous(q)
  PROVE  Overrides(q, p, e) <=> NeverGrants(p, q, e)
<1>1. Sat(p, e) \subseteq Situations /\ Sat(q, e) \subseteq Situations
  BY PolicyFacts
<1>2. /\ policyVacuity[p][e] = Vacuity(Sat(p, e) = Situations, Sat(p, e) = {})
      /\ policyVacuity[q][e] = Vacuity(Sat(q, e) = Situations, Sat(q, e) = {})
  BY DEF PolicyVacuous, AlwaysMatches, NeverMatches
<1> QED BY <1>1, <1>2 DEF Overrides, NeverGrants, MatchesImplies, Vacuity

-------------------------------------------------------------------------------
LEMMA AnalysisInitial == AnalysisInit => AnalysisInv
<1> SUFFICES ASSUME AnalysisInit PROVE AnalysisInv
  OBVIOUS
<1>1. VacuityRight /\ FindingsRight
  BY DEF AnalysisInit, VacuityRight, FindingsRight
<1>2. ClassesRight
  BY DEF AnalysisInit, ClassesRight
<1>3. ComparedSoFar /\ AnalysisExact
  <2>1. status = <<>> /\ report = NoReport /\ report.format = "none"
    BY DEF AnalysisInit, NoReport
  <2> QED BY <2>1 DEF ComparedSoFar, AnalysisExact, ReportExact, ComparisonExact
<1> QED BY <1>1, <1>2, <1>3 DEF AnalysisInit, AnalysisInv

LEMMA PairsDiffer ==
  ASSUME NEW p \in PolicyIds, NEW q \in PolicyIds, p # q
  PROVE  {p, q} \in AllPairs
<1> DEFINE both == {p} \cup {q}
<1>1. IsFiniteSet({p}) /\ Cardinality({p}) = 1 /\ q \notin {p}
  BY FS_Singleton
<1>2. Cardinality(both) = IF q \in {p} THEN Cardinality({p}) ELSE Cardinality({p}) + 1
  BY <1>1, FS_AddElement, Zenon
<1>3. both = {p, q}
  OBVIOUS
<1> HIDE DEF both
<1>4. Cardinality(both) = 2
  BY <1>1, <1>2
<1> QED BY <1>3, <1>4 DEF AllPairs

\* What a comparison of two policies adds.
LEMMA PairCompared ==
  ASSUME AnalysisInv, NEW p \in PolicyIds, NEW q \in PolicyIds, ComparePair(p, q)
  PROVE  FindingsRight'
<1>1. /\ program \in Programs /\ UNCHANGED program /\ p # q
      /\ policyVacuity[p] = PolicyVacuous(p) /\ policyVacuity[q] = PolicyVacuous(q)
      /\ compared' = compared \cup {{p, q}}
  BY DEF AnalysisInv, VacuityRight, ComparePair
<1>2. \A x, y \in PolicyIds : {x, y} \in compared' <=>
         {x, y} \in compared \/ (x = p /\ y = q) \/ (x = q /\ y = p)
  BY <1>1
<1>3. compared' \subseteq AllPairs
  BY <1>1, PairsDiffer DEF AnalysisInv, FindingsRight
<1>4. \A x, y \in PolicyIds, e \in Environments :
        /\ Permits(x)' = Permits(x)
        /\ SameSituations(x, y, e)' = SameSituations(x, y, e)
        /\ Within(x, y, e)' = Within(x, y, e) /\ NeverGrants(x, y, e)' = NeverGrants(x, y, e)
  BY <1>1 DEF Permits, Sat, SameSituations, Within, NeverGrants
<1>5. \A x \in PolicyIds : Permits(x) \in BOOLEAN
  BY <1>1 DEF Permits
<1>6. \A x, y \in PolicyIds, e \in Environments :
        /\ SameSituations(x, y, e) <=> SameSituations(y, x, e)
        /\ SameSituations(x, y, e) => Permits(x) = Permits(y)
        /\ Within(x, y, e) => Permits(x) = Permits(y)
        /\ NeverGrants(x, y, e) => Permits(x) /\ ~Permits(y)
  BY DEF SameSituations, Within, NeverGrants
<1>7. FindingsRight
  BY DEF AnalysisInv
<1>8. CASE Permits(p) /\ Permits(q) /\ ComparePermits(p, q)
  <2> DEFINE twins == {e \in Environments : PermitShadowing(p, q, e) = "Equivalent"}
             below == {e \in Environments : PermitShadowing(p, q, e) = "Policy2Shadows1"}
             above == {e \in Environments : PermitShadowing(p, q, e) = "Policy1Shadows2"}
  <2>1. \A e \in Environments : /\ e \in twins <=> SameSituations(p, q, e)
                                /\ e \in below <=> Within(p, q, e)
                                /\ e \in above <=> Within(q, p, e)
    BY <1>1, <1>8, PermitPair
  <2>2. /\ redundant' = (redundant \cup {<<p, q, e>> : e \in twins}) \cup {<<q, p, e>> : e \in twins}
        /\ permitShadowed' = (permitShadowed \cup {<<p, q, e>> : e \in below}) \cup {<<q, p, e>> : e \in above}
        /\ UNCHANGED <<permitOverridden, forbidShadowed>>
    BY <1>8 DEF ComparePermits, BothWays, Shadowings, Update
  <2>3. twins \subseteq Environments /\ below \subseteq Environments /\ above \subseteq Environments
    OBVIOUS
  <2> HIDE DEF twins, below, above
  <2>4. redundant' \subseteq EnvPairs /\ permitShadowed' \subseteq EnvPairs
        /\ permitOverridden' \subseteq EnvPairs /\ forbidShadowed' \subseteq EnvPairs
    BY <1>7, <2>2, <2>3 DEF FindingsRight, EnvPairs
  <2>5. ASSUME NEW x \in PolicyIds, NEW y \in PolicyIds, NEW e \in Environments
        PROVE <<x, y, e>> \in redundant' <=>
                   \/ <<x, y, e>> \in redundant
                   \/ ((x = p /\ y = q) \/ (x = q /\ y = p)) /\ SameSituations(p, q, e)
    <3>1. <<x, y, e>> \in {<<p, q, z>> : z \in twins} <=> x = p /\ y = q /\ e \in twins
      OBVIOUS
    <3>2. <<x, y, e>> \in {<<q, p, z>> : z \in twins} <=> x = q /\ y = p /\ e \in twins
      OBVIOUS
    <3>3. e \in twins <=> SameSituations(p, q, e)
      BY <2>1
    <3> QED BY <2>2, <3>1, <3>2, <3>3
  <2>6. ASSUME NEW x \in PolicyIds, NEW y \in PolicyIds, NEW e \in Environments
        PROVE <<x, y, e>> \in permitShadowed' <=>
                   \/ <<x, y, e>> \in permitShadowed
                   \/ x = p /\ y = q /\ Within(p, q, e)
                   \/ x = q /\ y = p /\ Within(q, p, e)
    <3>1. <<x, y, e>> \in {<<p, q, z>> : z \in below} <=> x = p /\ y = q /\ e \in below
      OBVIOUS
    <3>2. <<x, y, e>> \in {<<q, p, z>> : z \in above} <=> x = q /\ y = p /\ e \in above
      OBVIOUS
    <3>3. (e \in below <=> Within(p, q, e)) /\ (e \in above <=> Within(q, p, e))
      BY <2>1
    <3> QED BY <2>2, <3>1, <3>2, <3>3
  <2>7. ASSUME NEW x \in PolicyIds, NEW y \in PolicyIds, NEW e \in Environments
        PROVE  /\ <<x, y, e>> \in redundant' <=> {x, y} \in compared' /\ SameSituations(x, y, e)'
               /\ <<x, y, e>> \in permitOverridden' <=> {x, y} \in compared' /\ NeverGrants(x, y, e)'
    <3>1. {x, y} \in compared' <=> {x, y} \in compared \/ (x = p /\ y = q) \/ (x = q /\ y = p)
      BY <1>2
    <3>2. /\ SameSituations(x, y, e)' = SameSituations(x, y, e)
          /\ NeverGrants(x, y, e)' = NeverGrants(x, y, e)
      BY <1>4
    <3>3. /\ <<x, y, e>> \in redundant <=> {x, y} \in compared /\ SameSituations(x, y, e)
          /\ <<x, y, e>> \in permitOverridden <=> {x, y} \in compared /\ NeverGrants(x, y, e)
      BY <1>7 DEF FindingsRight
    <3>4. /\ SameSituations(x, y, e) <=> SameSituations(y, x, e)
          /\ NeverGrants(x, y, e) => Permits(x) /\ ~Permits(y)
      BY <1>6
    <3>5. permitOverridden' = permitOverridden
      BY <2>2
    <3>6. x \in {p, q} /\ y \in {p, q} => ~NeverGrants(x, y, e)
      BY <1>8, <3>4
    <3>7. <<x, y, e>> \in redundant' <=> {x, y} \in compared' /\ SameSituations(x, y, e)'
      <4>1. ((x = p /\ y = q) \/ (x = q /\ y = p)) =>
              (SameSituations(p, q, e) <=> SameSituations(x, y, e))
        BY <3>4
      <4>2. <<x, y, e>> \in redundant' <=>
              (<<x, y, e>> \in redundant)
                \/ (((x = p /\ y = q) \/ (x = q /\ y = p)) /\ SameSituations(p, q, e))
        BY <2>5
      <4> QED BY <3>1, <3>2, <3>3, <4>1, <4>2
    <3>8. <<x, y, e>> \in permitOverridden' <=> {x, y} \in compared' /\ NeverGrants(x, y, e)'
      BY <3>1, <3>2, <3>3, <3>5, <3>6
    <3> QED BY <3>7, <3>8
  <2>8. ASSUME NEW x \in PolicyIds, NEW y \in PolicyIds, NEW e \in Environments
        PROVE  /\ <<x, y, e>> \in permitShadowed' <=>
                    {x, y} \in compared' /\ Permits(x)' /\ Within(x, y, e)'
               /\ <<x, y, e>> \in forbidShadowed' <=>
                    {x, y} \in compared' /\ ~Permits(x)' /\ Within(x, y, e)'
    <3>1. {x, y} \in compared' <=> {x, y} \in compared \/ (x = p /\ y = q) \/ (x = q /\ y = p)
      BY <1>2
    <3>2. Permits(x)' = Permits(x) /\ Within(x, y, e)' = Within(x, y, e)
      BY <1>4
    <3>3. /\ <<x, y, e>> \in permitShadowed <=> {x, y} \in compared /\ Permits(x) /\ Within(x, y, e)
          /\ <<x, y, e>> \in forbidShadowed <=> {x, y} \in compared /\ ~Permits(x) /\ Within(x, y, e)
      BY <1>7 DEF FindingsRight
    <3>4. forbidShadowed' = forbidShadowed
      BY <2>2
    <3> QED BY <1>8, <2>6, <3>1, <3>2, <3>3, <3>4
  <2> QED BY <1>3, <2>4, <2>7, <2>8 DEF FindingsRight
<1>9. CASE ~Permits(p) /\ ~Permits(q) /\ CompareForbids(p, q)
  <2> DEFINE twins == {e \in Environments : ForbidShadowing(p, q, e) = "Equivalent"}
             below == {e \in Environments : ForbidShadowing(p, q, e) = "Policy2Shadows1"}
             above == {e \in Environments : ForbidShadowing(p, q, e) = "Policy1Shadows2"}
  <2>1. \A e \in Environments : /\ e \in twins <=> SameSituations(p, q, e)
                                /\ e \in below <=> Within(p, q, e)
                                /\ e \in above <=> Within(q, p, e)
    BY <1>1, <1>9, ForbidPair
  <2>2. /\ redundant' = (redundant \cup {<<p, q, e>> : e \in twins}) \cup {<<q, p, e>> : e \in twins}
        /\ forbidShadowed' = (forbidShadowed \cup {<<p, q, e>> : e \in below}) \cup {<<q, p, e>> : e \in above}
        /\ UNCHANGED <<permitShadowed, permitOverridden>>
    BY <1>9 DEF CompareForbids, BothWays, Shadowings, Update
  <2>3. twins \subseteq Environments /\ below \subseteq Environments /\ above \subseteq Environments
    OBVIOUS
  <2> HIDE DEF twins, below, above
  <2>4. redundant' \subseteq EnvPairs /\ permitShadowed' \subseteq EnvPairs
        /\ permitOverridden' \subseteq EnvPairs /\ forbidShadowed' \subseteq EnvPairs
    BY <1>7, <2>2, <2>3 DEF FindingsRight, EnvPairs
  <2>5. ASSUME NEW x \in PolicyIds, NEW y \in PolicyIds, NEW e \in Environments
        PROVE <<x, y, e>> \in redundant' <=>
                   \/ <<x, y, e>> \in redundant
                   \/ ((x = p /\ y = q) \/ (x = q /\ y = p)) /\ SameSituations(p, q, e)
    <3>1. <<x, y, e>> \in {<<p, q, z>> : z \in twins} <=> x = p /\ y = q /\ e \in twins
      OBVIOUS
    <3>2. <<x, y, e>> \in {<<q, p, z>> : z \in twins} <=> x = q /\ y = p /\ e \in twins
      OBVIOUS
    <3>3. e \in twins <=> SameSituations(p, q, e)
      BY <2>1
    <3> QED BY <2>2, <3>1, <3>2, <3>3
  <2>6. ASSUME NEW x \in PolicyIds, NEW y \in PolicyIds, NEW e \in Environments
        PROVE <<x, y, e>> \in forbidShadowed' <=>
                   \/ <<x, y, e>> \in forbidShadowed
                   \/ x = p /\ y = q /\ Within(p, q, e)
                   \/ x = q /\ y = p /\ Within(q, p, e)
    <3>1. <<x, y, e>> \in {<<p, q, z>> : z \in below} <=> x = p /\ y = q /\ e \in below
      OBVIOUS
    <3>2. <<x, y, e>> \in {<<q, p, z>> : z \in above} <=> x = q /\ y = p /\ e \in above
      OBVIOUS
    <3>3. (e \in below <=> Within(p, q, e)) /\ (e \in above <=> Within(q, p, e))
      BY <2>1
    <3> QED BY <2>2, <3>1, <3>2, <3>3
  <2>7. ASSUME NEW x \in PolicyIds, NEW y \in PolicyIds, NEW e \in Environments
        PROVE  /\ <<x, y, e>> \in redundant' <=> {x, y} \in compared' /\ SameSituations(x, y, e)'
               /\ <<x, y, e>> \in permitOverridden' <=> {x, y} \in compared' /\ NeverGrants(x, y, e)'
    <3>1. {x, y} \in compared' <=> {x, y} \in compared \/ (x = p /\ y = q) \/ (x = q /\ y = p)
      BY <1>2
    <3>2. /\ SameSituations(x, y, e)' = SameSituations(x, y, e)
          /\ NeverGrants(x, y, e)' = NeverGrants(x, y, e)
      BY <1>4
    <3>3. /\ <<x, y, e>> \in redundant <=> {x, y} \in compared /\ SameSituations(x, y, e)
          /\ <<x, y, e>> \in permitOverridden <=> {x, y} \in compared /\ NeverGrants(x, y, e)
      BY <1>7 DEF FindingsRight
    <3>4. /\ SameSituations(x, y, e) <=> SameSituations(y, x, e)
          /\ NeverGrants(x, y, e) => Permits(x) /\ ~Permits(y)
      BY <1>6
    <3>5. permitOverridden' = permitOverridden
      BY <2>2
    <3>6. x \in {p, q} /\ y \in {p, q} => ~NeverGrants(x, y, e)
      BY <1>9, <3>4
    <3>7. <<x, y, e>> \in redundant' <=> {x, y} \in compared' /\ SameSituations(x, y, e)'
      <4>1. ((x = p /\ y = q) \/ (x = q /\ y = p)) =>
              (SameSituations(p, q, e) <=> SameSituations(x, y, e))
        BY <3>4
      <4>2. <<x, y, e>> \in redundant' <=>
              (<<x, y, e>> \in redundant)
                \/ (((x = p /\ y = q) \/ (x = q /\ y = p)) /\ SameSituations(p, q, e))
        BY <2>5
      <4> QED BY <3>1, <3>2, <3>3, <4>1, <4>2
    <3>8. <<x, y, e>> \in permitOverridden' <=> {x, y} \in compared' /\ NeverGrants(x, y, e)'
      BY <3>1, <3>2, <3>3, <3>5, <3>6
    <3> QED BY <3>7, <3>8
  <2>8. ASSUME NEW x \in PolicyIds, NEW y \in PolicyIds, NEW e \in Environments
        PROVE  /\ <<x, y, e>> \in permitShadowed' <=>
                    {x, y} \in compared' /\ Permits(x)' /\ Within(x, y, e)'
               /\ <<x, y, e>> \in forbidShadowed' <=>
                    {x, y} \in compared' /\ ~Permits(x)' /\ Within(x, y, e)'
    <3>1. {x, y} \in compared' <=> {x, y} \in compared \/ (x = p /\ y = q) \/ (x = q /\ y = p)
      BY <1>2
    <3>2. Permits(x)' = Permits(x) /\ Within(x, y, e)' = Within(x, y, e)
      BY <1>4
    <3>3. /\ <<x, y, e>> \in permitShadowed <=> {x, y} \in compared /\ Permits(x) /\ Within(x, y, e)
          /\ <<x, y, e>> \in forbidShadowed <=> {x, y} \in compared /\ ~Permits(x) /\ Within(x, y, e)
      BY <1>7 DEF FindingsRight
    <3>4. permitShadowed' = permitShadowed
      BY <2>2
    <3> QED BY <1>9, <2>6, <3>1, <3>2, <3>3, <3>4
  <2> QED BY <1>3, <2>4, <2>7, <2>8 DEF FindingsRight
<1>10. ASSUME NEW permit \in PolicyIds, NEW forbid \in PolicyIds, {permit, forbid} = {p, q},
              Permits(permit), ~Permits(forbid), ComparePermitForbid(permit, forbid)
       PROVE  FindingsRight'
  <2>0. \A x, y \in PolicyIds : {x, y} \in compared' <=>
          {x, y} \in compared \/ (x = permit /\ y = forbid) \/ (x = forbid /\ y = permit)
    BY <1>1, <1>10
  <2>1. \A e \in Environments : Overrides(forbid, permit, e) <=> NeverGrants(permit, forbid, e)
    <3>1. /\ permit \in {p, q} /\ forbid \in {p, q}
          /\ policyVacuity[permit] = PolicyVacuous(permit)
          /\ policyVacuity[forbid] = PolicyVacuous(forbid)
      BY <1>1, <1>10
    <3> QED BY <1>1, <1>10, <3>1, MixedPair
  <2>2. /\ permitOverridden' = permitOverridden
             \cup {<<permit, forbid, e>> : e \in {x \in Environments : Overrides(forbid, permit, x)}}
        /\ UNCHANGED <<redundant, permitShadowed, forbidShadowed>>
    BY <1>10 DEF ComparePermitForbid, Update
  <2>3. redundant' \subseteq EnvPairs /\ permitShadowed' \subseteq EnvPairs
        /\ permitOverridden' \subseteq EnvPairs /\ forbidShadowed' \subseteq EnvPairs
    BY <1>7, <2>2 DEF FindingsRight, EnvPairs
  <2>4. ASSUME NEW x \in PolicyIds, NEW y \in PolicyIds, NEW e \in Environments
        PROVE <<x, y, e>> \in permitOverridden' <=>
                \/ <<x, y, e>> \in permitOverridden
                \/ x = permit /\ y = forbid /\ NeverGrants(permit, forbid, e)
    BY <2>1, <2>2
  <2>5. ASSUME NEW x \in PolicyIds, NEW y \in PolicyIds, NEW e \in Environments
        PROVE  /\ <<x, y, e>> \in redundant' <=> {x, y} \in compared' /\ SameSituations(x, y, e)'
               /\ <<x, y, e>> \in permitShadowed' <=>
                    {x, y} \in compared' /\ Permits(x)' /\ Within(x, y, e)'
               /\ <<x, y, e>> \in forbidShadowed' <=>
                    {x, y} \in compared' /\ ~Permits(x)' /\ Within(x, y, e)'
               /\ <<x, y, e>> \in permitOverridden' <=> {x, y} \in compared' /\ NeverGrants(x, y, e)'
    <3>1. {x, y} \in compared' <=>
            {x, y} \in compared \/ (x = permit /\ y = forbid) \/ (x = forbid /\ y = permit)
      BY <2>0
    <3>2. /\ Permits(x)' = Permits(x) /\ SameSituations(x, y, e)' = SameSituations(x, y, e)
          /\ Within(x, y, e)' = Within(x, y, e) /\ NeverGrants(x, y, e)' = NeverGrants(x, y, e)
      BY <1>4
    <3>3. /\ <<x, y, e>> \in redundant <=> {x, y} \in compared /\ SameSituations(x, y, e)
          /\ <<x, y, e>> \in permitShadowed <=> {x, y} \in compared /\ Permits(x) /\ Within(x, y, e)
          /\ <<x, y, e>> \in forbidShadowed <=> {x, y} \in compared /\ ~Permits(x) /\ Within(x, y, e)
          /\ <<x, y, e>> \in permitOverridden <=> {x, y} \in compared /\ NeverGrants(x, y, e)
      BY <1>7 DEF FindingsRight
    <3>4. (x = permit /\ y = forbid) \/ (x = forbid /\ y = permit) =>
            ~SameSituations(x, y, e) /\ ~Within(x, y, e)
      BY <1>10 DEF SameSituations, Within
    <3>5. x = forbid /\ y = permit => ~NeverGrants(x, y, e)
      BY <1>10 DEF NeverGrants
    <3>6. UNCHANGED <<redundant, permitShadowed, forbidShadowed>>
      BY <2>2
    <3>7. /\ <<x, y, e>> \in redundant' <=> {x, y} \in compared' /\ SameSituations(x, y, e)'
          /\ <<x, y, e>> \in permitShadowed' <=>
               {x, y} \in compared' /\ Permits(x)' /\ Within(x, y, e)'
          /\ <<x, y, e>> \in forbidShadowed' <=>
               {x, y} \in compared' /\ ~Permits(x)' /\ Within(x, y, e)'
      BY <3>1, <3>2, <3>3, <3>4, <3>6
    <3>8. <<x, y, e>> \in permitOverridden' <=> {x, y} \in compared' /\ NeverGrants(x, y, e)'
      BY <2>4, <3>1, <3>2, <3>3, <3>5
    <3> QED BY <3>7, <3>8
  <2> QED BY <1>3, <2>3, <2>5 DEF FindingsRight
<1> QED BY <1>8, <1>9, <1>10 DEF ComparePair

-------------------------------------------------------------------------------
\* When every pair was compared the findings are all there.
LEMMA AllFound ==
  ASSUME FindingsRight, compared = AllPairs,
         NEW p \in PolicyIds, NEW q \in PolicyIds, NEW e \in Environments
  PROVE  /\ <<p, q, e>> \in redundant <=> SameSituations(p, q, e)
         /\ <<p, q, e>> \in permitShadowed <=> Permits(p) /\ Within(p, q, e)
         /\ <<p, q, e>> \in forbidShadowed <=> ~Permits(p) /\ Within(p, q, e)
         /\ <<p, q, e>> \in permitOverridden <=> NeverGrants(p, q, e)
<1>1. SameSituations(p, q, e) => p # q
  BY DEF SameSituations
<1>2. Within(p, q, e) => p # q
  BY DEF Within
<1>3. NeverGrants(p, q, e) => p # q
  BY DEF NeverGrants
<1>4. p # q => {p, q} \in compared
  BY PairsDiffer
<1> QED BY <1>1, <1>2, <1>3, <1>4 DEF FindingsRight

\* Policies that no request tells apart are one class; a class of two or more is
\* one of policies with a twin.
LEMMA ClassesAgree ==
  ASSUME NEW p \in PolicyIds, NEW e \in Environments, NEW q \in ClassIn(p, e)
  PROVE  ClassIn(q, e) = ClassIn(p, e)
BY DEF ClassIn, SameSituations

LEMMA ClassSize ==
  ASSUME NEW p \in PolicyIds, NEW e \in Environments
  PROVE  Cardinality(ClassIn(p, e)) >= 2 <=> HasTwin(p, e)
<1>1. p \in ClassIn(p, e) /\ ClassIn(p, e) \in SUBSET PolicyIds
  BY DEF ClassIn
<1>2. IsFiniteSet(ClassIn(p, e)) /\ Cardinality(ClassIn(p, e)) \in Nat
  <2>1. IsFiniteSet(ClassIn(p, e))
    BY <1>1, FS_Subset
  <2> QED BY <2>1, FS_CardinalityType
<1>3. CASE HasTwin(p, e)
  <2>1. PICK q \in PolicyIds : SameSituations(p, q, e)
    BY <1>3 DEF HasTwin
  <2>2. {p, q} \in SUBSET ClassIn(p, e) /\ p # q
    BY <2>1 DEF ClassIn, SameSituations
  <2>3. Cardinality({p, q}) = 2
    BY <2>1, <2>2, PairsDiffer DEF AllPairs
  <2>4. Cardinality({p, q}) <= Cardinality(ClassIn(p, e))
    BY <1>2, <2>2, FS_Subset
  <2> QED BY <1>2, <1>3, <2>3, <2>4
<1>4. CASE ~HasTwin(p, e)
  <2>1. ClassIn(p, e) = {p}
    BY <1>1, <1>4 DEF ClassIn, HasTwin
  <2>2. Cardinality({p}) = 1
    BY FS_Singleton
  <2> QED BY <1>4, <2>1, <2>2
<1> QED BY <1>3, <1>4

LEMMA SectionOpened == AnalysisInv /\ OpenSection => ClassesRight'
<1> SUFFICES ASSUME AnalysisInv, OpenSection PROVE ClassesRight'
  OBVIOUS
<1> DEFINE e == EnvSeq[section']
<1>1. /\ compared = AllPairs /\ DOMAIN unclassed = {} /\ section' = section + 1
      /\ section \in Nat /\ section' \in 1..Len(EnvSeq) /\ section' \in 0..Len(EnvSeq)
  <2>1. section \in 0..Len(EnvSeq) /\ Len(EnvSeq) \in Nat
    BY DEF AnalysisInv, ClassesRight
  <2>2. unclassed = <<>> /\ DOMAIN <<>> = {}
    BY DEF OpenSection
  <2> QED BY <2>1, <2>2 DEF OpenSection
<1>2. e \in Environments
  BY <1>1 DEF Environments
<1>3. unclassed' = [p \in {t[1] : t \in redundant} |-> {q \in PolicyIds : <<p, q, e>> \in redundant}]
      /\ UNCHANGED <<program, compared, classes>>
  BY DEF OpenSection, findingVars
<1>4. FindingsRight /\ redundant \subseteq EnvPairs
  BY DEF AnalysisInv, FindingsRight
<1>5. \A p, q \in PolicyIds, x \in Environments :
        SameSituations(p, q, x)' = SameSituations(p, q, x)
  BY <1>3 DEF SameSituations, Permits, Sat
<1>6. \A x \in Environments : ClassesIn(x)' = ClassesIn(x)
        /\ \A p \in PolicyIds : HasTwin(p, x)' = HasTwin(p, x) /\ ClassIn(p, x)' = ClassIn(p, x)
  BY <1>3 DEF ClassesIn, ClassIn, HasTwin, SameSituations, Permits, Sat
<1> HIDE DEF e
<1>7. DOMAIN unclassed' = {t[1] : t \in redundant} /\ DOMAIN unclassed' \subseteq PolicyIds
  BY <1>3, <1>4 DEF EnvPairs
<1>8. \A p \in DOMAIN unclassed' :
        unclassed'[p] = {q \in PolicyIds : SameSituations(p, q, e)}
  <2> SUFFICES ASSUME NEW p \in DOMAIN unclassed'
               PROVE  unclassed'[p] = {q \in PolicyIds : SameSituations(p, q, e)}
    OBVIOUS
  <2>1. p \in PolicyIds /\ unclassed'[p] = {q \in PolicyIds : <<p, q, e>> \in redundant}
    BY <1>3, <1>7
  <2>2. \A q \in PolicyIds : <<p, q, e>> \in redundant <=> SameSituations(p, q, e)
    BY <1>1, <1>2, <1>4, <2>1, AllFound
  <2> QED BY <2>1, <2>2
<1>9. \A p \in PolicyIds : HasTwin(p, e) => p \in DOMAIN unclassed'
  <2> SUFFICES ASSUME NEW p \in PolicyIds, HasTwin(p, e) PROVE p \in DOMAIN unclassed'
    OBVIOUS
  <2>1. PICK q \in PolicyIds : SameSituations(p, q, e)
    BY DEF HasTwin
  <2>2. <<p, q, e>> \in redundant
    BY <1>1, <1>2, <1>4, <2>1, AllFound
  <2>3. <<p, q, e>>[1] \in {t[1] : t \in redundant}
    BY <2>2
  <2> QED BY <1>7, <2>3
<1>10. ASSUME NEW i \in 1..section', NEW p \in PolicyIds, HasTwin(p, EnvSeq[i])'
       PROVE  \/ ClassIn(p, EnvSeq[i])' \in classes'[EnvSeq[i]]
              \/ i = section' /\ p \in DOMAIN unclassed'
  <2>1. EnvSeq[i] \in Environments /\ HasTwin(p, EnvSeq[i])
    <3>1. i \in 1..Len(EnvSeq)
      BY <1>1
    <3>2. EnvSeq[i] \in Environments
      BY <3>1 DEF Environments
    <3> QED BY <1>6, <1>10, <3>2
  <2>2. CASE i = section'
    BY <1>9, <2>1, <2>2 DEF e
  <2>3. CASE i # section'
    <3>1. i \in 1..section
      BY <1>1, <2>3
    <3>2. ClassIn(p, EnvSeq[i]) \in classes[EnvSeq[i]]
      BY <1>1, <2>1, <3>1 DEF AnalysisInv, ClassesRight
    <3> QED BY <1>3, <1>6, <2>1, <3>2
  <2> QED BY <2>2, <2>3
<1>11. /\ classes' \in [Environments -> SUBSET SUBSET PolicyIds]
       /\ \A x \in Environments : classes'[x] \subseteq ClassesIn(x)'
  BY <1>3, <1>6 DEF AnalysisInv, ClassesRight
<1>12. section' # 0 /\ compared' = AllPairs
  BY <1>1, <1>3
<1>13. \A i \in 1..section' : \A p \in PolicyIds :
         HasTwin(p, EnvSeq[i])' =>
           \/ ClassIn(p, EnvSeq[i])' \in classes'[EnvSeq[i]]
           \/ i = section' /\ p \in DOMAIN unclassed'
  BY <1>10
<1>14. \A p \in DOMAIN unclassed' :
         unclassed'[p] = {q \in PolicyIds : SameSituations(p, q, EnvSeq[section])}'
  BY <1>3, <1>8 DEF e, SameSituations, Permits, Sat
<1> QED BY <1>1, <1>7, <1>11, <1>12, <1>13, <1>14 DEF ClassesRight

LEMMA ClassTaken ==
  ASSUME AnalysisInv, NEW p \in DOMAIN unclassed, TakeClass(p)
  PROVE  ClassesRight'
<1> DEFINE e == EnvSeq[section]
           class == ClassIn(p, e)
<1>1. section \in 1..Len(EnvSeq) /\ compared = AllPairs /\ p \in PolicyIds /\ Len(EnvSeq) \in Nat
  BY DEF AnalysisInv, ClassesRight
<1>2. e \in Environments
  BY <1>1 DEF Environments
<1>3. unclassed[p] \cup {p} = class
  BY <1>1 DEF AnalysisInv, ClassesRight, ClassIn
<1>4. /\ unclassed' = [q \in DOMAIN unclassed \ class |-> unclassed[q]]
      /\ classes' = IF Cardinality(class) >= 2
                    THEN [classes EXCEPT ![e] = @ \cup {class}] ELSE classes
      /\ UNCHANGED <<program, compared, section>>
  BY <1>3 DEF TakeClass, findingVars
<1>5. class \subseteq PolicyIds /\ p \in class /\ (Cardinality(class) >= 2 <=> HasTwin(p, e))
  BY <1>1, <1>2, ClassSize DEF ClassIn
<1>6. HasTwin(p, e) => class \in ClassesIn(e)
  BY <1>1 DEF ClassesIn
<1>7. \A q \in class : HasTwin(q, e) => HasTwin(p, e) /\ ClassIn(q, e) = class
  <2> SUFFICES ASSUME NEW q \in class, HasTwin(q, e) PROVE HasTwin(p, e) /\ ClassIn(q, e) = class
    OBVIOUS
  <2>1. ClassIn(q, e) = class
    BY <1>1, <1>2, ClassesAgree
  <2>2. HasTwin(p, e)
    <3>1. CASE q = p
      BY <3>1
    <3>2. CASE q # p
      BY <1>5, <3>2 DEF ClassIn, HasTwin
    <3> QED BY <3>1, <3>2
  <2> QED BY <2>1, <2>2
<1>8. \A x \in Environments : ClassesIn(x)' = ClassesIn(x)
        /\ \A q \in PolicyIds : HasTwin(q, x)' = HasTwin(q, x) /\ ClassIn(q, x)' = ClassIn(q, x)
  BY <1>4 DEF ClassesIn, ClassIn, HasTwin, SameSituations, Permits, Sat
<1>9. /\ classes \in [Environments -> SUBSET SUBSET PolicyIds]
      /\ \A x \in Environments : classes[x] \subseteq ClassesIn(x)
  BY DEF AnalysisInv, ClassesRight
<1> HIDE DEF e, class
<1>10. /\ classes' \in [Environments -> SUBSET SUBSET PolicyIds]
       /\ \A x \in Environments :
            /\ classes[x] \subseteq classes'[x]
            /\ classes'[x] \subseteq ClassesIn(x)
       /\ HasTwin(p, e) => class \in classes'[e]
  <2>1. CASE HasTwin(p, e)
    <3>1. classes' = [classes EXCEPT ![e] = @ \cup {class}]
      BY <1>4, <1>5, <2>1
    <3>2. classes[e] \cup {class} \in SUBSET SUBSET PolicyIds /\ classes[e] \cup {class} \subseteq ClassesIn(e)
      BY <1>2, <1>5, <1>6, <1>9, <2>1
    <3> QED BY <1>2, <1>9, <3>1, <3>2
  <2>2. CASE ~HasTwin(p, e)
    BY <1>4, <1>5, <1>9, <2>2
  <2> QED BY <2>1, <2>2
<1>11. /\ DOMAIN unclassed' = DOMAIN unclassed \ class
       /\ \A q \in DOMAIN unclassed' : unclassed'[q] = unclassed[q]
  BY <1>4
<1>12. ASSUME NEW i \in 1..section, NEW q \in PolicyIds, HasTwin(q, EnvSeq[i])
       PROVE  \/ ClassIn(q, EnvSeq[i]) \in classes'[EnvSeq[i]]
              \/ i = section /\ q \in DOMAIN unclassed'
  <2>1. EnvSeq[i] \in Environments
    BY <1>1 DEF Environments
  <2>2. \/ ClassIn(q, EnvSeq[i]) \in classes[EnvSeq[i]]
        \/ i = section /\ q \in DOMAIN unclassed
    BY <1>12 DEF AnalysisInv, ClassesRight
  <2>3. CASE ClassIn(q, EnvSeq[i]) \in classes[EnvSeq[i]]
    BY <1>10, <2>1, <2>3
  <2>4. CASE i = section /\ q \in DOMAIN unclassed
    <3>1. CASE q \in class
      <4>1. EnvSeq[i] = e
        BY <2>4 DEF e
      <4> QED BY <1>7, <1>10, <1>12, <3>1, <4>1
    <3>2. CASE q \notin class
      BY <1>11, <2>4, <3>2
    <3> QED BY <3>1, <3>2
  <2> QED BY <2>2, <2>3, <2>4
<1>13. \A i \in 1..section' : \A q \in PolicyIds :
         HasTwin(q, EnvSeq[i])' =>
           \/ ClassIn(q, EnvSeq[i])' \in classes'[EnvSeq[i]]
           \/ i = section' /\ q \in DOMAIN unclassed'
  <2> SUFFICES ASSUME NEW i \in 1..section', NEW q \in PolicyIds, HasTwin(q, EnvSeq[i])'
               PROVE  \/ ClassIn(q, EnvSeq[i])' \in classes'[EnvSeq[i]]
                      \/ i = section' /\ q \in DOMAIN unclassed'
    OBVIOUS
  <2>1. i \in 1..section /\ EnvSeq[i] \in Environments
    BY <1>1, <1>4 DEF Environments
  <2>2. HasTwin(q, EnvSeq[i]) /\ ClassIn(q, EnvSeq[i])' = ClassIn(q, EnvSeq[i])
    BY <1>8, <2>1
  <2> QED BY <1>4, <1>12, <2>1, <2>2
<1>14. \A q \in DOMAIN unclassed' :
         unclassed'[q] = {y \in PolicyIds : SameSituations(q, y, EnvSeq[section])}'
  <2>1. \A q \in DOMAIN unclassed :
          unclassed[q] = {y \in PolicyIds : SameSituations(q, y, EnvSeq[section])}
    BY DEF AnalysisInv, ClassesRight
  <2> QED BY <1>4, <1>11, <2>1 DEF SameSituations, Permits, Sat
<1>15. DOMAIN unclassed' \subseteq PolicyIds
  BY <1>11 DEF AnalysisInv, ClassesRight
<1>16. \A x \in Environments : classes'[x] \subseteq ClassesIn(x)'
  BY <1>8, <1>10
<1>17. section' \in 0..Len(EnvSeq) /\ section' # 0 /\ compared' = AllPairs
  BY <1>1, <1>4
<1> QED BY <1>10, <1>13, <1>14, <1>15, <1>16, <1>17 DEF ClassesRight

-------------------------------------------------------------------------------
LEMMA TwoSorts ==
  ASSUME NEW S, IsFiniteSet(S), NEW T, IsFiniteSet(T), S \cap T = {}
  PROVE  /\ IsFiniteSet(S \cup T)
         /\ Cardinality(S \cup T) = Cardinality(S) + Cardinality(T)
<1>1. IsFiniteSet(S \cup T)
      /\ Cardinality(S \cup T) = Cardinality(S) + Cardinality(T) - Cardinality(S \cap T)
  BY FS_Union
<1>2. Cardinality(S \cap T) = 0
  BY FS_EmptySet
<1>3. Cardinality(S) \in Nat /\ Cardinality(T) \in Nat
  BY FS_CardinalityType
<1> QED BY <1>1, <1>2, <1>3

\* What is found when every section is done.
PairsThat(e, kind) ==
  {t \in PolicyIds \X PolicyIds :
     CASE kind = "permits" -> Permits(t[1]) /\ Within(t[1], t[2], e)
       [] kind = "forbids" -> ~Permits(t[1]) /\ Within(t[1], t[2], e)
       [] kind = "overridden" -> NeverGrants(t[1], t[2], e)}

AllDone == /\ AnalysisInv /\ compared = AllPairs /\ DOMAIN unclassed = {}
           /\ section = Len(EnvSeq)

LEMMA FoundInEnv ==
  ASSUME AllDone, NEW e \in Environments
  PROVE  /\ InEnv(permitShadowed, e) = PairsThat(e, "permits")
         /\ InEnv(forbidShadowed, e) = PairsThat(e, "forbids")
         /\ InEnv(permitOverridden, e) = PairsThat(e, "overridden")
<1>1. FindingsRight /\ compared = AllPairs
  BY DEF AllDone, AnalysisInv
<1>2. \A findings \in SUBSET EnvPairs :
        InEnv(findings, e) = {t \in PolicyIds \X PolicyIds : <<t[1], t[2], e>> \in findings}
  <2> SUFFICES ASSUME NEW findings \in SUBSET EnvPairs
               PROVE InEnv(findings, e) = {t \in PolicyIds \X PolicyIds : <<t[1], t[2], e>> \in findings}
    OBVIOUS
  <2>1. \A x \in findings : x = <<x[1], x[2], x[3]>> /\ x[1] \in PolicyIds /\ x[2] \in PolicyIds
    BY DEF EnvPairs
  <2>2. \A t \in PolicyIds \X PolicyIds : t = <<t[1], t[2]>>
    OBVIOUS
  <2>3. ASSUME NEW t \in InEnv(findings, e)
        PROVE  t \in PolicyIds \X PolicyIds /\ <<t[1], t[2], e>> \in findings
    <3>1. PICK x \in findings : x[3] = e /\ t = <<x[1], x[2]>>
      BY DEF InEnv
    <3> QED BY <2>1, <3>1
  <2>4. ASSUME NEW t \in PolicyIds \X PolicyIds, <<t[1], t[2], e>> \in findings
        PROVE  t \in InEnv(findings, e)
    <3> DEFINE x == <<t[1], t[2], e>>
    <3>1. x \in {y \in findings : y[3] = e} /\ t = <<x[1], x[2]>>
      BY <2>2, <2>4
    <3> HIDE DEF x
    <3> QED BY <3>1 DEF InEnv
  <2> QED BY <2>3, <2>4
<1>3. permitShadowed \in SUBSET EnvPairs /\ forbidShadowed \in SUBSET EnvPairs
      /\ permitOverridden \in SUBSET EnvPairs
  BY <1>1 DEF FindingsRight
<1>4. ASSUME NEW t \in PolicyIds \X PolicyIds
      PROVE  /\ <<t[1], t[2], e>> \in permitShadowed <=> Permits(t[1]) /\ Within(t[1], t[2], e)
             /\ <<t[1], t[2], e>> \in forbidShadowed <=> ~Permits(t[1]) /\ Within(t[1], t[2], e)
             /\ <<t[1], t[2], e>> \in permitOverridden <=> NeverGrants(t[1], t[2], e)
  <2>1. t[1] \in PolicyIds /\ t[2] \in PolicyIds
    OBVIOUS
  <2> QED BY <1>1, <2>1, AllFound
<1>5. InEnv(permitShadowed, e) = PairsThat(e, "permits")
  <2>1. InEnv(permitShadowed, e) = {t \in PolicyIds \X PolicyIds : <<t[1], t[2], e>> \in permitShadowed}
    BY <1>2, <1>3
  <2> QED BY <1>4, <2>1 DEF PairsThat
<1>6. InEnv(forbidShadowed, e) = PairsThat(e, "forbids")
  <2>1. InEnv(forbidShadowed, e) = {t \in PolicyIds \X PolicyIds : <<t[1], t[2], e>> \in forbidShadowed}
    BY <1>2, <1>3
  <2> QED BY <1>4, <2>1 DEF PairsThat
<1>7. InEnv(permitOverridden, e) = PairsThat(e, "overridden")
  <2>1. InEnv(permitOverridden, e) = {t \in PolicyIds \X PolicyIds : <<t[1], t[2], e>> \in permitOverridden}
    BY <1>2, <1>3
  <2> QED BY <1>4, <2>1 DEF PairsThat
<1> QED BY <1>5, <1>6, <1>7

LEMMA ClassesInEnv ==
  ASSUME AllDone, NEW e \in Environments
  PROVE  classes[e] = ClassesIn(e)
<1>1. classes[e] \subseteq ClassesIn(e)
  BY DEF AllDone, AnalysisInv, ClassesRight
<1>2. PICK i \in DOMAIN EnvSeq : EnvSeq[i] = e
  BY DEF Environments
<1>3. i \in 1..section
  <2>1. DOMAIN EnvSeq = 1..Len(EnvSeq)
    OBVIOUS
  <2> QED BY <1>2, <2>1 DEF AllDone
<1>4. ASSUME NEW p \in PolicyIds, HasTwin(p, e)
      PROVE  ClassIn(p, e) \in classes[e]
  BY <1>2, <1>3, <1>4 DEF AllDone, AnalysisInv, ClassesRight
<1> QED BY <1>1, <1>4 DEF ClassesIn

LEMMA FactsBySort ==
  ASSUME NEW e \in Environments
  PROVE  Facts(e) = {<<"redundant", c>> : c \in ClassesIn(e)}
                      \cup {<<"shadowed", t[1], t[2]>> : t \in PairsThat(e, "permits")}
                      \cup {<<"overridden", t[1], t[2]>> : t \in PairsThat(e, "overridden")}
                      \cup {<<"shadowed", t[1], t[2]>> : t \in PairsThat(e, "forbids")}
<1>1. {<<"redundant", {q \in PolicyIds : q = p \/ SameSituations(p, q, e)}>> :
         p \in {x \in PolicyIds : \E y \in PolicyIds : SameSituations(x, y, e)}}
        = {<<"redundant", c>> : c \in ClassesIn(e)}
  BY DEF ClassesIn, ClassIn, HasTwin
<1>2. {t \in PolicyIds \X PolicyIds : Within(t[1], t[2], e)}
        = PairsThat(e, "permits") \cup PairsThat(e, "forbids")
  BY DEF PairsThat
<1>3. {t \in PolicyIds \X PolicyIds : NeverGrants(t[1], t[2], e)} = PairsThat(e, "overridden")
  BY DEF PairsThat
<1>4. {<<"shadowed", t[1], t[2]>> : t \in {x \in PolicyIds \X PolicyIds : Within(x[1], x[2], e)}}
        = {<<"shadowed", t[1], t[2]>> : t \in PairsThat(e, "permits")}
            \cup {<<"shadowed", t[1], t[2]>> : t \in PairsThat(e, "forbids")}
  BY <1>2
<1> QED BY <1>1, <1>3, <1>4 DEF Facts

Tagged(tag, S) == {<<tag, t[1], t[2]>> : t \in S}

LEMMA TaggedSize ==
  ASSUME NEW tag, NEW S \in SUBSET (PolicyIds \X PolicyIds)
  PROVE  /\ IsFiniteSet(S) /\ IsFiniteSet(Tagged(tag, S))
         /\ Cardinality(Tagged(tag, S)) = Cardinality(S)
<1> DEFINE T == Tagged(tag, S)
           g == [t \in S |-> <<tag, t[1], t[2]>>]
<1>1. IsFiniteSet(S)
  <2>1. IsFiniteSet(PolicyIds \X PolicyIds)
    BY FS_Product
  <2> QED BY <2>1, FS_Subset
<1>2. g \in [S -> T]
  BY DEF Tagged
<1>3. \A x, y \in S : g[x] = g[y] => x = y
  <2>1. \A x \in S : x = <<x[1], x[2]>>
    OBVIOUS
  <2> QED BY <2>1
<1>4. \A z \in T : \E x \in S : g[x] = z
  BY DEF Tagged
<1>5. IsFiniteSet(T) /\ Cardinality(T) = Cardinality(S)
  <2> HIDE DEF g, T
  <2> QED BY <1>1, <1>2, <1>3, <1>4, SameSize
<1> QED BY <1>1, <1>5

LEMMA TableLines ==
  ASSUME AllDone, NEW e \in Environments
  PROVE  /\ Lines(PerSigFindings(e)) = Facts(e)
         /\ NFindings(PerSigFindings(e)) = Cardinality(Facts(e))
         /\ IsFiniteSet(Facts(e))
<1> DEFINE f == PerSigFindings(e)
           R == {<<"redundant", c>> : c \in f.equiv}
           P == {<<"shadowed", t[1], t[2]>> : t \in f.permits}
           O == {<<"overridden", t[1], t[2]>> : t \in f.overridden}
           F == {<<"shadowed", t[1], t[2]>> : t \in f.forbids}
<1>1. /\ f.equiv = ClassesIn(e) /\ f.permits = PairsThat(e, "permits")
      /\ f.forbids = PairsThat(e, "forbids") /\ f.overridden = PairsThat(e, "overridden")
  BY FoundInEnv, ClassesInEnv DEF PerSigFindings
<1>2. /\ f.equiv \in SUBSET SUBSET PolicyIds
      /\ f.permits \in SUBSET (PolicyIds \X PolicyIds)
      /\ f.forbids \in SUBSET (PolicyIds \X PolicyIds)
      /\ f.overridden \in SUBSET (PolicyIds \X PolicyIds)
  BY <1>1 DEF ClassesIn, ClassIn, PairsThat
<1>3. \A t \in f.permits, u \in f.forbids : <<t[1], t[2]>> # <<u[1], u[2]>>
  BY <1>1 DEF PairsThat
<1>4. NFindings(f) = Cardinality(f.equiv) + Cardinality(f.permits) + Cardinality(f.overridden)
                       + Cardinality(f.forbids)
  BY DEF NFindings
<1>5. Lines(f) = ((R \cup P) \cup O) \cup F
  BY DEF Lines
<1>6. Lines(f) = Facts(e)
  BY <1>1, <1>5, FactsBySort
<1> HIDE DEF f
<1>7. IsFiniteSet(f.equiv) /\ IsFiniteSet(R) /\ Cardinality(R) = Cardinality(f.equiv)
  <2>1. IsFiniteSet(f.equiv)
    <3>1. IsFiniteSet(SUBSET PolicyIds)
      BY FS_SUBSET
    <3>2. IsFiniteSet(SUBSET SUBSET PolicyIds)
      BY <3>1, FS_SUBSET
    <3> QED BY <1>2, <3>1, FS_Subset
  <2> DEFINE g == [c \in f.equiv |-> <<"redundant", c>>]
  <2>2. g \in [f.equiv -> R]
    OBVIOUS
  <2>3. (\A x, y \in f.equiv : g[x] = g[y] => x = y) /\ (\A z \in R : \E x \in f.equiv : g[x] = z)
    OBVIOUS
  <2> HIDE DEF g, R
  <2> QED BY <2>1, <2>2, <2>3, SameSize
<1>8. IsFiniteSet(f.permits) /\ IsFiniteSet(P) /\ Cardinality(P) = Cardinality(f.permits)
  <2>1. P = Tagged("shadowed", f.permits)
    BY DEF Tagged
  <2> HIDE DEF P
  <2> QED BY <1>2, <2>1, TaggedSize
<1>9. /\ IsFiniteSet(f.forbids) /\ IsFiniteSet(F) /\ Cardinality(F) = Cardinality(f.forbids)
      /\ IsFiniteSet(f.overridden) /\ IsFiniteSet(O) /\ Cardinality(O) = Cardinality(f.overridden)
  <2>1. F = Tagged("shadowed", f.forbids) /\ O = Tagged("overridden", f.overridden)
    BY DEF Tagged
  <2> HIDE DEF F, O
  <2> QED BY <1>2, <2>1, TaggedSize
<1>10. R \cap P = {} /\ (R \cup P) \cap O = {} /\ ((R \cup P) \cup O) \cap F = {}
  <2>1. /\ \A x \in R : x[1] = "redundant"
        /\ \A x \in P : x[1] = "shadowed"
        /\ \A x \in O : x[1] = "overridden"
        /\ \A x \in F : x[1] = "shadowed"
    OBVIOUS
  <2>2. P \cap F = {}
    BY <1>3
  <2> HIDE DEF R, P, O, F
  <2> QED BY <2>1, <2>2
<1> HIDE DEF R, P, O, F
<1>11. IsFiniteSet(R \cup P) /\ Cardinality(R \cup P) = Cardinality(R) + Cardinality(P)
  BY <1>7, <1>8, <1>9, <1>10, TwoSorts
<1>12. /\ IsFiniteSet((R \cup P) \cup O)
       /\ Cardinality((R \cup P) \cup O) = Cardinality(R \cup P) + Cardinality(O)
  BY <1>8, <1>9, <1>10, <1>11, TwoSorts
<1>13. /\ IsFiniteSet(((R \cup P) \cup O) \cup F)
       /\ Cardinality(((R \cup P) \cup O) \cup F) = Cardinality((R \cup P) \cup O) + Cardinality(F)
  BY <1>8, <1>9, <1>10, <1>12, TwoSorts
<1>14. NFindings(f) = Cardinality(Facts(e)) /\ IsFiniteSet(Facts(e))
  BY <1>4, <1>5, <1>6, <1>7, <1>8, <1>9, <1>11, <1>12, <1>13
<1> QED BY <1>6, <1>14 DEF f

-------------------------------------------------------------------------------
\* What a section of the JSON format says.
JsonSection(f) == [equiv |-> f.equiv \ {{}}, permits |-> Grouped(f.permits),
                   forbids |-> Grouped(f.forbids), overridden |-> Grouped(f.overridden)]
SectionSays(s) ==
  {<<"redundant", c>> : c \in s.equiv} \cup Ungrouped("shadowed", s.permits)
    \cup Ungrouped("shadowed", s.forbids) \cup Ungrouped("overridden", s.overridden)

LEMMA GroupedAgain ==
  ASSUME NEW kind, NEW pairs \in SUBSET (PolicyIds \X PolicyIds)
  PROVE  Ungrouped(kind, Grouped(pairs)) = Tagged(kind, pairs)
<1>1. \A t \in pairs : t = <<t[1], t[2]>> /\ t[1] \in PolicyIds /\ t[2] \in PolicyIds
  OBVIOUS
<1>2. ASSUME NEW x \in Ungrouped(kind, Grouped(pairs))
      PROVE  x \in Tagged(kind, pairs)
  <2>1. PICK g \in Grouped(pairs) : x \in {<<kind, g[1], q>> : q \in g[2]}
    BY <1>2 DEF Ungrouped
  <2>2. PICK p \in {t[1] : t \in pairs} : g = <<p, {q \in PolicyIds : <<p, q>> \in pairs}>>
    BY <2>1 DEF Grouped
  <2>3. PICK q \in g[2] : x = <<kind, g[1], q>>
    BY <2>1
  <2>4. <<p, q>> \in pairs /\ x = <<kind, p, q>>
    BY <2>2, <2>3
  <2>5. x \in {<<kind, t[1], t[2]>> : t \in pairs}
    BY <2>4
  <2> QED BY <2>5 DEF Tagged
<1>3. ASSUME NEW x \in Tagged(kind, pairs)
      PROVE  x \in Ungrouped(kind, Grouped(pairs))
  <2>1. PICK t \in pairs : x = <<kind, t[1], t[2]>>
    BY <1>3 DEF Tagged
  <2> DEFINE p == t[1]
             g == <<p, {q \in PolicyIds : <<p, q>> \in pairs}>>
  <2>2. g \in Grouped(pairs)
    BY DEF Grouped
  <2>3. t[2] \in g[2] /\ x = <<kind, g[1], t[2]>>
    BY <1>1, <2>1
  <2>4. x \in {<<kind, g[1], q>> : q \in g[2]}
    BY <2>3
  <2> HIDE DEF g
  <2> QED BY <2>2, <2>4 DEF Ungrouped
<1> QED BY <1>2, <1>3

LEMMA JsonLines ==
  ASSUME AllDone, NEW e \in Environments
  PROVE  SectionSays(JsonSection(PerSigFindings(e))) = Facts(e)
<1> DEFINE f == PerSigFindings(e)
           s == JsonSection(f)
<1>1. /\ f.equiv = ClassesIn(e) /\ f.permits = PairsThat(e, "permits")
      /\ f.forbids = PairsThat(e, "forbids") /\ f.overridden = PairsThat(e, "overridden")
  BY FoundInEnv, ClassesInEnv DEF PerSigFindings
<1>2. {} \notin ClassesIn(e)
  BY DEF ClassesIn, ClassIn
<1> HIDE DEF f
<1>3. s.equiv = ClassesIn(e)
  BY <1>1, <1>2 DEF JsonSection
<1>4. /\ s.permits = Grouped(PairsThat(e, "permits"))
      /\ s.forbids = Grouped(PairsThat(e, "forbids"))
      /\ s.overridden = Grouped(PairsThat(e, "overridden"))
  BY <1>1 DEF JsonSection
<1>5. \A kind \in {"permits", "forbids", "overridden"} :
        PairsThat(e, kind) \in SUBSET (PolicyIds \X PolicyIds)
  BY DEF PairsThat
<1>6. /\ Ungrouped("shadowed", s.permits) = Tagged("shadowed", PairsThat(e, "permits"))
      /\ Ungrouped("shadowed", s.forbids) = Tagged("shadowed", PairsThat(e, "forbids"))
      /\ Ungrouped("overridden", s.overridden) = Tagged("overridden", PairsThat(e, "overridden"))
  BY <1>4, <1>5, GroupedAgain
<1> HIDE DEF s
<1>7. SectionSays(s) = {<<"redundant", c>> : c \in ClassesIn(e)}
                         \cup Tagged("shadowed", PairsThat(e, "permits"))
                         \cup Tagged("shadowed", PairsThat(e, "forbids"))
                         \cup Tagged("overridden", PairsThat(e, "overridden"))
  BY <1>3, <1>6 DEF SectionSays
<1>8. SectionSays(s) = Facts(e)
  BY <1>7, FactsBySort DEF Tagged
<1> QED BY <1>8 DEF s, f

\* A section is left out when there is nothing to say in it.
LEMMA LeftOut ==
  ASSUME AllDone, NEW e \in Environments
  PROVE  NFindings(PerSigFindings(e)) = 0 => Facts(e) = {}
<1> DEFINE n == NFindings(PerSigFindings(e))
           lines == Facts(e)
<1>1. n = Cardinality(lines) /\ IsFiniteSet(lines)
  BY TableLines
<1> SUFFICES n = 0 => lines = {}
  OBVIOUS
<1> HIDE DEF n, lines
<1> QED BY <1>1, FS_EmptySet

LEMMA VacuousPolicies ==
  ASSUME AllDone, analysisStage = "pairs"
  PROVE  AnalyzePolicyFindings.policies =
           {<<p, "MatchesAll">> :
              p \in {q \in PolicyIds : \A e \in Environments : Sat(q, e) = Situations}}
           \cup {<<p, "MatchesNone">> :
              p \in {q \in PolicyIds : /\ \A e \in Environments : Sat(q, e) = {}
                                       /\ Environments # {}}}
<1> DEFINE All(p) == \A e \in Environments : Sat(p, e) = Situations
           None_(p) == \A e \in Environments : Sat(p, e) = {}
           found(p) == VacuousFinding(policyVacuity[p])
<1>1. \A p \in PolicyIds : policyVacuity[p] = PolicyVacuous(p)
  BY DEF AllDone, AnalysisInv, VacuityRight
<1>2. ASSUME NEW p \in PolicyIds
      PROVE  /\ found(p) \in Vacuities
             /\ found(p) = "MatchesAll" <=> All(p)
             /\ found(p) = "MatchesNone" <=> None_(p) /\ Environments # {}
  <2>1. \A e \in Environments :
          /\ policyVacuity[p][e] = "MatchesAll" <=> Sat(p, e) = Situations
          /\ policyVacuity[p][e] = "MatchesNone" <=> Sat(p, e) = {}
    BY <1>1 DEF PolicyVacuous, Vacuity, AlwaysMatches, NeverMatches
  <2>2. found(p) = IF All(p) THEN "MatchesAll" ELSE IF None_(p) THEN "MatchesNone" ELSE "MatchesSome"
    BY <2>1 DEF VacuousFinding, Vacuity
  <2>3. Environments = {} => All(p)
    OBVIOUS
  <2>4. Environments # {} => ~(All(p) /\ None_(p))
    OBVIOUS
  <2> HIDE DEF All, None_, found
  <2> QED BY <2>2, <2>3, <2>4 DEF Vacuities
<1>3. AnalyzePolicyFindings.policies =
        {<<p, found(p)>> : p \in {q \in PolicyIds : found(q) # "MatchesSome"}}
  BY DEF AnalyzePolicyFindings
<1>4. {<<p, found(p)>> : p \in {q \in PolicyIds : found(q) # "MatchesSome"}}
        = {<<p, "MatchesAll">> : p \in {q \in PolicyIds : All(q)}}
            \cup {<<p, "MatchesNone">> : p \in {q \in PolicyIds : None_(q) /\ Environments # {}}}
  <2> HIDE DEF All, None_, found
  <2> QED BY <1>2 DEF Vacuities
<1> QED BY <1>3, <1>4

\* What is printed, in either format.
LEMMA FindingsPrinted ==
  ASSUME AnalysisInv, NEW json \in BOOLEAN, PrintFindings(json)
  PROVE  AnalysisExact'
<1> DEFINE found == [e \in Environments |-> PerSigFindings(e)]
           Told == {e \in Environments : NFindings(found[e]) # 0}
           sections == [e \in Told |-> found[e]]
           F == AnalyzePolicyFindings
<1>1. AllDone /\ analysisStage = "pairs"
  <2>1. DOMAIN unclassed = {}
    BY DEF PrintFindings
  <2> QED BY <2>1 DEF PrintFindings, AllDone
<1>2. F.sections = sections /\ F = [set |-> F.set, policies |-> F.policies, sections |-> F.sections]
  BY DEF AnalyzePolicyFindings
<1>3. \A e \in Environments :
        /\ Lines(found[e]) = Facts(e)
        /\ NFindings(found[e]) = Cardinality(Facts(e))
        /\ SectionSays(JsonSection(found[e])) = Facts(e)
        /\ e \notin Told => Facts(e) = {}
  BY <1>1, TableLines, JsonLines, LeftOut
<1>4. DOMAIN sections = Told /\ \A e \in Told : sections[e] = found[e]
  OBVIOUS
<1>5. \A e \in Environments : Facts(e)' = Facts(e)
  BY DEF PrintFindings, Facts, SameSituations, Within, NeverGrants, Permits, Sat
<1>6. F.policies =
         {<<p, "MatchesAll">> :
            p \in {q \in PolicyIds : \A e \in Environments : Sat(q, e)' = Situations}}
         \cup {<<p, "MatchesNone">> :
            p \in {q \in PolicyIds : /\ \A e \in Environments : Sat(q, e)' = {}
                                     /\ Environments # {}}}
  <2>1. \A p, e : Sat(p, e)' = Sat(p, e)
    BY DEF PrintFindings, Sat
  <2> HIDE DEF F
  <2>2. F.policies =
         {<<p, "MatchesAll">> :
            p \in {q \in PolicyIds : \A e \in Environments : Sat(q, e) = Situations}}
         \cup {<<p, "MatchesNone">> :
            p \in {q \in PolicyIds : /\ \A e \in Environments : Sat(q, e) = {}
                                     /\ Environments # {}}}
    BY <1>1, VacuousPolicies DEF F
  <2> QED BY <2>1, <2>2
<1> HIDE DEF found, F
<1>7. CASE json
  <2>1. report' = PrintJson(F)
    BY <1>7 DEF PrintFindings, F
  <2>2. /\ report'.format = "json" /\ report'.policies = F.policies
        /\ DOMAIN report'.sections = Told
        /\ \A e \in Told : report'.sections[e] = JsonSection(found[e])
    BY <1>2, <1>4, <2>1 DEF PrintJson, JsonSection
  <2>3. ASSUME NEW e \in Environments
        PROVE  Said(e)' = Facts(e)'
    <3>1. CASE e \in Told
      <4>1. Said(e)' = SectionSays(report'.sections[e])
        BY <2>2, <3>1 DEF Said, SectionSays
      <4> QED BY <1>3, <1>5, <2>2, <3>1, <4>1
    <3>2. CASE e \notin Told
      <4>1. Said(e)' = {}
        BY <2>2, <3>2 DEF Said
      <4> QED BY <1>3, <1>5, <3>2, <4>1
    <3> QED BY <3>1, <3>2
  <2> QED BY <1>6, <2>2, <2>3 DEF AnalysisExact, ReportExact, ComparisonExact
<1>8. CASE ~json
  <2>1. report' = PrintTable(F)
    BY <1>8 DEF PrintFindings, F
  <2>2. /\ report'.format = "table" /\ report'.policies = F.policies
        /\ report'.rows = [e \in Told |-> Lines(found[e])]
        /\ report'.found = SumOver([e \in Told |-> NFindings(found[e])])
    <3>1. [e \in DOMAIN F.sections |-> Lines(F.sections[e])] = [e \in Told |-> Lines(found[e])]
      BY <1>2, <1>4
    <3>2. [e \in DOMAIN F.sections |-> NFindings(F.sections[e])]
            = [e \in Told |-> NFindings(found[e])]
      BY <1>2, <1>4
    <3> QED BY <2>1, <3>1, <3>2 DEF PrintTable
  <2>3. DOMAIN report'.rows = Told /\ \A e \in Told : report'.rows[e] = Facts(e)
    BY <1>3, <2>2
  <2>4. ASSUME NEW e \in Environments
        PROVE  Said(e)' = Facts(e)'
    <3>1. CASE e \in Told
      <4>1. Said(e)' = report'.rows[e]
        BY <2>2, <2>3, <3>1 DEF Said
      <4> QED BY <1>5, <2>3, <3>1, <4>1
    <3>2. CASE e \notin Told
      <4>1. Said(e)' = {}
        BY <2>2, <2>3, <3>2 DEF Said
      <4> QED BY <1>3, <1>5, <3>2, <4>1
    <3> QED BY <3>1, <3>2
  <2>5. report'.found = SumOver([e \in DOMAIN report'.rows |-> Cardinality(report'.rows[e])])
    <3>1. [e \in DOMAIN report'.rows |-> Cardinality(report'.rows[e])]
            = [e \in Told |-> NFindings(found[e])]
      BY <1>3, <2>3
    <3> QED BY <2>2, <3>1
  <2> QED BY <1>6, <2>2, <2>4, <2>5 DEF AnalysisExact, ReportExact, ComparisonExact
<1> QED BY <1>7, <1>8

-------------------------------------------------------------------------------
\* `compare`: the answer in one environment, and the whole answer.
LEMMA StatusFound ==
  ASSUME NEW e \in Environments,
         NEW fwd \in Counterexamples(psets[1], psets[2], e),
         NEW bwd \in Counterexamples(psets[2], psets[1], e)
  PROVE  StatusRight(ComparisonStatus(fwd, bwd), AllowedBy(psets[1], e),
                     AllowedBy(psets[2], e))
<1> DEFINE one == AllowedBy(psets[1], e)
           two == AllowedBy(psets[2], e)
           r == ComparisonStatus(fwd, bwd)
<1>1. "none" \notin one /\ "none" \notin two
  BY DEF AllowedBy
<1>2. /\ fwd = "none" <=> one \subseteq two
      /\ fwd # "none" => fwd \in one \ two
  BY <1>1 DEF Counterexamples, Implies
<1>3. /\ bwd = "none" <=> two \subseteq one
      /\ bwd # "none" => bwd \in two \ one
  BY <1>1 DEF Counterexamples, Implies
<1> SUFFICES /\ r.is = "Equivalent" <=> one = two
             /\ r.is = "LessPermissive" <=> (one \subseteq two /\ one # two)
             /\ r.is = "MorePermissive" <=> (two \subseteq one /\ one # two)
             /\ r.is \in {"MorePermissive", "Incomparable"} => r.more \in one \ two
             /\ r.is \in {"LessPermissive", "Incomparable"} => r.less \in two \ one
  BY DEF StatusRight
<1> HIDE DEF one, two
<1>4. one = two <=> one \subseteq two /\ two \subseteq one
  OBVIOUS
<1>5. CASE fwd = "none" /\ bwd = "none"
  <2>1. r = [is |-> "Equivalent"]
    BY <1>5 DEF ComparisonStatus
  <2> QED BY <1>2, <1>3, <1>4, <1>5, <2>1
<1>6. CASE fwd = "none" /\ bwd # "none"
  <2>1. r = [is |-> "LessPermissive", less |-> bwd]
    BY <1>6 DEF ComparisonStatus
  <2>2. r.is = "LessPermissive" /\ r.less = bwd
    BY <2>1
  <2> HIDE DEF r
  <2> QED BY <1>2, <1>3, <1>4, <1>6, <2>2
<1>7. CASE fwd # "none" /\ bwd = "none"
  <2>1. r = [is |-> "MorePermissive", more |-> fwd]
    BY <1>7 DEF ComparisonStatus
  <2>2. r.is = "MorePermissive" /\ r.more = fwd
    BY <2>1
  <2> HIDE DEF r
  <2> QED BY <1>2, <1>3, <1>4, <1>7, <2>2
<1>8. CASE fwd # "none" /\ bwd # "none"
  <2>1. r = [is |-> "Incomparable", more |-> fwd, less |-> bwd]
    BY <1>8 DEF ComparisonStatus
  <2>2. r.is = "Incomparable" /\ r.more = fwd /\ r.less = bwd
    BY <2>1
  <2> HIDE DEF r
  <2> QED BY <1>2, <1>3, <1>4, <1>8, <2>2
<1> QED BY <1>5, <1>6, <1>7, <1>8

LEMMA NextCompared == AnalysisInv /\ CompareNext => ComparedSoFar'
<1> SUFFICES ASSUME AnalysisInv, CompareNext
             PROVE  ComparedSoFar'
  OBVIOUS
<1> DEFINE n == Len(status) + 1
           e == EnvSeq[n]
<1>1. status \in Seq({status[i] : i \in DOMAIN status}) /\ Len(status) <= Len(EnvSeq)
      /\ (\A i \in DOMAIN status : StatusRight(status[i], OneAllows(i), OtherAllows(i)))
  BY DEF AnalysisInv, ComparedSoFar
<1>2. PICK fwd \in Counterexamples(psets[1], psets[2], e),
           bwd \in Counterexamples(psets[2], psets[1], e) :
        status' = Append(status, ComparisonStatus(fwd, bwd))
  BY DEF CompareNext
<1> DEFINE r == ComparisonStatus(fwd, bwd)
<1>3. Len(status) \in Nat /\ Len(status) < Len(EnvSeq) /\ Len(EnvSeq) \in Nat
  BY <1>1 DEF CompareNext
<1>4. e \in Environments
  <2>1. DOMAIN EnvSeq = 1..Len(EnvSeq) /\ n \in 1..Len(EnvSeq)
    BY <1>3
  <2> QED BY <2>1 DEF Environments
<1>5. StatusRight(r, OneAllows(n), OtherAllows(n))
  BY <1>2, <1>4, StatusFound DEF OneAllows, OtherAllows
<1> HIDE DEF r
<1> DEFINE S == {status[i] : i \in DOMAIN status} \cup {r}
<1>6. status \in Seq(S)
  BY <1>1
<1>7. r \in S /\ status' = Append(status, r)
  BY <1>2 DEF r
<1>8. /\ Len(status') = n /\ DOMAIN status' = 1..n /\ DOMAIN status = 1..Len(status)
      /\ \A i \in 1..n : status'[i] = IF i = n THEN r ELSE status[i]
  <2> HIDE DEF S
  <2> QED BY <1>6, <1>7
<1>9. status' \in Seq({status'[i] : i \in DOMAIN status'})
  <2>1. \A i \in DOMAIN status : i \in 1..n /\ i # n
    BY <1>3, <1>8
  <2>2. n \in 1..n
    BY <1>3
  <2>3. S = {status'[i] : i \in DOMAIN status'}
    BY <1>3, <1>8, <2>1, <2>2
  <2>4. status' \in Seq(S)
    <3> HIDE DEF S
    <3> QED BY <1>6, <1>7
  <2> HIDE DEF S
  <2> QED BY <2>3, <2>4
<1>10. \A i \in DOMAIN status' : StatusRight(status'[i], OneAllows(i), OtherAllows(i))
  <2>1. \A i \in 1..n : i # n => i \in DOMAIN status
    BY <1>3, <1>8
  <2> QED BY <1>1, <1>5, <1>8, <2>1
<1>11. psets' = psets /\ program' = program
  BY DEF CompareNext
<1>12. \A i : OneAllows(i)' = OneAllows(i) /\ OtherAllows(i)' = OtherAllows(i)
  BY <1>11 DEF OneAllows, OtherAllows, AllowedBy, Permits, Sat
<1>13. \A i \in DOMAIN status' : StatusRight(status'[i], OneAllows(i)', OtherAllows(i)')
  BY <1>10, <1>12
<1>14. analysisStage' # "idle"
  BY DEF CompareNext
<1>15. Len(status') <= Len(EnvSeq)
  BY <1>3, <1>8
<1> QED BY <1>9, <1>13, <1>14, <1>15 DEF ComparedSoFar

LEMMA ComparisonPrinted == AnalysisInv /\ PrintComparison => AnalysisExact'
<1> SUFFICES ASSUME AnalysisInv, PrintComparison
             PROVE  AnalysisExact'
  OBVIOUS
<1>1. report' = [format |-> "comparison", results |-> status] /\ Len(status) = Len(EnvSeq)
  BY DEF PrintComparison
<1>2. DOMAIN EnvSeq = DOMAIN status
  BY <1>1 DEF AnalysisInv, ComparedSoFar
<1>3. \A i \in DOMAIN EnvSeq : StatusRight(report'.results[i], OneAllows(i), OtherAllows(i))
  BY <1>1, <1>2 DEF AnalysisInv, ComparedSoFar
<1>4. \A i : OneAllows(i)' = OneAllows(i) /\ OtherAllows(i)' = OtherAllows(i)
  BY DEF PrintComparison, OneAllows, OtherAllows, AllowedBy, Permits, Sat
<1>5. \A i \in DOMAIN EnvSeq : StatusRight(report'.results[i], OneAllows(i)', OtherAllows(i)')
  BY <1>3, <1>4
<1>6. ComparisonExact'
  BY <1>5 DEF ComparisonExact, StatusRight, OneAllows, OtherAllows
<1>7. ReportExact'
  BY <1>1 DEF ReportExact
<1> QED BY <1>6, <1>7 DEF AnalysisExact

-------------------------------------------------------------------------------
\* A part of the invariant stays so when a step leaves what it is about alone.
LEMMA VacuityKept ==
  ASSUME VacuityRight, UNCHANGED <<program, policyVacuity, compared>>,
         analysisStage' = "pairs" => DOMAIN policyVacuity = PolicyIds
  PROVE  VacuityRight'
<1>1. \A p : PolicyVacuous(p)' = PolicyVacuous(p)
  BY DEF PolicyVacuous, AlwaysMatches, NeverMatches, Sat
<1> QED BY <1>1 DEF VacuityRight

LEMMA FindingsKept ==
  ASSUME FindingsRight, UNCHANGED <<program, compared, redundant, permitShadowed,
                                    permitOverridden, forbidShadowed>>
  PROVE  FindingsRight'
<1>1. \A p, q, e : /\ SameSituations(p, q, e)' = SameSituations(p, q, e)
                   /\ Within(p, q, e)' = Within(p, q, e)
                   /\ NeverGrants(p, q, e)' = NeverGrants(p, q, e)
                   /\ Permits(p)' = Permits(p)
  BY DEF SameSituations, Within, NeverGrants, Permits, Sat
<1> QED BY <1>1 DEF FindingsRight

LEMMA ClassesKept ==
  ASSUME ClassesRight, UNCHANGED <<program, section, unclassed, classes>>,
         section # 0 => compared' = compared
  PROVE  ClassesRight'
<1>1. \A p, q, e : SameSituations(p, q, e)' = SameSituations(p, q, e)
  BY DEF SameSituations, Permits, Sat
<1>2. \A p, e : HasTwin(p, e)' = HasTwin(p, e) /\ ClassIn(p, e)' = ClassIn(p, e)
  BY <1>1 DEF HasTwin, ClassIn
<1>3. \A e : ClassesIn(e)' = ClassesIn(e)
  BY <1>2 DEF ClassesIn
<1>4. \A e \in Environments : classes'[e] \subseteq ClassesIn(e)'
  BY <1>3 DEF ClassesRight
<1>5. \A i \in 1..section' : \A p \in PolicyIds :
        HasTwin(p, EnvSeq[i])' =>
          \/ ClassIn(p, EnvSeq[i])' \in classes'[EnvSeq[i]]
          \/ i = section' /\ p \in DOMAIN unclassed'
  BY <1>2 DEF ClassesRight
<1>6. \A p \in DOMAIN unclassed' :
        unclassed'[p] = {q \in PolicyIds : SameSituations(p, q, EnvSeq[section])'}
  BY <1>1 DEF ClassesRight
<1>7. (section' # 0 => compared' = AllPairs) /\ (section' = 0 => DOMAIN unclassed' = {})
      /\ section' \in 0..Len(EnvSeq) /\ DOMAIN unclassed' \subseteq PolicyIds
      /\ classes' \in [Environments -> SUBSET SUBSET PolicyIds]
  BY DEF ClassesRight
<1> QED BY <1>4, <1>5, <1>6, <1>7 DEF ClassesRight

LEMMA ComparedKept ==
  ASSUME ComparedSoFar, UNCHANGED <<program, psets, status>>,
         analysisStage' = "idle" => analysisStage = "idle" /\ report' = report
  PROVE  ComparedSoFar'
<1>1. \A i : OneAllows(i)' = OneAllows(i) /\ OtherAllows(i)' = OtherAllows(i)
  BY DEF OneAllows, OtherAllows, AllowedBy, Permits, Sat
<1>2. \A i \in DOMAIN status' : StatusRight(status'[i], OneAllows(i)', OtherAllows(i)')
  BY <1>1 DEF ComparedSoFar
<1> QED BY <1>2 DEF ComparedSoFar, NoReport

LEMMA ReportKept ==
  ASSUME AnalysisExact, UNCHANGED <<program, psets, report>>
  PROVE  AnalysisExact'
<1>1. \A e : Facts(e)' = Facts(e) /\ Said(e)' = Said(e)
  BY DEF Facts, SameSituations, Within, NeverGrants, Permits, Sat, Said
<1>2. \A p, e : Sat(p, e)' = Sat(p, e)
  BY DEF Sat
<1>3. ReportExact'
  BY <1>1, <1>2 DEF AnalysisExact, ReportExact
<1>4. \A ps, e : AllowedBy(ps, e)' = AllowedBy(ps, e)
  BY DEF AllowedBy, Permits, Sat
<1>5. ComparisonExact'
  BY <1>4 DEF AnalysisExact, ComparisonExact
<1> QED BY <1>3, <1>5 DEF AnalysisExact

LEMMA AnalysisKept ==
  ASSUME AnalysisInv, [AnalysisNext]_analysisVars
  PROVE  AnalysisInv'
<1> USE DEF AnalysisInv
<1>1. CASE UNCHANGED analysisVars
  <2>1. VacuityRight' /\ FindingsRight' /\ ClassesRight'
    BY <1>1, VacuityKept, FindingsKept, ClassesKept DEF analysisVars, findingVars, classVars, VacuityRight
  <2>2. ComparedSoFar' /\ AnalysisExact'
    BY <1>1, ComparedKept, ReportKept DEF analysisVars
  <2> QED BY <1>1, <2>1, <2>2 DEF analysisVars
<1>2. CASE Analyze
  <2>1. VacuityRight' /\ FindingsRight' /\ ClassesRight'
    BY <1>2, VacuityKept, FindingsKept, ClassesKept DEF Analyze, findingVars, classVars
  <2>2. ComparedSoFar' /\ AnalysisExact'
    BY <1>2, ComparedKept, ReportKept DEF Analyze
  <2> QED BY <1>2, <2>1, <2>2 DEF Analyze
<1>3. CASE Compare
  <2>1. VacuityRight' /\ FindingsRight' /\ ClassesRight'
    BY <1>3, VacuityKept, FindingsKept, ClassesKept DEF Compare, findingVars, classVars
  <2>2. status' = <<>> /\ report' = NoReport /\ analysisStage' # "idle"
    BY <1>3 DEF Compare, ComparedSoFar
  <2>3. ComparedSoFar' /\ AnalysisExact'
    BY <2>2 DEF ComparedSoFar, NoReport, AnalysisExact, ReportExact, ComparisonExact
  <2> QED BY <1>3, <2>1, <2>3 DEF Compare
<1>4. ASSUME NEW p \in PolicyIds, LookAtPolicy(p)
      PROVE  AnalysisInv'
  <2>1. compared = {} /\ compared' = {} /\ analysisStage' = "policies" /\ program' = program
    BY <1>4 DEF LookAtPolicy, VacuityRight
  <2>2. \A q : PolicyVacuous(q)' = PolicyVacuous(q)
    BY <2>1 DEF PolicyVacuous, AlwaysMatches, NeverMatches, Sat
  <2>3. /\ DOMAIN policyVacuity' = DOMAIN policyVacuity \cup {p}
        /\ \A q \in DOMAIN policyVacuity \cup {p} :
             policyVacuity'[q] = IF q = p THEN PolicyVacuous(p) ELSE policyVacuity[q]
    BY <1>4 DEF LookAtPolicy
  <2>4. VacuityRight'
    BY <2>1, <2>2, <2>3 DEF VacuityRight
  <2>5. FindingsRight' /\ ClassesRight'
    BY <1>4, FindingsKept, ClassesKept DEF LookAtPolicy, classVars
  <2>6. ComparedSoFar' /\ AnalysisExact'
    BY <1>4, ComparedKept, ReportKept DEF LookAtPolicy
  <2> QED BY <2>1, <2>4, <2>5, <2>6
<1>5. CASE LookAtPolicySet
  <2>1. VacuityRight' /\ FindingsRight' /\ ClassesRight'
    BY <1>5, VacuityKept, FindingsKept, ClassesKept DEF LookAtPolicySet, classVars
  <2>2. ComparedSoFar' /\ AnalysisExact'
    BY <1>5, ComparedKept, ReportKept DEF LookAtPolicySet
  <2> QED BY <1>5, <2>1, <2>2 DEF LookAtPolicySet
<1>6. ASSUME NEW p \in PolicyIds, NEW q \in PolicyIds, ComparePair(p, q)
      PROVE  AnalysisInv'
  <2>1. FindingsRight'
    BY <1>6, PairCompared
  <2>2. section = 0
    <3>1. {p, q} \in AllPairs /\ {p, q} \notin compared
      BY <1>6, PairsDiffer DEF ComparePair
    <3> QED BY <3>1 DEF ClassesRight
  <2>3. ClassesRight'
    BY <1>6, <2>2, ClassesKept DEF ComparePair, classVars
  <2>4. VacuityRight'
    <3>1. program' = program /\ policyVacuity' = policyVacuity /\ DOMAIN policyVacuity = PolicyIds
      BY <1>6 DEF ComparePair, VacuityRight
    <3>2. \A x : PolicyVacuous(x)' = PolicyVacuous(x)
      BY <3>1 DEF PolicyVacuous, AlwaysMatches, NeverMatches, Sat
    <3> QED BY <3>1, <3>2 DEF VacuityRight
  <2>5. ComparedSoFar' /\ AnalysisExact'
    BY <1>6, ComparedKept, ReportKept DEF ComparePair
  <2> QED BY <1>6, <2>1, <2>3, <2>4, <2>5 DEF ComparePair
<1>7. CASE OpenSection
  <2>1. VacuityRight' /\ FindingsRight'
    BY <1>7, VacuityKept, FindingsKept DEF OpenSection, findingVars, VacuityRight
  <2>2. ComparedSoFar' /\ AnalysisExact'
    BY <1>7, ComparedKept, ReportKept DEF OpenSection
  <2> QED BY <1>7, <2>1, <2>2, SectionOpened DEF OpenSection
<1>8. ASSUME NEW p \in DOMAIN unclassed, TakeClass(p)
      PROVE  AnalysisInv'
  <2>1. VacuityRight' /\ FindingsRight'
    BY <1>8, VacuityKept, FindingsKept DEF TakeClass, findingVars, VacuityRight
  <2>2. ComparedSoFar' /\ AnalysisExact'
    BY <1>8, ComparedKept, ReportKept DEF TakeClass
  <2>3. ClassesRight'
    BY <1>8, ClassTaken
  <2> QED BY <1>8, <2>1, <2>2, <2>3 DEF TakeClass
<1>9. ASSUME NEW json \in BOOLEAN, PrintFindings(json)
      PROVE  AnalysisInv'
  <2>1. VacuityRight' /\ FindingsRight' /\ ClassesRight'
    BY <1>9, VacuityKept, FindingsKept, ClassesKept DEF PrintFindings, findingVars, classVars
  <2>2. ComparedSoFar'
    BY <1>9, ComparedKept DEF PrintFindings
  <2>3. AnalysisExact'
    BY <1>9, FindingsPrinted
  <2> QED BY <1>9, <2>1, <2>2, <2>3 DEF PrintFindings
<1>10. CASE CompareNext
  <2>1. VacuityRight' /\ FindingsRight' /\ ClassesRight'
    BY <1>10, VacuityKept, FindingsKept, ClassesKept DEF CompareNext, findingVars, classVars
  <2>2. AnalysisExact'
    BY <1>10, ReportKept DEF CompareNext
  <2> QED BY <1>10, <2>1, <2>2, NextCompared DEF CompareNext
<1>11. CASE PrintComparison
  <2>1. VacuityRight' /\ FindingsRight' /\ ClassesRight'
    BY <1>11, VacuityKept, FindingsKept, ClassesKept DEF PrintComparison, findingVars, classVars
  <2>2. ComparedSoFar'
    BY <1>11, ComparedKept DEF PrintComparison
  <2> QED BY <1>11, <2>1, <2>2, ComparisonPrinted DEF PrintComparison
<1>12. CASE QueryFails
  <2>1. VacuityRight' /\ FindingsRight' /\ ClassesRight'
    BY <1>12, VacuityKept, FindingsKept, ClassesKept DEF QueryFails, findingVars, classVars
  <2>2. ComparedSoFar' /\ AnalysisExact'
    BY <1>12, ComparedKept, ReportKept DEF QueryFails
  <2> QED BY <1>12, <2>1, <2>2 DEF QueryFails
<1> HIDE DEF AnalysisInv
<1> QED BY <1>1, <1>2, <1>3, <1>4, <1>5, <1>6, <1>7, <1>8, <1>9, <1>10, <1>11, <1>12
        DEF AnalysisNext, AnalysisStep

\* `analyze policies` and `analyze compare` report what is so, all of it and
\* nothing else, for any number of policies, environments and situations, in
\* whatever order the pairs are compared and the classes are taken.
THEOREM AnalysesAreExact == AnalysisSpec => []AnalysisExact
<1>1. AnalysisInit => AnalysisInv
  BY AnalysisInitial
<1>2. AnalysisInv /\ [AnalysisNext]_analysisVars => AnalysisInv'
  BY AnalysisKept
<1>3. AnalysisInv => AnalysisExact
  BY DEF AnalysisInv
<1> QED BY <1>1, <1>2, <1>3, PTL DEF AnalysisSpec

\* The process of the command line carries the analysis out and adds nothing to
\* it: every behaviour of the one is a behaviour of the other.
THEOREM CommandsAnalyze == LeanCliSpec => AnalysisSpec
<1>1. [LeanCliNext]_<<cliVars, analysisVars>> => [AnalysisNext]_analysisVars
  BY DEF LeanCliNext, StartAnalysis, EndAnalysis, AnalysisNext
<1> QED BY <1>1, PTL DEF LeanCliSpec, AnalysisSpec

\* What an `analyze` command reports is what is so.
THEOREM CommandsReportWhatIsSo == LeanCliSpec => []AnalysisExact
BY CommandsAnalyze, AnalysesAreExact, PTL
-------------------------------------------------------------------------------
(* EntityGenerator: whatever the plan and whatever is drawn, entities form a     *)
(* hierarchy that conforms to the schema, and policies link. That no entity is   *)
(* above itself rests on the order of the pool: parents come later.              *)

\* The first k elements of a sequence without repetition are k.
FirstOf(T, f, k, n) ==
  /\ n \in Nat /\ k \in 0..n
  /\ \A i, j \in 1..n : f[i] = f[j] => i = j
  /\ \A x : x \in T <=> \E i \in 1..k : f[i] = x

LEMMA FirstOnes ==
  ASSUME NEW T, NEW f, NEW k, NEW n, FirstOf(T, f, k, n)
  PROVE  Cardinality(T) = k
<1> DEFINE S == 1..k
           g == [i \in S |-> f[i]]
<1>1. IsFiniteSet(S) /\ Cardinality(S) = k
  BY FS_Interval DEF FirstOf
<1>2. g \in [S -> T]
  BY DEF FirstOf
<1>3. \A i, j \in S : g[i] = g[j] => i = j
  BY DEF FirstOf
<1>4. \A z \in T : \E i \in S : g[i] = z
  BY DEF FirstOf
<1> HIDE DEF g, S
<1>5. Cardinality(T) = Cardinality(S)
  BY <1>1, <1>2, <1>3, <1>4, SameSize
<1> QED BY <1>1, <1>5

\* The loop of Hierarchy::new over the uids, for one type.
PushesUpTo(f, order, ty, len) ==
  f = [n \in 0..len |->
         IF n = 0 THEN <<>>
         ELSE IF order[n].type = ty THEN Append(f[n - 1], order[n]) ELSE f[n - 1]]

LEMMA PushingEnds ==
  ASSUME NEW order, NEW ty, NEW len \in Nat
  PROVE  \E f : PushesUpTo(f, order, ty, len)
<1> DEFINE bad == {m \in Nat : ~\E f : PushesUpTo(f, order, ty, m)}
<1>1. ASSUME bad # {} PROVE FALSE
  <2>1. Min(bad) \in bad /\ \A y \in bad : Min(bad) <= y
    BY <1>1, LeastOf
  <2>2. PICK m \in Nat : m \in bad /\ \A y \in bad : m <= y
    BY <2>1
  <2>3. m # 0
    <3>1. PushesUpTo([n \in 0..0 |-> <<>>], order, ty, 0)
      BY DEF PushesUpTo
    <3> QED BY <2>2, <3>1
  <2>4. m - 1 \in Nat /\ m - 1 \notin bad
    BY <2>2, <2>3
  <2>5. PICK f : PushesUpTo(f, order, ty, m - 1)
    BY <2>4
  <2> DEFINE step(before) == IF order[m].type = ty THEN Append(before, order[m]) ELSE before
             g == [n \in 0..m |-> IF n = m THEN step(f[m - 1]) ELSE f[n]]
  <2>6. \A n \in 0..m - 1 :
          f[n] = IF n = 0 THEN <<>>
                 ELSE IF order[n].type = ty THEN Append(f[n - 1], order[n]) ELSE f[n - 1]
    BY <2>5 DEF PushesUpTo
  <2>7. g[m] = step(f[m - 1]) /\ \A n \in 0..m - 1 : g[n] = f[n]
    BY <2>3
  <2>8. \A n \in 0..m :
          g[n] = IF n = 0 THEN <<>>
                 ELSE IF order[n].type = ty THEN Append(g[n - 1], order[n]) ELSE g[n - 1]
    <3> SUFFICES ASSUME NEW n \in 0..m
                 PROVE  g[n] = IF n = 0 THEN <<>>
                               ELSE IF order[n].type = ty THEN Append(g[n - 1], order[n]) ELSE g[n - 1]
      OBVIOUS
    <3> HIDE DEF g
    <3>1. CASE n = m
      <4>1. g[n - 1] = f[m - 1]
        BY <2>3, <2>7, <3>1
      <4> QED BY <2>3, <2>7, <3>1, <4>1
    <3>2. CASE n # m /\ n # 0
      <4>1. n \in 0..m - 1 /\ n - 1 \in 0..m - 1
        BY <3>2
      <4>2. g[n] = f[n] /\ g[n - 1] = f[n - 1]
        BY <2>7, <4>1
      <4> QED BY <2>6, <3>2, <4>1, <4>2
    <3>3. CASE n # m /\ n = 0
      <4>1. n \in 0..m - 1
        BY <3>3
      <4>2. g[n] = f[n]
        BY <2>7, <4>1
      <4> QED BY <2>6, <3>3, <4>1, <4>2
    <3> QED BY <3>1, <3>2, <3>3
  <2>9. g = [n \in 0..m |->
               IF n = 0 THEN <<>>
               ELSE IF order[n].type = ty THEN Append(g[n - 1], order[n]) ELSE g[n - 1]]
    <3>1. g = [n \in 0..m |-> g[n]]
      OBVIOUS
    <3> HIDE DEF g
    <3> QED BY <2>8, <3>1
  <2> HIDE DEF g
  <2>10. PushesUpTo(g, order, ty, m)
    BY <2>9 DEF PushesUpTo
  <2> QED BY <2>2, <2>10
<1> QED BY <1>1

\* What the loop has pushed after n uids: those of the type, in order.
PushedSoFar(s, order, ty, n) ==
  /\ s \in Seq(Range(order))
  /\ \A i \in 1..Len(s) : s[i].type = ty /\ \E j \in 1..n : s[i] = order[j]
  /\ \A j \in 1..n : order[j].type = ty => \E i \in 1..Len(s) : s[i] = order[j]
  /\ \A i, k \in 1..Len(s) : \A j, l \in 1..n :
       i < k /\ s[i] = order[j] /\ s[k] = order[l] => j < l

LEMMA PushOne ==
  ASSUME NEW order, NEW N \in Nat, DOMAIN order = 1..N, IsInjective(order), NEW ty,
         NEW n \in 1..N, NEW s, PushedSoFar(s, order, ty, n - 1)
  PROVE  PushedSoFar(IF order[n].type = ty THEN Append(s, order[n]) ELSE s, order, ty, n)
<1>1. s \in Seq(Range(order)) /\ order[n] \in Range(order)
  BY DEF PushedSoFar, Range
<1>2. \A i, j \in 1..N : order[i] = order[j] => i = j
  BY DEF IsInjective
<1>3. \A i \in 1..Len(s) : s[i].type = ty /\ \E j \in 1..n - 1 : s[i] = order[j]
  BY DEF PushedSoFar
<1>4. \A j \in 1..n - 1 : order[j].type = ty => \E i \in 1..Len(s) : s[i] = order[j]
  BY DEF PushedSoFar
<1>5. \A i, k \in 1..Len(s) : \A j, l \in 1..n - 1 :
       i < k /\ s[i] = order[j] /\ s[k] = order[l] => j < l
  BY DEF PushedSoFar
<1>6. CASE order[n].type # ty
  <2>1. \A i \in 1..Len(s) : s[i].type = ty /\ \E j \in 1..n : s[i] = order[j]
    BY <1>3
  <2>2. \A j \in 1..n : order[j].type = ty => \E i \in 1..Len(s) : s[i] = order[j]
    BY <1>4, <1>6
  <2>3. \A i \in 1..Len(s) : \A j \in 1..n : s[i] = order[j] => j \in 1..n - 1
    BY <1>2, <1>3
  <2>4. \A i, k \in 1..Len(s) : \A j, l \in 1..n :
          i < k /\ s[i] = order[j] /\ s[k] = order[l] => j < l
    BY <1>5, <2>3
  <2> QED BY <1>1, <1>6, <2>1, <2>2, <2>4 DEF PushedSoFar
<1>7. CASE order[n].type = ty
  <2> DEFINE t == Append(s, order[n])
  <2>1. /\ t \in Seq(Range(order)) /\ Len(t) = Len(s) + 1 /\ Len(s) \in Nat
        /\ \A i \in 1..Len(s) : t[i] = s[i]
        /\ t[Len(s) + 1] = order[n]
    BY <1>1
  <2> HIDE DEF t
  <2>2. \A i \in 1..Len(t) : i = Len(s) + 1 \/ i \in 1..Len(s)
    BY <2>1
  <2>3. \A i \in 1..Len(t) : t[i].type = ty /\ \E j \in 1..n : t[i] = order[j]
    BY <1>3, <1>7, <2>1, <2>2
  <2>4. \A j \in 1..n : order[j].type = ty => \E i \in 1..Len(t) : t[i] = order[j]
    <3> SUFFICES ASSUME NEW j \in 1..n, order[j].type = ty
                 PROVE  \E i \in 1..Len(t) : t[i] = order[j]
      OBVIOUS
    <3>1. CASE j = n
      BY <2>1, <3>1
    <3>2. CASE j # n
      <4>1. PICK i \in 1..Len(s) : s[i] = order[j]
        BY <1>4, <3>2
      <4> QED BY <2>1, <4>1
    <3> QED BY <3>1, <3>2
  <2>5. \A i \in 1..Len(s) : \A j \in 1..n : t[i] = order[j] => j \in 1..n - 1
    BY <1>2, <1>3, <2>1
  <2>6. \A j \in 1..n : t[Len(s) + 1] = order[j] => j = n
    <3>1. \A j \in 1..n : j \in 1..N /\ n \in 1..N
      OBVIOUS
    <3> QED BY <1>2, <2>1, <3>1
  <2>7. \A i, k \in 1..Len(t) : \A j, l \in 1..n :
          i < k /\ t[i] = order[j] /\ t[k] = order[l] => j < l
    <3> SUFFICES ASSUME NEW i \in 1..Len(t), NEW k \in 1..Len(t), NEW j \in 1..n, NEW l \in 1..n,
                        i < k, t[i] = order[j], t[k] = order[l]
                 PROVE  j < l
      OBVIOUS
    <3>1. i \in 1..Len(s) /\ j \in 1..n - 1
      BY <2>1, <2>5
    <3>2. CASE k = Len(s) + 1
      BY <2>6, <3>1, <3>2
    <3>3. CASE k \in 1..Len(s)
      <4>1. l \in 1..n - 1
        BY <2>5, <3>3
      <4> QED BY <1>5, <2>1, <3>1, <3>3, <4>1
    <3> QED BY <2>2, <3>2, <3>3
  <2>8. PushedSoFar(t, order, ty, n)
    BY <2>1, <2>3, <2>4, <2>7 DEF PushedSoFar
  <2> QED BY <1>7, <2>8 DEF t
<1> QED BY <1>6, <1>7

\* The index of a type: its uids, in the order of the pool.
LEMMA IndexedInOrder ==
  ASSUME NEW order, NEW N \in Nat, DOMAIN order = 1..N, Len(order) = N, IsInjective(order), NEW ty
  PROVE  PushedSoFar(Pushed(order, ty), order, ty, N)
<1> DEFINE f == CHOOSE x : PushesUpTo(x, order, ty, N)
<1>1. PushesUpTo(f, order, ty, N)
  BY PushingEnds
<1>2. Pushed(order, ty) = f[N]
  BY DEF Pushed, PushesUpTo
<1> HIDE DEF f
<1>3. f[0] = <<>> /\ \A n \in 1..N : f[n] = IF order[n].type = ty THEN Append(f[n - 1], order[n]) ELSE f[n - 1]
  <2> DEFINE step(n) == IF n = 0 THEN <<>>
                        ELSE IF order[n].type = ty THEN Append(f[n - 1], order[n]) ELSE f[n - 1]
  <2>1. f = [n \in 0..N |-> step(n)]
    BY <1>1 DEF PushesUpTo
  <2>2. \A n \in 0..N : f[n] = step(n)
    <3> HIDE DEF step
    <3> QED BY <2>1
  <2>3. 0 \in 0..N /\ \A n \in 1..N : n \in 0..N /\ n # 0
    OBVIOUS
  <2> QED BY <2>2, <2>3
<1> DEFINE bad == {n \in 0..N : ~PushedSoFar(f[n], order, ty, n)}
<1>4. ASSUME bad # {} PROVE FALSE
  <2>1. Min(bad) \in bad /\ \A y \in bad : Min(bad) <= y
    <3>1. bad \subseteq Nat
      OBVIOUS
    <3> HIDE DEF bad
    <3> QED BY <1>4, <3>1, LeastOf
  <2>2. PICK n \in 0..N : n \in bad /\ \A y \in bad : n <= y
    BY <2>1
  <2>3. CASE n = 0
    <3>1. PushedSoFar(<<>>, order, ty, 0)
      BY DEF PushedSoFar
    <3> QED BY <1>3, <2>2, <2>3, <3>1
  <2>4. CASE n # 0
    <3>1. n \in 1..N /\ n - 1 \in 0..N /\ n - 1 \notin bad
      BY <2>2, <2>4
    <3>2. PushedSoFar(f[n - 1], order, ty, n - 1)
      BY <3>1
    <3>3. PushedSoFar(f[n], order, ty, n)
      BY <1>3, <3>1, <3>2, PushOne
    <3> QED BY <2>2, <3>3
  <2> QED BY <2>3, <2>4
<1>5. PushedSoFar(f[N], order, ty, N)
  BY <1>4
<1> QED BY <1>2, <1>5

\* A set of places that has all those before each of its own is a first part.
LEMMA FirstPart ==
  ASSUME NEW n \in Nat, NEW S, S \subseteq 1..n, \A i \in S : \A j \in 1..i : j \in S
  PROVE  S = 1..Cardinality(S) /\ Cardinality(S) \in 0..n
<1> DEFINE rest == {i \in 1..n + 1 : i \notin S}
<1>1. Min(rest) \in rest /\ \A y \in rest : Min(rest) <= y
  <2>1. n + 1 \in rest
    OBVIOUS
  <2> HIDE DEF rest
  <2>2. rest # {} /\ rest \subseteq Nat
    BY <2>1 DEF rest
  <2> QED BY <2>2, LeastOf
<1>2. PICK m \in 1..n + 1 : m \notin S /\ \A y \in rest : m <= y
  BY <1>1
<1>3. S = 1..m - 1
  <2>1. \A i \in 1..m - 1 : i \in S
    <3>1. \A i \in 1..m - 1 : i \in 1..n + 1 /\ ~(m <= i)
      OBVIOUS
    <3> QED BY <1>2, <3>1
  <2>2. \A i \in S : i \in 1..m - 1
    <3>1. \A i \in S : i < m
      <4> SUFFICES ASSUME NEW i \in S, ~(i < m) PROVE FALSE
        OBVIOUS
      <4>1. m \in 1..i
        OBVIOUS
      <4> QED BY <1>2, <4>1
    <3> QED BY <3>1
  <2> QED BY <2>1, <2>2
<1>4. Cardinality(1..m - 1) = m - 1
  <2>1. Cardinality(1..m - 1) = IF 1 > m - 1 THEN 0 ELSE m - 1 - 1 + 1
    BY FS_Interval
  <2> QED BY <2>1
<1> QED BY <1>3, <1>4

\* A set of places that is not empty has a last one.
LEMMA LastPlace ==
  ASSUME NEW n \in Nat, NEW S, S \subseteq 1..n, S # {}
  PROVE  \E m \in S : \A i \in S : i <= m
<1> DEFINE T == {n - i : i \in S}
<1>1. T \subseteq Nat /\ T # {}
  <2>1. \A i \in S : n - i \in Nat
    OBVIOUS
  <2>2. \A x \in T : \E i \in S : x = n - i
    OBVIOUS
  <2>3. PICK i \in S : TRUE
    OBVIOUS
  <2>4. n - i \in T
    BY <2>3
  <2> HIDE DEF T
  <2> QED BY <2>1, <2>2, <2>4
<1> HIDE DEF T
<1>2. PICK x \in T : \A y \in T : x <= y
  BY <1>1, LeastOf
<1>3. PICK m \in S : x = n - m
  BY DEF T
<1>4. \A i \in S : n - m <= n - i
  BY <1>2, <1>3 DEF T
<1> QED BY <1>3, <1>4

\* What the plans give.
LEMMA PlanFacts ==
  ASSUME plan \in Plans
  PROVE  /\ plan.types \in Seq(Range(plan.types)) /\ Len(plan.types) \in Nat
         /\ \A i, j \in 1..Len(plan.types) : plan.types[i] = plan.types[j] => i = j
         /\ plan.policies \in {"abac", "rbac", "set"}
         /\ plan.num[1] \in {"RangePerEntityType", "ExactlyPerEntityType", "Exactly"}
<1>1. plan.types \in Seq(Range(plan.types)) /\ IsInjective(plan.types)
  BY PlansAssumption
<1>2. DOMAIN plan.types = 1..Len(plan.types) /\ Len(plan.types) \in Nat
  BY <1>1
<1>3. \A i, j \in 1..Len(plan.types) : plan.types[i] = plan.types[j] => i = j
  BY <1>1, <1>2 DEF IsInjective
<1> QED BY <1>1, <1>2, <1>3, PlansAssumption

\* A new uid is of its type, and of an enumerated type a listed one.
LEMMA NewUidsFit ==
  ASSUME plan \in Plans, NEW ty
  PROVE  /\ IsFiniteSet(NewUids(ty))
         /\ \A u \in NewUids(ty) : u.type = ty /\ Listed(u)
<1> DEFINE E == IF EnumChoices(ty) = {} THEN plan.eids ELSE EnumChoices(ty)
           f == [e \in E |-> Uid(ty, e)]
<1>1. IsFiniteSet(E)
  BY PlansAssumption DEF EnumChoices, Known
<1>2. \A u \in NewUids(ty) : \E e \in E : u = Uid(ty, e)
  BY DEF NewUids
<1>3. Known(ty) /\ plan.schema[ty].kind = "Enum" => E = EnumChoices(ty)
  BY PlansAssumption DEF EnumChoices, Known
<1>4. \A e \in E : f[e] \in NewUids(ty)
  BY DEF NewUids
<1> HIDE DEF E
<1>5. f \in Surjection(E, NewUids(ty))
  BY <1>2, <1>4 DEF Surjection
<1>6. IsFiniteSet(NewUids(ty))
  BY <1>1, <1>5, FS_Surjection
<1>7. \A u \in NewUids(ty) : u.type = ty /\ u.eid \in E
  BY <1>2 DEF Uid
<1> QED BY <1>3, <1>6, <1>7 DEF Listed

\* What depends on the plan alone stays as it is.
LEMMA SamePlan ==
  ASSUME plan' = plan
  PROVE  /\ SchemaBased' <=> SchemaBased
         /\ \A ty : (Known(ty)' <=> Known(ty)) /\ NewUids(ty)' = NewUids(ty)
         /\ \A u : Listed(u)' <=> Listed(u)
         /\ \A u, e : Conforms(u, e)' <=> Conforms(u, e)
BY DEF SchemaBased, Known, NewUids, EnumChoices, Listed, Conforms, DeclaredAttrs, TagType

-------------------------------------------------------------------------------
(* The inductive invariant.                                                     *)

Building == {"entities", "policies", "adding"}

\* The types come in the order of the plan, each with uids of its own.
UidsGood ==
  \E n \in 0..Len(plan.types) :
    /\ DOMAIN uids = {plan.types[i] : i \in 1..n}
    /\ \A ty \in DOMAIN uids : uids[ty] \subseteq NewUids(ty)

\* The pool holds every uid once, and the index is that of the pool.
PoolGood ==
  /\ \A i, j \in 1..Len(pool) : pool[i] = pool[j] => i = j
  /\ byType = Index(pool, DOMAIN uids)
  /\ \A i \in 1..Len(pool) : pool[i].type \in DOMAIN uids /\ pool[i] \in NewUids(pool[i].type)

\* Entities are made in the order of the pool, with parents that come later.
Later(order, i) == {order[j] : j \in i + 1..Len(order)}
EntityFits(u, e, later) ==
  /\ e.parents \subseteq later
  /\ SchemaBased => Known(u.type) /\ Conforms(u, e)
EntitiesGood ==
  \E k \in 0..Len(pool) :
    /\ DOMAIN entities = {pool[i] : i \in 1..k}
    /\ genStage # "entities" => k = Len(pool)
    /\ \A i \in 1..k : EntityFits(pool[i], entities[pool[i]], Later(pool, i))

\* A template without slots has no links, a link fits its template, and the ids of
\* links are made from the number or from the id of their template.
IsTemplate(t) ==
  \E id, p, a, r : t = [id |-> id, principal |-> p, action |-> a, resource |-> r]
GroupFits(g, i, policies) ==
  /\ IsTemplate(g.template)
  /\ ~HasSlots(g.template) => DOMAIN g.links = {}
  /\ \A id \in DOMAIN g.links : LinkFits(g.template, g.links[id])
  /\ policies = "rbac" => /\ g.template.id = <<"p", i - 1>>
                          /\ \A id \in DOMAIN g.links : id[1] = "t" /\ id[2] = i - 1
  /\ policies # "rbac" => /\ g.template.id[1] = "id"
                          /\ \A id \in DOMAIN g.links : id = <<"link", g.template.id>>
GroupsGood ==
  /\ \E G : policyGroups \in Seq(G)
  /\ \A i \in 1..Len(policyGroups) : GroupFits(policyGroups[i], i, plan.policies)
  /\ \A i, j \in 1..Len(policyGroups) :
       policyGroups[i].template.id = policyGroups[j].template.id => i = j

\* The policy set holds the first groups, and no policy with a slot.
SetGood ==
  \E k \in 0..Len(policyGroups) :
    /\ DOMAIN policySet.templates = {policyGroups[i].template.id : i \in 1..k}
    /\ DOMAIN policySet.policies = UNION {IdsOf(policyGroups[i]) : i \in 1..k}
    /\ \A id \in DOMAIN policySet.policies :
         ~SlotIn(policySet.policies[id].principal) /\ ~SlotIn(policySet.policies[id].resource)

AskedGood ==
  SchemaBased =>
    \A q \in asked : /\ q[1].type \in plan.actions[q[2].eid].principals /\ Listed(q[1])
                     /\ q[3].type \in plan.actions[q[2].eid].resources /\ Listed(q[3])

GenInv ==
  /\ EntityTypeOK
  /\ UidsGood
  /\ IsFiniteSet(UNION Range(uids)) /\ pool \in Seq(UNION Range(uids))
  /\ genStage = "uids" => pool = <<>> /\ DOMAIN entities = {}
  /\ genStage \in Building => PoolGood /\ EntitiesGood
  /\ genStage = "panicked" => \E ty \in Range(plan.types) : SchemaBased /\ ~Known(ty)
  /\ GroupsGood
  /\ SetGood
  /\ AskedGood

LEMMA EntityInitial == EntityInit => GenInv
<1> SUFFICES ASSUME EntityInit PROVE GenInv
  OBVIOUS
<1> USE DEF EntityInit
<1>1. DOMAIN Nothing = {} /\ Range(Nothing) = {}
  BY DEF Nothing, Range
<1>2. UNION Range(uids) = {} /\ Range(pool) = {}
  BY <1>1 DEF Range
<1>3. EntityTypeOK
  BY <1>1, <1>2 DEF EntityTypeOK
<1>4. UidsGood
  <2>1. Len(plan.types) \in Nat
    BY PlanFacts
  <2> QED BY <1>1, <2>1 DEF UidsGood
<1>5. IsFiniteSet(UNION Range(uids)) /\ pool \in Seq(UNION Range(uids))
  <2>1. IsFiniteSet({})
    BY FS_EmptySet
  <2>2. pool \in Seq({})
    OBVIOUS
  <2>3. UNION Range(uids) = {}
    BY <1>2
  <2> HIDE DEF EntityInit
  <2> QED BY <2>1, <2>2, <2>3
<1>6. GroupsGood
  <2>1. policyGroups \in Seq({}) /\ Len(policyGroups) = 0
    OBVIOUS
  <2> QED BY <2>1 DEF GroupsGood
<1>7. SetGood
  BY <1>1 DEF SetGood
<1>8. AskedGood
  BY DEF AskedGood
<1> QED BY <1>1, <1>3, <1>4, <1>5, <1>6, <1>7, <1>8 DEF GenInv, Building

-------------------------------------------------------------------------------
(* What no step disturbs, and what holds of the pool once it is shuffled.        *)

LEMMA UidsStay ==
  ASSUME plan' = plan, uids' = uids, UidsGood
  PROVE  UidsGood'
BY SamePlan DEF UidsGood

LEMMA PoolStays ==
  ASSUME plan' = plan, uids' = uids, pool' = pool, byType' = byType, PoolGood
  PROVE  PoolGood'
BY SamePlan DEF PoolGood, Index

LEMMA EntitiesStay ==
  ASSUME plan' = plan, pool' = pool, entities' = entities, EntitiesGood,
         genStage' # "entities" => genStage # "entities"
  PROVE  EntitiesGood'
<1>1. \A u, e, later : EntityFits(u, e, later)' <=> EntityFits(u, e, later)
  BY SamePlan DEF EntityFits
<1>2. PICK k \in 0..Len(pool) :
        /\ DOMAIN entities = {pool[i] : i \in 1..k}
        /\ genStage # "entities" => k = Len(pool)
        /\ \A i \in 1..k : EntityFits(pool[i], entities[pool[i]], Later(pool, i))
  BY DEF EntitiesGood
<1>3. (\A i \in 1..k : EntityFits(pool[i], entities[pool[i]], Later(pool, i)))'
  <2> SUFFICES ASSUME NEW i \in 1..k PROVE EntityFits(pool[i], entities[pool[i]], Later(pool, i))'
    OBVIOUS
  <2>1. PICK u, e, later : u = pool[i] /\ e = entities[pool[i]] /\ later = Later(pool, i)
    OBVIOUS
  <2>2. EntityFits(u, e, later)'
    BY <1>1, <1>2, <2>1
  <2>3. u = pool'[i] /\ e = entities'[pool'[i]] /\ later = Later(pool', i)
    BY <2>1
  <2> QED BY <2>2, <2>3
<1>4. k \in 0..Len(pool') /\ DOMAIN entities' = {pool'[i] : i \in 1..k}
  BY <1>2
<1>5. genStage' # "entities" => k = Len(pool')
  BY <1>2
<1> QED BY <1>3, <1>4, <1>5 DEF EntitiesGood

LEMMA GroupsStay ==
  ASSUME plan' = plan, policyGroups' = policyGroups, GroupsGood
  PROVE  GroupsGood'
BY DEF GroupsGood

LEMMA SetStays ==
  ASSUME policyGroups' = policyGroups, policySet' = policySet, SetGood
  PROVE  SetGood'
BY DEF SetGood

LEMMA AskedStays ==
  ASSUME plan' = plan, asked' = asked, AskedGood
  PROVE  AskedGood'
BY SamePlan DEF AskedGood

\* An uid is where IndexOf says.
LEMMA Places ==
  ASSUME PoolGood, pool \in Seq(UNION Range(uids))
  PROVE  /\ Len(pool) \in Nat /\ DOMAIN pool = 1..Len(pool) /\ IsInjective(pool)
         /\ \A i \in 1..Len(pool) : IndexOf(pool[i]) = i
<1>1. Len(pool) \in Nat /\ DOMAIN pool = 1..Len(pool)
  OBVIOUS
<1>2. \A i, j \in 1..Len(pool) : pool[i] = pool[j] => i = j
  BY DEF PoolGood
<1>3. IsInjective(pool)
  BY <1>1, <1>2 DEF IsInjective
<1>4. \A i \in 1..Len(pool) : IndexOf(pool[i]) = i
  BY <1>1, <1>2 DEF IndexOf
<1> QED BY <1>1, <1>3, <1>4

\* The index of a type holds its uids, in the order of the pool.
LEMMA IndexGood ==
  ASSUME PoolGood, pool \in Seq(UNION Range(uids)), NEW ty \in DOMAIN byType
  PROVE  PushedSoFar(byType[ty], pool, ty, Len(pool)) /\ DOMAIN byType = DOMAIN uids
<1>1. byType[ty] = Pushed(pool, ty) /\ DOMAIN byType = DOMAIN uids
  BY DEF PoolGood, Index
<1>2. PushedSoFar(Pushed(pool, ty), pool, ty, Len(pool))
  BY Places, IndexedInOrder
<1> QED BY <1>1, <1>2

\* The uids of a type, whether they are in the pool or new.
LEMMA TypedUids ==
  ASSUME plan \in Plans, PoolGood, pool \in Seq(UNION Range(uids)), NEW ty, NEW u \in UidsWithType(ty)
  PROVE  u.type = ty /\ Listed(u)
<1>1. CASE u \in NewUids(ty)
  BY <1>1, NewUidsFit
<1>2. CASE ty \in DOMAIN byType /\ u \in Range(byType[ty])
  <2> DEFINE s == byType[ty]
  <2>1. PushedSoFar(s, pool, ty, Len(pool))
    BY <1>2, IndexGood
  <2>2. PICK i \in DOMAIN s : u = s[i]
    BY <1>2 DEF Range
  <2>3. s \in Seq(Range(pool))
    BY <2>1 DEF PushedSoFar
  <2>4. i \in 1..Len(s)
    BY <2>2, <2>3
  <2>5. u.type = ty /\ \E j \in 1..Len(pool) : u = pool[j]
    BY <2>1, <2>2, <2>4 DEF PushedSoFar
  <2>6. u \in NewUids(u.type)
    BY <2>5 DEF PoolGood
  <2> QED BY <2>5, <2>6, NewUidsFit
<1> QED BY <1>1, <1>2 DEF UidsWithType

\* A value is of the type it is made for, with listed uids.
LEMMA ValuesFit ==
  ASSUME plan \in Plans, PoolGood, pool \in Seq(UNION Range(uids)), NEW ty, NEW v \in ValuesOf(ty)
  PROVE  OfType(v, ty) /\ \A x \in v.uids : Listed(x)
<1> DEFINE found == UNION {UidsWithType(x) : x \in ty.of}
<1>1. \A u \in found : u.type \in ty.of /\ Listed(u)
  BY TypedUids
<1> HIDE DEF found
<1>2. PICK S \in (IF ty.kind = "Entity" THEN {{u} : u \in found} ELSE SUBSET found) :
        v = [ty |-> ty, uids |-> S]
  BY DEF ValuesOf, found
<1>3. S \subseteq found
  BY <1>2
<1>4. ty.kind = "Entity" => \E u \in S : S = {u}
  BY <1>2
<1>5. v.ty = ty /\ v.uids = S
  BY <1>2
<1> QED BY <1>1, <1>3, <1>4, <1>5 DEF OfType

\* Candidates for parents come later in the pool.
LEMMA LaterOnly ==
  ASSUME PoolGood, pool \in Seq(UNION Range(uids)), NEW m \in 1..Len(pool), NEW ty,
         NEW p \in UidsForType(ty, pool[m])
  PROVE  p.type = ty /\ p \in Later(pool, m)
<1>1. ty \in DOMAIN byType
  BY DEF UidsForType
<1> DEFINE s == byType[ty]
           before == {i \in 1..Len(s) : IndexOf(s[i]) <= IndexOf(pool[m])}
           c == Cardinality(before)
<1>2. /\ s \in Seq(Range(pool)) /\ Len(s) \in Nat /\ DOMAIN s = 1..Len(s)
      /\ \A i \in 1..Len(s) : s[i].type = ty /\ \E j \in 1..Len(pool) : s[i] = pool[j]
      /\ \A i, k \in 1..Len(s) : \A j, l \in 1..Len(pool) :
           i < k /\ s[i] = pool[j] /\ s[k] = pool[l] => j < l
  <2>1. PushedSoFar(s, pool, ty, Len(pool))
    BY <1>1, IndexGood
  <2>2. s \in Seq(Range(pool))
    BY <2>1 DEF PushedSoFar
  <2> QED BY <2>1, <2>2 DEF PushedSoFar
<1>3. p \in Range(SubSeq(s, c + 1, Len(s)))
  BY <1>1, <1>2 DEF UidsForType
<1>4. /\ Len(pool) \in Nat
      /\ \A i \in 1..Len(pool) : IndexOf(pool[i]) = i
  BY Places
<1>5. \A i \in 1..Len(s) : IndexOf(s[i]) \in 1..Len(pool) /\ s[i] = pool[IndexOf(s[i])]
  BY <1>2, <1>4
<1>6. before = 1..c /\ c \in 0..Len(s)
  <2>1. before \subseteq 1..Len(s)
    OBVIOUS
  <2>2. \A i \in before : \A j \in 1..i : j \in before
    <3> SUFFICES ASSUME NEW i \in before, NEW j \in 1..i, j # i PROVE j \in before
      OBVIOUS
    <3>1. j \in 1..Len(s) /\ j < i
      BY <1>2
    <3>2. IndexOf(s[j]) < IndexOf(s[i])
      BY <1>2, <1>5, <3>1
    <3>3. IndexOf(s[j]) <= IndexOf(pool[m])
      <4>1. IndexOf(s[i]) <= IndexOf(pool[m]) /\ i \in 1..Len(s)
        OBVIOUS
      <4>2. IndexOf(s[i]) \in 1..Len(pool) /\ IndexOf(s[j]) \in 1..Len(pool)
        BY <1>5, <3>1, <4>1
      <4>3. IndexOf(pool[m]) = m
        BY <1>4
      <4> HIDE DEF s, before
      <4> QED BY <1>4, <3>2, <4>1, <4>2, <4>3
    <3> QED BY <3>1, <3>3
  <2> HIDE DEF before, s
  <2> QED BY <1>2, <2>1, <2>2, FirstPart
<1> HIDE DEF s, c
<1>7. PICK i \in c + 1..Len(s) : p = s[i]
  <2>1. SubSeq(s, c + 1, Len(s)) = [i \in 1..Len(s) - c |-> s[c + i]]
    BY <1>2, <1>6
  <2> DEFINE r == SubSeq(s, c + 1, Len(s))
  <2>2. DOMAIN r = 1..Len(s) - c /\ \A i \in 1..Len(s) - c : r[i] = s[c + i]
    BY <2>1
  <2>3. p \in Range(r)
    BY <1>3
  <2> HIDE DEF r
  <2>4. PICK i \in 1..Len(s) - c : p = s[c + i]
    <3>1. PICK i \in DOMAIN r : p = r[i]
      BY <2>3 DEF Range
    <3> QED BY <2>2, <3>1
  <2>5. c \in Nat /\ Len(s) \in Nat
    BY <1>2, <1>6
  <2>6. c + i \in c + 1..Len(s)
    BY <2>4, <2>5
  <2> QED BY <2>4, <2>6
<1>8. i \in 1..Len(s) /\ i \notin before
  <2>1. c \in Nat /\ Len(s) \in Nat
    BY <1>2, <1>6
  <2> QED BY <1>6, <1>7, <2>1
<1>9. IndexOf(s[i]) \in m + 1..Len(pool)
  BY <1>4, <1>5, <1>8
<1> QED BY <1>2, <1>5, <1>7, <1>8, <1>9 DEF Later

-------------------------------------------------------------------------------
(* One lemma per action.                                                         *)

LEMMA GenerateUidsKeeps ==
  ASSUME GenInv, GenerateUids
  PROVE  GenInv'
<1>1. /\ plan' = plan /\ pool' = pool /\ byType' = byType /\ entities' = entities
      /\ policyGroups' = policyGroups /\ policySet' = policySet /\ asked' = asked
  BY DEF GenerateUids, Stay
<1>2. /\ EntityTypeOK /\ UidsGood /\ IsFiniteSet(UNION Range(uids))
      /\ pool = <<>> /\ DOMAIN entities = {} /\ genStage = "uids"
  BY DEF GenInv, GenerateUids
<1>3. plan \in Plans
  BY <1>2 DEF EntityTypeOK
<1>4. GroupsGood' /\ SetGood' /\ AskedGood'
  BY <1>1, GroupsStay, SetStays, AskedStays DEF GenInv
<1>5. Range(pool') = {} /\ pool' = <<>> /\ pool' \in Seq(UNION Range(uids'))
  <2>1. Range(<<>>) = {}
    BY DEF Range
  <2>2. pool' = <<>>
    BY <1>1, <1>2
  <2> DEFINE U == UNION Range(uids')
  <2>3. <<>> \in Seq(U)
    OBVIOUS
  <2> QED BY <2>1, <2>2, <2>3
<1> DEFINE ty == NextType
<1>6. CASE Draws(ty) = {}
  <2>1. uids' = uids /\ genStage' \in {"spinning", "failed"}
    BY <1>6 DEF GenerateUids
  <2>2. EntityTypeOK'
    BY <1>1, <1>2, <2>1 DEF EntityTypeOK
  <2>3. UidsGood'
    BY <1>1, <1>2, <1>3, <2>1, UidsStay
  <2> QED BY <1>1, <1>2, <1>4, <1>5, <2>1, <2>2, <2>3 DEF GenInv, Building
<1>7. CASE Draws(ty) # {}
  <2>1. PICK S \in Draws(ty) :
          uids' = [x \in DOMAIN uids \cup {ty} |-> IF x = ty THEN S ELSE uids[x]]
    BY <1>7 DEF GenerateUids
  <2>2. S \subseteq NewUids(ty) /\ genStage' = "uids"
    <3>1. genStage' = "uids"
      BY <1>2, <1>7 DEF GenerateUids
    <3>2. S \subseteq NewUids(ty)
      BY <1>3, <2>1, PlanFacts DEF Draws
    <3> QED BY <3>1, <3>2
  <2>3. PICK n \in 0..Len(plan.types) :
          /\ DOMAIN uids = {plan.types[i] : i \in 1..n}
          /\ \A x \in DOMAIN uids : uids[x] \subseteq NewUids(x)
    BY <1>2 DEF UidsGood
  <2>4. Cardinality(DOMAIN uids) = n
    <3>1. Len(plan.types) \in Nat /\ \A i, j \in 1..Len(plan.types) : plan.types[i] = plan.types[j] => i = j
      BY <1>3, PlanFacts
    <3>2. n \in 0..Len(plan.types) /\ \A x : x \in DOMAIN uids <=> \E i \in 1..n : plan.types[i] = x
      BY <2>3
    <3>3. FirstOf(DOMAIN uids, plan.types, n, Len(plan.types))
      BY <3>1, <3>2 DEF FirstOf
    <3> QED BY <3>3, FirstOnes
  <2>5. ty = plan.types[n + 1] /\ n + 1 \in 0..Len(plan.types) /\ Len(plan.types) \in Nat
    <3>1. n < Len(plan.types)
      BY <2>4 DEF GenerateUids
    <3> QED BY <1>3, <2>4, <3>1, PlanFacts DEF NextType
  <2> HIDE DEF ty
  <2>6. DOMAIN uids' = {plan.types[i] : i \in 1..n + 1}
    BY <2>1, <2>3, <2>5
  <2>7. \A x \in DOMAIN uids' : uids'[x] \subseteq NewUids(x)
    BY <2>1, <2>2, <2>3
  <2>8. UidsGood'
    <3>1. \A x : NewUids(x)' = NewUids(x)
      BY <1>1, SamePlan
    <3> QED BY <1>1, <2>5, <2>6, <2>7, <3>1 DEF UidsGood
  <2>9. IsFiniteSet(UNION Range(uids'))
    <3>1. IsFiniteSet(S)
      BY <1>3, <2>2, NewUidsFit, FS_Subset
    <3>2. IsFiniteSet((UNION Range(uids)) \cup S)
      BY <1>2, <3>1, FS_Union
    <3>3. UNION Range(uids') \subseteq (UNION Range(uids)) \cup S
      BY <2>1 DEF Range
    <3> QED BY <3>2, <3>3, FS_Subset
  <2>10. ty \in Range(plan.types)
    BY <1>3, <2>5, PlanFacts DEF Range
  <2>11. EntityTypeOK'
    BY <1>1, <1>2, <1>5, <2>1, <2>2, <2>10 DEF EntityTypeOK
  <2> QED BY <1>1, <1>2, <1>4, <1>5, <2>2, <2>8, <2>9, <2>11 DEF GenInv, Building
<1> QED BY <1>6, <1>7

LEMMA ShuffleKeeps ==
  ASSUME GenInv, Shuffle
  PROVE  GenInv'
<1>1. /\ plan' = plan /\ uids' = uids /\ entities' = entities /\ genStage' = "entities"
      /\ policyGroups' = policyGroups /\ policySet' = policySet /\ asked' = asked
  BY DEF Shuffle, Stay
<1> DEFINE U == UNION Range(uids)
<1>2. EntityTypeOK /\ UidsGood /\ IsFiniteSet(U) /\ DOMAIN entities = {}
  BY DEF GenInv, Shuffle
<1>3. plan \in Plans
  BY <1>2 DEF EntityTypeOK
<1>4. GroupsGood' /\ SetGood' /\ AskedGood' /\ UidsGood'
  BY <1>1, <1>2, <1>3, GroupsStay, SetStays, AskedStays, UidsStay DEF GenInv
<1>5. pool' \in SetToSeqs(U) /\ byType' = Index(pool', DOMAIN uids)
  BY DEF Shuffle
<1>6. /\ pool' \in [1..Cardinality(U) -> U]
      /\ \A i, j \in 1..Cardinality(U) : i # j => pool'[i] # pool'[j]
  BY <1>5 DEF SetToSeqs
<1>7. \A u \in U : u.type \in DOMAIN uids /\ u \in NewUids(u.type)
  <2> SUFFICES ASSUME NEW u \in U PROVE u.type \in DOMAIN uids /\ u \in NewUids(u.type)
    OBVIOUS
  <2>1. PICK ty \in DOMAIN uids : u \in uids[ty]
    BY DEF Range
  <2>2. u \in NewUids(ty)
    BY <1>2, <2>1 DEF UidsGood
  <2> QED BY <1>3, <2>1, <2>2, NewUidsFit
<1>8. Cardinality(U) \in Nat
  BY <1>2, FS_CardinalityType
<1> HIDE DEF U
<1>9. pool' \in Seq(U) /\ Len(pool') = Cardinality(U) /\ Range(pool') \subseteq U
  BY <1>6, <1>8 DEF Range
<1>10. PoolGood'
  <2>1. \A i, j \in 1..Len(pool') : pool'[i] = pool'[j] => i = j
    BY <1>6, <1>9
  <2>2. \A i \in 1..Len(pool') : pool'[i].type \in DOMAIN uids' /\ pool'[i] \in NewUids(pool'[i].type)
    BY <1>1, <1>6, <1>7, <1>9
  <2>3. \A x : NewUids(x)' = NewUids(x)
    BY <1>1, SamePlan
  <2>4. \A i \in 1..Len(pool') : (pool[i] \in NewUids(pool[i].type))'
    <3> SUFFICES ASSUME NEW i \in 1..Len(pool') PROVE (pool[i] \in NewUids(pool[i].type))'
      OBVIOUS
    <3>1. PICK x : x = pool'[i].type
      OBVIOUS
    <3>2. NewUids(x)' = NewUids(x) /\ pool'[i] \in NewUids(x)
      BY <2>2, <2>3, <3>1
    <3> QED BY <3>1, <3>2
  <2> QED BY <1>1, <1>5, <2>1, <2>2, <2>4 DEF PoolGood
<1>11. EntitiesGood'
  <2>1. DOMAIN entities' = {} /\ 0 \in 0..Len(pool')
    BY <1>1, <1>2, <1>8, <1>9
  <2> QED BY <1>1, <2>1 DEF EntitiesGood
<1>12. DOMAIN byType' = DOMAIN uids
  BY <1>5 DEF Index
<1>13. EntityTypeOK'
  BY <1>1, <1>2, <1>9, <1>12 DEF EntityTypeOK, U
<1>14. IsFiniteSet(UNION Range(uids')) /\ pool' \in Seq(UNION Range(uids'))
  BY <1>1, <1>2, <1>9 DEF U
<1> QED BY <1>1, <1>4, <1>10, <1>11, <1>13, <1>14 DEF GenInv, Building

\* A step that only moves on keeps the rest.
LEMMA MovingOnKeeps ==
  ASSUME GenInv, UNCHANGED <<plan, uids, pool, byType, entities>>, Stay,
         genStage \in Building, genStage' \in {"policies", "adding", "failed"},
         genStage = "entities" => DOMAIN entities = Range(pool)
  PROVE  GenInv'
<1>1. /\ plan' = plan /\ uids' = uids /\ pool' = pool /\ byType' = byType /\ entities' = entities
      /\ policyGroups' = policyGroups /\ policySet' = policySet /\ asked' = asked
  BY DEF Stay
<1>2. /\ EntityTypeOK /\ UidsGood /\ PoolGood /\ EntitiesGood
      /\ IsFiniteSet(UNION Range(uids)) /\ pool \in Seq(UNION Range(uids))
  BY DEF GenInv
<1>3. plan \in Plans
  BY <1>2 DEF EntityTypeOK
<1>4. GroupsGood' /\ SetGood' /\ AskedGood' /\ UidsGood' /\ PoolGood'
  BY <1>1, <1>2, <1>3, GroupsStay, SetStays, AskedStays, UidsStay, PoolStays DEF GenInv
<1>5. EntitiesGood'
  <2>1. PICK k \in 0..Len(pool) :
          /\ DOMAIN entities = {pool[i] : i \in 1..k}
          /\ genStage # "entities" => k = Len(pool)
          /\ \A i \in 1..k : EntityFits(pool[i], entities[pool[i]], Later(pool, i))
    BY <1>2 DEF EntitiesGood
  <2>2. k = Len(pool)
    <3> SUFFICES ASSUME DOMAIN entities = Range(pool), k # Len(pool) PROVE FALSE
      BY <2>1
    <3>0. Len(pool) \in Nat /\ DOMAIN pool = 1..Len(pool)
      BY <1>2, Places
    <3>1. k + 1 \in 1..Len(pool) /\ DOMAIN pool = 1..Len(pool)
      <4>1. k \in 0..Len(pool) /\ k # Len(pool) /\ Len(pool) \in Nat
        BY <2>1, <3>0
      <4>2. k + 1 \in 1..Len(pool)
        BY <4>1
      <4> QED BY <3>0, <4>2
    <3>2. pool[k + 1] \in DOMAIN entities
      BY <3>1 DEF Range
    <3>3. PICK i \in 1..k : pool[i] = pool[k + 1]
      BY <2>1, <3>2
    <3>4. i \in 1..Len(pool) /\ i # k + 1
      <4>1. Len(pool) \in Nat /\ k \in 0..Len(pool) /\ i \in 1..k
        BY <2>1, <3>0, <3>3
      <4> QED BY <4>1
    <3> QED BY <1>2, <3>1, <3>3, <3>4 DEF PoolGood
  <2>3. \A u, e, later : EntityFits(u, e, later)' <=> EntityFits(u, e, later)
    BY <1>1, SamePlan DEF EntityFits
  <2>4. (\A i \in 1..k : EntityFits(pool[i], entities[pool[i]], Later(pool, i)))'
    <3> SUFFICES ASSUME NEW i \in 1..k PROVE EntityFits(pool[i], entities[pool[i]], Later(pool, i))'
      OBVIOUS
    <3>1. PICK u, e, later : u = pool[i] /\ e = entities[pool[i]] /\ later = Later(pool, i)
      OBVIOUS
    <3>2. EntityFits(u, e, later)'
      BY <2>1, <2>3, <3>1
    <3>3. u = pool'[i] /\ e = entities'[pool'[i]] /\ later = Later(pool', i)
      BY <1>1, <3>1
    <3> QED BY <3>2, <3>3
  <2>5. k \in 0..Len(pool') /\ DOMAIN entities' = {pool'[i] : i \in 1..k} /\ k = Len(pool')
    BY <1>1, <2>1, <2>2
  <2> QED BY <2>4, <2>5 DEF EntitiesGood
<1>6. EntityTypeOK'
  BY <1>1, <1>2 DEF EntityTypeOK
<1> QED BY <1>1, <1>2, <1>4, <1>5, <1>6 DEF GenInv, Building

LEMMA EndsKeep ==
  ASSUME GenInv, EndHierarchy \/ EndPolicies \/ NoUidToChoose
  PROVE  GenInv'
<1>1. UNCHANGED <<plan, uids, pool, byType, entities>> /\ Stay
  BY DEF EndHierarchy, EndPolicies, NoUidToChoose
<1>2. genStage \in Building /\ genStage' \in {"policies", "adding", "failed"}
  BY DEF EndHierarchy, EndPolicies, NoUidToChoose, Building
<1>3. genStage = "entities" => DOMAIN entities = Range(pool)
  BY DEF EndHierarchy, EndPolicies, NoUidToChoose
<1> QED BY <1>1, <1>2, <1>3, MovingOnKeeps

\* Attributes conform to what is declared, and so do tags.
LEMMA AttributesFit ==
  ASSUME plan \in Plans, PoolGood, pool \in Seq(UNION Range(uids)), NEW ty, NEW attrs \in Attributes(ty)
  PROVE  /\ \A a \in DOMAIN DeclaredAttrs(ty) :
              IF a \in DOMAIN attrs
                THEN \/ OfType(attrs[a], DeclaredAttrs(ty)[a].ty)
                     \/ plan.schema[ty].open /\ ~DeclaredAttrs(ty)[a].required
                ELSE ~DeclaredAttrs(ty)[a].required
         /\ \A v \in Range(attrs) : \A x \in v.uids : Listed(x)
<1> DEFINE declared == DeclaredAttrs(ty)
           required == {a \in DOMAIN declared : declared[a].required}
           extra == IF plan.schema[ty].open THEN plan.extraAttrs ELSE {}
<1>1. PICK x \in (SUBSET extra) \X {S \in SUBSET DOMAIN declared : required \subseteq S} :
        attrs \in AttributesOf(declared, x[1], x[2])
  BY DEF Attributes
<1> DEFINE more == x[1]
           present == x[2]
<1>2. more \subseteq extra /\ present \subseteq DOMAIN declared /\ required \subseteq present
  BY <1>1
<1>3. attrs \in AttributesOf(declared, more, present)
  BY <1>1
<1> HIDE DEF more, present
<1>4. /\ DOMAIN attrs = more \cup present
      /\ \A a \in more \cup present :
           attrs[a] \in (IF a \in present THEN ValuesOf(declared[a].ty) ELSE AnyValue)
  BY <1>3 DEF AttributesOf
<1>5. ASSUME NEW a \in more \cup present PROVE \E t : attrs[a] \in ValuesOf(t)
  <2>1. CASE a \in present
    BY <1>4, <2>1
  <2>2. CASE a \notin present
    <3>1. attrs[a] \in AnyValue
      BY <1>4, <2>2
    <3>2. PICK t \in plan.extraTypes : attrs[a] \in ValuesOf(t)
      BY <3>1 DEF AnyValue
    <3> QED BY <3>2
  <2> QED BY <2>1, <2>2
<1>6. \A v \in Range(attrs) : \E t : v \in ValuesOf(t)
  BY <1>4, <1>5 DEF Range
<1>7. \A v \in Range(attrs) : \A y \in v.uids : Listed(y)
  BY <1>6, ValuesFit
<1>8. \A a \in present : OfType(attrs[a], declared[a].ty)
  BY <1>4, ValuesFit
<1>9. \A a \in DOMAIN declared : a \notin present => ~declared[a].required
  BY <1>2
<1>10. \A a \in more : plan.schema[ty].open
  BY <1>2
<1> QED BY <1>4, <1>7, <1>8, <1>9, <1>10

LEMMA TagsFit ==
  ASSUME plan \in Plans, PoolGood, pool \in Seq(UNION Range(uids)), NEW ty, NEW tags \in Tags(ty)
  PROVE  /\ \A k \in DOMAIN tags : OfType(tags[k], TagType(ty)[1])
         /\ \A v \in Range(tags) : \A x \in v.uids : Listed(x)
<1>1. CASE TagType(ty) = <<>>
  <2>1. DOMAIN tags = {}
    BY <1>1 DEF Tags, Nothing
  <2> QED BY <2>1 DEF Range
<1>2. CASE TagType(ty) # <<>>
  <2>1. PICK keys \in SUBSET plan.tagKeys : tags \in [keys -> ValuesOf(TagType(ty)[1])]
    BY <1>2 DEF Tags
  <2>2. \A k \in DOMAIN tags : tags[k] \in ValuesOf(TagType(ty)[1])
    BY <2>1
  <2> QED BY <2>2, ValuesFit DEF Range
<1> QED BY <1>1, <1>2

\* What is drawn for an entity fits its place in the pool.
LEMMA NewEntityFits ==
  ASSUME plan \in Plans, PoolGood, pool \in Seq(UNION Range(uids)), NEW m \in 1..Len(pool),
         SchemaBased => Known(pool[m].type), NEW parents \in SUBSET PossibleParents(pool[m]),
         NEW attrs \in (IF SchemaBased THEN Attributes(pool[m].type) ELSE {Nothing}),
         NEW tags \in (IF SchemaBased THEN Tags(pool[m].type) ELSE {Nothing})
  PROVE  EntityFits(pool[m], [parents |-> parents, attrs |-> attrs, tags |-> tags], Later(pool, m))
<1> DEFINE u == pool[m]
           e == [parents |-> parents, attrs |-> attrs, tags |-> tags]
<1>1. e.parents = parents /\ e.attrs = attrs /\ e.tags = tags
  OBVIOUS
<1>2. CASE ~SchemaBased
  <2>1. PossibleParents(u) = Range(SubSeq(pool, m + 1, Len(pool)))
    BY <1>2, Places DEF PossibleParents, UidsAfter
  <2>2. Len(pool) \in Nat
    BY Places
  <2>3. SubSeq(pool, m + 1, Len(pool)) = [i \in 1..Len(pool) - m |-> pool[m + i]]
    BY <2>2
  <2>4. \A p \in PossibleParents(u) : p \in Later(pool, m)
    <3> SUFFICES ASSUME NEW p \in PossibleParents(u) PROVE p \in Later(pool, m)
      OBVIOUS
    <3>1. PICK i \in 1..Len(pool) - m : p = pool[m + i]
      BY <2>1, <2>3 DEF Range
    <3>2. m + i \in m + 1..Len(pool)
      BY <2>2
    <3> QED BY <3>1, <3>2 DEF Later
  <2> HIDE DEF e, u
  <2> QED BY <1>1, <1>2, <2>4 DEF EntityFits, u, e
<1>3. CASE SchemaBased
  <2>1. \A p \in parents : p \in Later(pool, m) /\ p.type \in plan.schema[u.type].parents
    <3> SUFFICES ASSUME NEW p \in parents
                 PROVE  p \in Later(pool, m) /\ p.type \in plan.schema[u.type].parents
      OBVIOUS
    <3>1. PICK ty \in AllowedParents(u.type) : p \in UidsForType(ty, u)
      BY <1>3 DEF PossibleParents
    <3>2. p.type = ty /\ p \in Later(pool, m)
      BY <3>1, LaterOnly
    <3>3. ty \in plan.schema[u.type].parents
      BY <3>1 DEF AllowedParents
    <3> QED BY <3>2, <3>3
  <2>2. attrs \in Attributes(u.type) /\ tags \in Tags(u.type)
    BY <1>3
  <2> HIDE DEF u, e
  <2>3. Conforms(u, e)
    <3>1. \A a \in DOMAIN DeclaredAttrs(u.type) :
              IF a \in DOMAIN attrs
                THEN \/ OfType(attrs[a], DeclaredAttrs(u.type)[a].ty)
                     \/ plan.schema[u.type].open /\ ~DeclaredAttrs(u.type)[a].required
                ELSE ~DeclaredAttrs(u.type)[a].required
      BY <2>2, AttributesFit
    <3>2. \A v \in Range(attrs) : \A x \in v.uids : Listed(x)
      BY <2>2, AttributesFit
    <3>3. /\ \A k \in DOMAIN tags : OfType(tags[k], TagType(u.type)[1])
          /\ \A v \in Range(tags) : \A x \in v.uids : Listed(x)
      BY <2>2, TagsFit
    <3> QED BY <1>1, <2>1, <3>1, <3>2, <3>3 DEF Conforms
  <2> QED BY <1>1, <1>3, <2>1, <2>3 DEF EntityFits, u, e
<1> QED BY <1>2, <1>3

LEMMA GenerateEntityKeeps ==
  ASSUME GenInv, GenerateEntity
  PROVE  GenInv'
<1>1. /\ plan' = plan /\ uids' = uids /\ pool' = pool /\ byType' = byType
      /\ policyGroups' = policyGroups /\ policySet' = policySet /\ asked' = asked
  BY DEF GenerateEntity, Stay
<1>2. /\ EntityTypeOK /\ UidsGood /\ PoolGood /\ EntitiesGood /\ genStage = "entities"
      /\ IsFiniteSet(UNION Range(uids)) /\ pool \in Seq(UNION Range(uids))
  BY DEF GenInv, GenerateEntity, Building
<1>3. plan \in Plans
  BY <1>2 DEF EntityTypeOK
<1>4. GroupsGood' /\ SetGood' /\ AskedGood' /\ UidsGood' /\ PoolGood'
  BY <1>1, <1>2, <1>3, GroupsStay, SetStays, AskedStays, UidsStay, PoolStays DEF GenInv
<1>5. PICK k \in 0..Len(pool) :
        /\ DOMAIN entities = {pool[i] : i \in 1..k}
        /\ \A i \in 1..k : EntityFits(pool[i], entities[pool[i]], Later(pool, i))
  BY <1>2 DEF EntitiesGood
<1>6. Len(pool) \in Nat /\ DOMAIN pool = 1..Len(pool)
  BY <1>2, Places
<1>7. Cardinality(DOMAIN entities) = k
  <2>1. k \in 0..Len(pool) /\ \A x : x \in DOMAIN entities <=> \E i \in 1..k : pool[i] = x
    BY <1>5
  <2>2. FirstOf(DOMAIN entities, pool, k, Len(pool))
    BY <1>2, <1>6, <2>1 DEF FirstOf, PoolGood
  <2> QED BY <2>2, FirstOnes
<1>8. k + 1 \in 1..Len(pool)
  <2>1. Cardinality(DOMAIN entities) < Len(pool)
    BY DEF GenerateEntity
  <2> QED BY <1>5, <1>6, <1>7, <2>1
<1> DEFINE uid == pool[Cardinality(DOMAIN entities) + 1]
<1>9. uid = pool[k + 1]
  BY <1>7
<1>10. CASE SchemaBased /\ ~Known(uid.type)
  <2>1. genStage' = "panicked" /\ entities' = entities
    BY <1>10 DEF GenerateEntity
  <2>2. uid.type \in Range(plan.types)
    BY <1>2, <1>8, <1>9 DEF PoolGood, EntityTypeOK
  <2>3. EntityTypeOK'
    BY <1>1, <1>2, <2>1 DEF EntityTypeOK
  <2>4. (\E ty \in Range(plan.types) : SchemaBased /\ ~Known(ty))'
    BY <1>1, <1>10, <2>2, SamePlan
  <2> QED BY <1>1, <1>2, <1>4, <2>1, <2>3, <2>4 DEF GenInv, Building
<1>11. CASE ~(SchemaBased /\ ~Known(uid.type))
  <2>1. PICK parents \in SUBSET PossibleParents(uid),
             attrs \in (IF SchemaBased THEN Attributes(uid.type) ELSE {Nothing}),
             tags \in (IF SchemaBased THEN Tags(uid.type) ELSE {Nothing}) :
          entities' = [u \in DOMAIN entities \cup {uid} |->
                       IF u = uid THEN [parents |-> parents, attrs |-> attrs, tags |-> tags]
                       ELSE entities[u]]
    BY <1>11 DEF GenerateEntity
  <2>2. genStage' = "entities"
    BY <1>2, <1>11 DEF GenerateEntity
  <2> HIDE DEF uid
  <2>3. EntityFits(uid, [parents |-> parents, attrs |-> attrs, tags |-> tags], Later(pool, k + 1))
    BY <1>2, <1>3, <1>8, <1>9, <1>11, <2>1, NewEntityFits
  <2>4. entities'[uid] = [parents |-> parents, attrs |-> attrs, tags |-> tags]
    BY <2>1
  <2>5. \A i \in 1..k : pool[i] # uid /\ entities'[pool[i]] = entities[pool[i]]
    <3> SUFFICES ASSUME NEW i \in 1..k
                 PROVE  pool[i] # uid /\ entities'[pool[i]] = entities[pool[i]]
      OBVIOUS
    <3>1. i \in 1..Len(pool) /\ i # k + 1
      BY <1>5, <1>6
    <3>2. pool[i] # uid
      BY <1>2, <1>8, <1>9, <3>1 DEF PoolGood
    <3> QED BY <1>5, <2>1, <3>2
  <2>6. \A i \in 1..k + 1 : EntityFits(pool[i], entities'[pool[i]], Later(pool, i))
    <3> SUFFICES ASSUME NEW i \in 1..k + 1
                 PROVE  EntityFits(pool[i], entities'[pool[i]], Later(pool, i))
      OBVIOUS
    <3>1. CASE i = k + 1
      BY <1>9, <2>3, <2>4, <3>1
    <3>2. CASE i # k + 1
      <4>1. i \in 1..k
        BY <1>5, <3>2
      <4> QED BY <1>5, <2>5, <4>1
    <3> QED BY <3>1, <3>2
  <2>7. DOMAIN entities' = {pool[i] : i \in 1..k + 1}
    <3>1. DOMAIN entities' = DOMAIN entities \cup {uid}
      BY <2>1
    <3>2. \A i \in 1..k + 1 : i \in 1..k \/ i = k + 1
      BY <1>5
    <3>3. \A i \in 1..k : i \in 1..k + 1
      BY <1>5
    <3> QED BY <1>5, <1>6, <1>8, <1>9, <3>1, <3>2, <3>3
  <2>8. EntitiesGood'
    <3>1. \A u, e, later : EntityFits(u, e, later)' <=> EntityFits(u, e, later)
      BY <1>1, SamePlan DEF EntityFits
    <3>2. (\A i \in 1..k + 1 : EntityFits(pool[i], entities[pool[i]], Later(pool, i)))'
      <4> SUFFICES ASSUME NEW i \in 1..k + 1 PROVE EntityFits(pool[i], entities[pool[i]], Later(pool, i))'
        OBVIOUS
      <4>1. PICK u, e, later : u = pool[i] /\ e = entities'[pool[i]] /\ later = Later(pool, i)
        OBVIOUS
      <4>2. EntityFits(u, e, later)'
        BY <2>6, <3>1, <4>1
      <4>3. u = pool'[i] /\ e = entities'[pool'[i]] /\ later = Later(pool', i)
        BY <1>1, <4>1
      <4> QED BY <4>2, <4>3
    <3>3. k + 1 \in 0..Len(pool') /\ DOMAIN entities' = {pool'[i] : i \in 1..k + 1}
      BY <1>1, <1>8, <2>7
    <3> QED BY <2>2, <3>2, <3>3 DEF EntitiesGood
  <2>9. EntityTypeOK'
    <3>1. uid \in Range(pool)
      BY <1>6, <1>8, <1>9 DEF Range
    <3>2. DOMAIN entities' = DOMAIN entities \cup {uid}
      BY <2>1
    <3> QED BY <1>1, <1>2, <2>2, <3>1, <3>2 DEF EntityTypeOK
  <2> QED BY <1>1, <1>2, <1>4, <2>2, <2>8, <2>9 DEF GenInv, Building
<1> QED BY <1>10, <1>11

\* A link binds what its template leaves open.
LEMMA LinksFit ==
  ASSUME NEW t, NEW ids, NEW links \in Links(t, ids)
  PROVE  DOMAIN links = ids /\ \A id \in ids : LinkFits(t, links[id])
<1> DEFINE B == [principal : Bindings("principals", t.principal),
                 resource : Bindings("resources", t.resource)]
<1>1. links \in [ids -> B]
  BY DEF Links
<1>2. \A link \in B : /\ link.principal \in Bindings("principals", t.principal)
                      /\ link.resource \in Bindings("resources", t.resource)
  OBVIOUS
<1>3. \A role, c : \A b \in Bindings(role, c) : SlotIn(c) <=> b # <<>>
  <2> SUFFICES ASSUME NEW role, NEW c, NEW b \in Bindings(role, c)
               PROVE  SlotIn(c) <=> b # <<>>
    OBVIOUS
  <2>1. SlotIn(c) <=> HasSlot(c)
    BY DEF HasSlot, Slots, SlotIn
  <2>2. CASE HasSlot(c)
    <3>1. PICK uid : b = <<uid>>
      BY <2>2 DEF Bindings
    <3>2. Len(b) = 1
      BY <3>1
    <3>3. b # <<>>
      BY <3>2
    <3> QED BY <2>1, <2>2, <3>3
  <2>3. CASE ~HasSlot(c)
    BY <2>1, <2>3 DEF Bindings
  <2> QED BY <2>2, <2>3
<1> HIDE DEF B
<1>4. DOMAIN links = ids /\ \A id \in ids : links[id] \in B
  BY <1>1
<1> QED BY <1>2, <1>3, <1>4 DEF LinkFits

\* The ids of links tell their number or their template.
LEMMA IdsFit ==
  ASSUME plan \in Plans, Len(policyGroups) \in Nat, NEW id \in TemplateIds, NEW ids \in LinkIds(id)
  PROVE  /\ plan.policies = "rbac" =>
              /\ id = <<"p", Len(policyGroups)>>
              /\ \A x \in ids : x[1] = "t" /\ x[2] = Len(policyGroups)
         /\ plan.policies # "rbac" =>
              /\ id[1] = "id"
              /\ \A x \in ids : x = <<"link", id>>
<1>1. CASE plan.policies = "rbac"
  <2>1. id = <<"p", Len(policyGroups)>>
    BY <1>1 DEF TemplateIds
  <2>2. ids \in {{<<"t", Len(policyGroups), k>> : k \in 0..n} : n \in 0..(plan.maxLinks - 1)}
    BY <1>1 DEF LinkIds
  <2>3. PICK n : ids = {<<"t", Len(policyGroups), k>> : k \in 0..n}
    BY <2>2
  <2>4. \A x \in ids : x[1] = "t" /\ x[2] = Len(policyGroups)
    BY <2>3
  <2> QED BY <1>1, <2>1, <2>4
<1>2. CASE plan.policies # "rbac"
  <2>1. id[1] = "id"
    BY <1>2 DEF TemplateIds
  <2>2. plan.policies \in {"abac", "set"}
    BY <1>2, PlanFacts
  <2>3. \A x \in ids : x = <<"link", id>>
    BY <2>2 DEF LinkIds
  <2> QED BY <1>2, <2>1, <2>3
<1> QED BY <1>1, <1>2

LEMMA GenerateGroupKeeps ==
  ASSUME GenInv, GenerateGroup
  PROVE  GenInv'
<1>1. /\ plan' = plan /\ uids' = uids /\ pool' = pool /\ byType' = byType /\ entities' = entities
      /\ policySet' = policySet /\ asked' = asked /\ genStage' = genStage
  BY DEF GenerateGroup
<1>2. /\ EntityTypeOK /\ UidsGood /\ PoolGood /\ EntitiesGood /\ genStage = "policies" /\ GroupsGood
      /\ IsFiniteSet(UNION Range(uids)) /\ pool \in Seq(UNION Range(uids)) /\ SetGood
  BY DEF GenInv, GenerateGroup, Building
<1>3. plan \in Plans
  BY <1>2 DEF EntityTypeOK
<1>4. AskedGood' /\ UidsGood' /\ PoolGood' /\ EntitiesGood'
  BY <1>1, <1>2, <1>3, AskedStays, UidsStay, PoolStays, EntitiesStay DEF GenInv
<1>5. PICK id \in TemplateIds, p \in Constraints("principals"), r \in Constraints("resources"),
           a \in ActionConstraints :
        LET t == [id |-> id, principal |-> p, action |-> a, resource |-> r]
        IN /\ \A i \in DOMAIN policyGroups : policyGroups[i].template.id # id
           /\ \E ids \in (IF HasSlots(t) THEN LinkIds(id) ELSE {{}}) :
                \E links \in Links(t, ids) :
                  policyGroups' = Append(policyGroups, [template |-> t, links |-> links])
  BY DEF GenerateGroup
<1> DEFINE t == [id |-> id, principal |-> p, action |-> a, resource |-> r]
<1>60. PICK ids \in (IF HasSlots(t) THEN LinkIds(id) ELSE {{}}) :
         \E links \in Links(t, ids) :
           policyGroups' = Append(policyGroups, [template |-> t, links |-> links])
  BY <1>5
<1>6. PICK links \in Links(t, ids) :
        policyGroups' = Append(policyGroups, [template |-> t, links |-> links])
  BY <1>60
<1> DEFINE g == [template |-> t, links |-> links]
           n == Len(policyGroups)
<1>7. PICK G : policyGroups \in Seq(G)
  BY <1>2 DEF GroupsGood
<1>8. n \in Nat /\ DOMAIN policyGroups = 1..n
  BY <1>7
<1>9. /\ policyGroups' \in Seq(G \cup {g}) /\ Len(policyGroups') = n + 1
      /\ \A i \in 1..n : policyGroups'[i] = policyGroups[i]
      /\ policyGroups'[n + 1] = g
  <2> DEFINE H == G \cup {g}
  <2>1. policyGroups \in Seq(H) /\ g \in H
    <3>1. \A i \in 1..n : policyGroups[i] \in G
      BY <1>7
    <3> HIDE DEF g
    <3> QED BY <1>7, <1>8, <3>1
  <2>2. policyGroups' = Append(policyGroups, g)
    BY <1>6
  <2> HIDE DEF H, g
  <2>3. policyGroups' \in Seq(H) /\ Len(policyGroups') = n + 1
    BY <2>1, <2>2
  <2>4. \A i \in 1..n : policyGroups'[i] = policyGroups[i]
    BY <2>1, <2>2
  <2>5. policyGroups'[n + 1] = g
    BY <2>1, <2>2
  <2> QED BY <2>3, <2>4, <2>5 DEF H
<1>10. g.template = t /\ g.links = links /\ t.id = id
  OBVIOUS
<1>11. GroupFits(g, n + 1, plan.policies)
  <2>1. DOMAIN links = ids /\ \A x \in ids : LinkFits(t, links[x])
    BY <1>6, LinksFit
  <2>2. ~HasSlots(t) => ids = {}
    BY <1>60
  <2>3. IsTemplate(g.template)
    BY <1>10 DEF IsTemplate
  <2> HIDE DEF t, g
  <2>4. plan.policies = "rbac" => /\ id = <<"p", n>>
                                  /\ \A x \in ids : x[1] = "t" /\ x[2] = n
    <3>1. CASE HasSlots(t)
      BY <1>3, <1>5, <1>60, <1>8, <3>1, IdsFit
    <3>2. CASE ~HasSlots(t)
      BY <1>5, <2>2, <3>2 DEF TemplateIds
    <3> QED BY <3>1, <3>2
  <2>5. plan.policies # "rbac" => id[1] = "id" /\ \A x \in ids : x = <<"link", id>>
    <3>1. CASE HasSlots(t)
      BY <1>3, <1>5, <1>60, <1>8, <3>1, IdsFit
    <3>2. CASE ~HasSlots(t)
      BY <1>5, <2>2, <3>2 DEF TemplateIds
    <3> QED BY <3>1, <3>2
  <2>6. n + 1 - 1 = n
    BY <1>8
  <2> HIDE DEF n
  <2>7. ~HasSlots(g.template) => DOMAIN g.links = {}
    BY <1>10, <2>1, <2>2
  <2>8. \A x \in DOMAIN g.links : LinkFits(g.template, g.links[x])
    BY <1>10, <2>1
  <2>9. plan.policies = "rbac" => /\ g.template.id = <<"p", n + 1 - 1>>
                                  /\ \A x \in DOMAIN g.links : x[1] = "t" /\ x[2] = n + 1 - 1
    BY <1>10, <2>1, <2>4, <2>6
  <2>10. plan.policies # "rbac" => /\ g.template.id[1] = "id"
                                   /\ \A x \in DOMAIN g.links : x = <<"link", g.template.id>>
    BY <1>10, <2>1, <2>5
  <2> QED BY <1>8, <2>3, <2>7, <2>8, <2>9, <2>10 DEF GroupFits
<1> HIDE DEF t, g, n
<1>12. \A i \in 1..n : policyGroups[i].template.id # id
  BY <1>5, <1>8
<1>13. GroupsGood'
  <2>1. \A i \in 1..Len(policyGroups') : i \in 1..n \/ i = n + 1
    BY <1>8, <1>9
  <2>2. \A i \in 1..n : GroupFits(policyGroups[i], i, plan.policies)
    BY <1>2 DEF GroupsGood, n
  <2>3. \A i \in 1..Len(policyGroups') : GroupFits(policyGroups'[i], i, plan.policies)
    BY <1>9, <1>11, <2>1, <2>2
  <2>4. \A i, j \in 1..n : policyGroups[i].template.id = policyGroups[j].template.id => i = j
    BY <1>2 DEF GroupsGood, n
  <2>5. policyGroups'[n + 1].template.id = id
    BY <1>9, <1>10
  <2>6. \A i, j \in 1..Len(policyGroups') :
          policyGroups'[i].template.id = policyGroups'[j].template.id => i = j
    BY <1>9, <1>12, <2>1, <2>4, <2>5
  <2> QED BY <1>1, <1>9, <2>3, <2>6 DEF GroupsGood
<1>14. SetGood'
  <2>1. PICK k \in 0..n :
          /\ DOMAIN policySet.templates = {policyGroups[i].template.id : i \in 1..k}
          /\ DOMAIN policySet.policies = UNION {IdsOf(policyGroups[i]) : i \in 1..k}
          /\ \A x \in DOMAIN policySet.policies :
               ~SlotIn(policySet.policies[x].principal) /\ ~SlotIn(policySet.policies[x].resource)
    BY <1>2 DEF SetGood, n
  <2>2. \A i \in 1..k : i \in 1..n
    BY <1>8, <2>1
  <2>3. \A i \in 1..k : policyGroups'[i] = policyGroups[i]
    BY <1>9, <2>2
  <2>4. k \in 0..Len(policyGroups')
    BY <1>8, <1>9, <2>1
  <2>5. DOMAIN policySet.templates = {policyGroups'[i].template.id : i \in 1..k}
    BY <2>1, <2>3
  <2>6. DOMAIN policySet.policies = UNION {IdsOf(policyGroups'[i]) : i \in 1..k}
    BY <2>1, <2>3
  <2> QED BY <1>1, <2>1, <2>4, <2>5, <2>6 DEF SetGood
<1>15. EntityTypeOK'
  BY <1>1, <1>2 DEF EntityTypeOK
<1> QED BY <1>1, <1>2, <1>4, <1>13, <1>14, <1>15 DEF GenInv, Building

LEMMA GenerateRequestKeeps ==
  ASSUME GenInv, GenerateRequest
  PROVE  GenInv'
<1>1. /\ plan' = plan /\ uids' = uids /\ pool' = pool /\ byType' = byType /\ entities' = entities
      /\ policyGroups' = policyGroups /\ policySet' = policySet
  BY DEF GenerateRequest
<1>2. /\ EntityTypeOK /\ UidsGood /\ PoolGood /\ EntitiesGood /\ genStage = "adding" /\ GroupsGood
      /\ IsFiniteSet(UNION Range(uids)) /\ pool \in Seq(UNION Range(uids)) /\ SetGood /\ AskedGood
  BY DEF GenInv, GenerateRequest, Building
<1>3. plan \in Plans
  BY <1>2 DEF EntityTypeOK
<1>4. genStage' \in {"adding", "failed"}
  BY <1>2 DEF GenerateRequest, AskAny, AskForAction, Ask
<1>5. GroupsGood' /\ SetGood' /\ UidsGood' /\ PoolGood' /\ EntitiesGood'
  BY <1>1, <1>2, <1>3, <1>4, GroupsStay, SetStays, UidsStay, PoolStays, EntitiesStay
<1>6. AskedGood'
  <2>1. CASE ~SchemaBased
    BY <1>1, <2>1, SamePlan DEF AskedGood
  <2>2. CASE SchemaBased
    <3>1. AskForAction
      BY <2>2 DEF GenerateRequest
    <3>2. CASE asked' = asked
      BY <1>1, <1>2, <3>2, AskedStays
    <3>3. CASE asked' # asked
      <4>01. PICK a \in DOMAIN plan.actions :
               \E pty \in plan.actions[a].principals, rty \in plan.actions[a].resources :
                 \E p \in UidsWithType(pty), r \in UidsWithType(rty) :
                   asked' = asked \cup {<<p, Uid("Action", a), r>>}
        BY <3>1, <3>3 DEF AskForAction, Ask
      <4>02. PICK pty \in plan.actions[a].principals, rty \in plan.actions[a].resources :
                 \E p \in UidsWithType(pty), r \in UidsWithType(rty) :
                   asked' = asked \cup {<<p, Uid("Action", a), r>>}
        BY <4>01
      <4>1. PICK p \in UidsWithType(pty), r \in UidsWithType(rty) :
              asked' = asked \cup {<<p, Uid("Action", a), r>>}
        BY <4>02
      <4> DEFINE q == <<p, Uid("Action", a), r>>
      <4>2. p.type = pty /\ Listed(p)
        BY <1>2, <1>3, <4>1, TypedUids
      <4>3. r.type = rty /\ Listed(r)
        BY <1>2, <1>3, <4>1, TypedUids
      <4>4. q[1] = p /\ q[3] = r /\ q[2].eid = a
        BY DEF Uid
      <4> HIDE DEF q
      <4>5. \A x \in asked' : /\ x[1].type \in plan.actions[x[2].eid].principals /\ Listed(x[1])
                              /\ x[3].type \in plan.actions[x[2].eid].resources /\ Listed(x[3])
        <5>1. asked' = asked \cup {q}
          BY <4>1 DEF q
        <5>2. \A x \in asked : /\ x[1].type \in plan.actions[x[2].eid].principals /\ Listed(x[1])
                               /\ x[3].type \in plan.actions[x[2].eid].resources /\ Listed(x[3])
          BY <1>2, <2>2 DEF AskedGood
        <5> QED BY <4>02, <4>2, <4>3, <4>4, <5>1, <5>2
      <4>6. (\A x \in asked : /\ x[1].type \in plan.actions[x[2].eid].principals /\ Listed(x[1])
                              /\ x[3].type \in plan.actions[x[2].eid].resources /\ Listed(x[3]))'
        BY <1>1, <4>5, SamePlan
      <4> QED BY <4>6 DEF AskedGood
    <3> QED BY <3>2, <3>3
  <2> QED BY <2>1, <2>2
<1>7. EntityTypeOK'
  BY <1>1, <1>2, <1>4 DEF EntityTypeOK
<1> QED BY <1>1, <1>2, <1>4, <1>5, <1>6, <1>7 DEF GenInv, Building

\* What one group puts in the policy set.
AllIds(g) == {g.template.id} \cup DOMAIN g.links

\* No two groups share an id, and no link has the id of its template.
LEMMA IdsApart ==
  ASSUME GroupsGood, NEW i \in 1..Len(policyGroups), NEW j \in 1..Len(policyGroups), i # j
  PROVE  /\ AllIds(policyGroups[i]) \cap AllIds(policyGroups[j]) = {}
         /\ policyGroups[i].template.id \notin DOMAIN policyGroups[i].links
<1> DEFINE g == policyGroups[i]
           h == policyGroups[j]
<1>1. GroupFits(g, i, plan.policies) /\ GroupFits(h, j, plan.policies) /\ g.template.id # h.template.id
  BY DEF GroupsGood
<1>2. i \in Nat /\ j \in Nat
  <2>1. PICK G : policyGroups \in Seq(G)
    BY DEF GroupsGood
  <2> QED BY <2>1
<1> HIDE DEF g, h
<1>3. CASE plan.policies = "rbac"
  <2>1. /\ g.template.id = <<"p", i - 1>> /\ \A x \in DOMAIN g.links : x[1] = "t" /\ x[2] = i - 1
        /\ h.template.id = <<"p", j - 1>> /\ \A x \in DOMAIN h.links : x[1] = "t" /\ x[2] = j - 1
    BY <1>1, <1>2, <1>3 DEF GroupFits
  <2>2. g.template.id[1] = "p" /\ h.template.id[1] = "p" /\ i - 1 # j - 1
    BY <1>2, <2>1
  <2> QED BY <1>1, <2>1, <2>2 DEF AllIds, g, h
<1>4. CASE plan.policies # "rbac"
  <2>1. /\ g.template.id[1] = "id" /\ \A x \in DOMAIN g.links : x = <<"link", g.template.id>>
        /\ h.template.id[1] = "id" /\ \A x \in DOMAIN h.links : x = <<"link", h.template.id>>
    BY <1>1, <1>2, <1>4 DEF GroupFits
  <2>2. /\ \A x \in DOMAIN g.links : x[1] = "link" /\ x[2] = g.template.id
        /\ \A x \in DOMAIN h.links : x[1] = "link" /\ x[2] = h.template.id
    BY <2>1
  <2> QED BY <1>1, <2>1, <2>2 DEF AllIds, g, h
<1> QED BY <1>3, <1>4

\* A link of a template has no slot left.
LEMMA NoSlotLeft ==
  ASSUME NEW t, IsTemplate(t), NEW link
  PROVE  ~SlotIn(Linked(t, link).principal) /\ ~SlotIn(Linked(t, link).resource)
<1>1. \A c, b : ~SlotIn(LinkToStatic(c, b))
  BY DEF LinkToStatic, SlotIn
<1>2. PICK id, p, a, r : t = [id |-> id, principal |-> p, action |-> a, resource |-> r]
  BY DEF IsTemplate
<1>3. /\ Linked(t, link).principal = LinkToStatic(t.principal, link.principal)
      /\ Linked(t, link).resource = LinkToStatic(t.resource, link.resource)
  BY <1>2 DEF Linked
<1> QED BY <1>1, <1>3

LEMMA AddToPolicySetKeeps ==
  ASSUME GenInv, AddToPolicySet
  PROVE  GenInv'
<1>1. /\ plan' = plan /\ uids' = uids /\ pool' = pool /\ byType' = byType /\ entities' = entities
      /\ policyGroups' = policyGroups /\ asked' = asked
  BY DEF AddToPolicySet
<1>2. /\ EntityTypeOK /\ UidsGood /\ PoolGood /\ EntitiesGood /\ genStage = "adding" /\ GroupsGood
      /\ IsFiniteSet(UNION Range(uids)) /\ pool \in Seq(UNION Range(uids)) /\ SetGood /\ AskedGood
  BY DEF GenInv, AddToPolicySet, Building
<1>3. plan \in Plans
  BY <1>2 DEF EntityTypeOK
<1> DEFINE n == Len(policyGroups)
<1>4. n \in Nat
  <2>1. PICK G : policyGroups \in Seq(G)
    BY <1>2 DEF GroupsGood
  <2> QED BY <2>1
<1>5. PICK k \in 0..n :
        /\ DOMAIN policySet.templates = {policyGroups[i].template.id : i \in 1..k}
        /\ DOMAIN policySet.policies = UNION {IdsOf(policyGroups[i]) : i \in 1..k}
        /\ \A x \in DOMAIN policySet.policies :
             ~SlotIn(policySet.policies[x].principal) /\ ~SlotIn(policySet.policies[x].resource)
  BY <1>2 DEF SetGood
<1>6. Cardinality(DOMAIN policySet.templates) = k
  <2> DEFINE f == [i \in 1..n |-> policyGroups[i].template.id]
  <2>1. \A i, j \in 1..n : f[i] = f[j] => i = j
    BY <1>2 DEF GroupsGood
  <2>2. \A i \in 1..k : i \in 1..n
    BY <1>4, <1>5
  <2>3. \A x : x \in DOMAIN policySet.templates <=> \E i \in 1..k : f[i] = x
    BY <1>5, <2>2
  <2> HIDE DEF f
  <2>4. FirstOf(DOMAIN policySet.templates, f, k, n)
    BY <1>4, <1>5, <2>1, <2>3 DEF FirstOf
  <2> QED BY <2>4, FirstOnes
<1>7. k + 1 \in 1..n
  <2>1. Cardinality(DOMAIN policySet.templates) < n
    BY DEF AddToPolicySet
  <2> QED BY <1>4, <1>5, <1>6, <2>1
<1> DEFINE g == policyGroups[Cardinality(DOMAIN policySet.templates) + 1]
           t == g.template
           own == IF HasSlots(t) THEN {} ELSE {t.id}
<1>8. g = policyGroups[k + 1]
  BY <1>6
<1>9. GroupFits(g, k + 1, plan.policies)
  BY <1>2, <1>7, <1>8 DEF GroupsGood
<1>10. \A i \in 1..k : i \in 1..n /\ i # k + 1
  BY <1>4, <1>5
<1>11. Accepted(g)
  <2>1. \A x \in Taken : \E i \in 1..k : x \in AllIds(policyGroups[i])
    <3>1. \A i \in 1..k : policyGroups[i].template.id \in AllIds(policyGroups[i])
      BY DEF AllIds
    <3>2. \A i \in 1..k : IdsOf(policyGroups[i]) \subseteq AllIds(policyGroups[i])
      BY DEF AllIds, IdsOf
    <3>3. ASSUME NEW x \in DOMAIN policySet.templates
          PROVE  \E i \in 1..k : x \in AllIds(policyGroups[i])
      <4>1. PICK i \in 1..k : x = policyGroups[i].template.id
        BY <1>5
      <4> QED BY <3>1, <4>1
    <3>4. ASSUME NEW x \in DOMAIN policySet.policies
          PROVE  \E i \in 1..k : x \in AllIds(policyGroups[i])
      <4>1. PICK i \in 1..k : x \in IdsOf(policyGroups[i])
        BY <1>5
      <4> QED BY <3>2, <4>1
    <3> QED BY <3>3, <3>4 DEF Taken
  <2>2. \A i \in 1..k : AllIds(policyGroups[i]) \cap AllIds(g) = {}
    BY <1>2, <1>7, <1>8, <1>10, IdsApart
  <2>3. AllIds(g) \cap Taken = {}
    BY <2>1, <2>2
  <2>4. t.id \notin DOMAIN g.links
    <3>1. CASE plan.policies = "rbac"
      <4>1. t.id = <<"p", k + 1 - 1>> /\ \A x \in DOMAIN g.links : x[1] = "t"
        BY <1>9, <3>1 DEF GroupFits
      <4>2. t.id[1] = "p"
        BY <4>1
      <4> QED BY <4>1, <4>2
    <3>2. CASE plan.policies # "rbac"
      <4>1. t.id[1] = "id" /\ \A x \in DOMAIN g.links : x = <<"link", t.id>>
        BY <1>9, <3>2 DEF GroupFits
      <4>2. \A x \in DOMAIN g.links : x[1] = "link"
        BY <4>1
      <4> QED BY <4>1, <4>2
    <3> QED BY <3>1, <3>2
  <2>5. \A id \in DOMAIN g.links : LinkFits(t, g.links[id])
    BY <1>9 DEF GroupFits
  <2>6. HasSlots(t) <=> SlotIn(t.principal) \/ SlotIn(t.resource)
    BY DEF HasSlots, HasSlot, Slots, SlotIn
  <2> HIDE DEF g
  <2> QED BY <2>3, <2>4, <2>5, <2>6 DEF Accepted, AllIds
<1>12. /\ policySet' =
            [templates |-> [id \in DOMAIN policySet.templates \cup {t.id} |->
                IF id = t.id THEN t ELSE policySet.templates[id]],
             policies |-> [id \in DOMAIN policySet.policies \cup DOMAIN g.links \cup own |->
                IF id \in own THEN t
                ELSE IF id \in DOMAIN g.links THEN Linked(t, g.links[id])
                ELSE policySet.policies[id]]]
       /\ genStage' = "adding"
  BY <1>2, <1>11 DEF AddToPolicySet
<1> HIDE DEF g
<1>13. IsTemplate(t) /\ (~HasSlots(t) => DOMAIN g.links = {})
  BY <1>9 DEF GroupFits
<1>14. SetGood'
  <2>1. DOMAIN policySet'.templates = DOMAIN policySet.templates \cup {t.id}
    BY <1>12
  <2>2. DOMAIN policySet'.policies = DOMAIN policySet.policies \cup DOMAIN g.links \cup own
    BY <1>12
  <2>3. \A x \in DOMAIN policySet'.policies :
          policySet'.policies[x] = IF x \in own THEN t
                                   ELSE IF x \in DOMAIN g.links THEN Linked(t, g.links[x])
                                   ELSE policySet.policies[x]
    BY <1>12
  <2>4. DOMAIN g.links \cup own = IdsOf(g)
    BY <1>13 DEF IdsOf
  <2> HIDE DEF t, own, n
  <2>5. \A i \in 1..k + 1 : i \in 1..k \/ i = k + 1
    BY <1>4, <1>5
  <2>6. \A i \in 1..k : i \in 1..k + 1
    BY <1>4, <1>5
  <2>7. k + 1 \in 1..k + 1
    BY <1>4, <1>5
  <2>8. DOMAIN policySet'.templates = {policyGroups'[i].template.id : i \in 1..k + 1}
    BY <1>1, <1>5, <1>8, <2>1, <2>5, <2>6, <2>7 DEF t
  <2>9. DOMAIN policySet'.policies = UNION {IdsOf(policyGroups'[i]) : i \in 1..k + 1}
    <3>1. \A x : x \in UNION {IdsOf(policyGroups[i]) : i \in 1..k + 1}
                 <=> \E i \in 1..k + 1 : x \in IdsOf(policyGroups[i])
      OBVIOUS
    <3>2. \A x : x \in DOMAIN policySet.policies <=> \E i \in 1..k : x \in IdsOf(policyGroups[i])
      BY <1>5
    <3>3. \A x : x \in DOMAIN policySet'.policies
                 <=> x \in DOMAIN policySet.policies \/ x \in IdsOf(policyGroups[k + 1])
      BY <1>8, <2>2, <2>4
    <3>4. \A x : x \in DOMAIN policySet'.policies
                 <=> \E i \in 1..k + 1 : x \in IdsOf(policyGroups[i])
      BY <2>5, <2>6, <2>7, <3>2, <3>3
    <3>5. DOMAIN policySet'.policies = UNION {IdsOf(policyGroups[i]) : i \in 1..k + 1}
      BY <3>1, <3>4
    <3> QED BY <1>1, <3>5
  <2>10. \A x \in DOMAIN policySet'.policies :
           ~SlotIn(policySet'.policies[x].principal) /\ ~SlotIn(policySet'.policies[x].resource)
    <3> SUFFICES ASSUME NEW x \in DOMAIN policySet'.policies
                 PROVE  ~SlotIn(policySet'.policies[x].principal) /\ ~SlotIn(policySet'.policies[x].resource)
      OBVIOUS
    <3>1. CASE x \in own
      <4>1. ~HasSlots(t)
        BY <3>1 DEF own
      <4>2. ~SlotIn(t.principal) /\ ~SlotIn(t.resource)
        BY <4>1 DEF HasSlots, HasSlot, Slots, SlotIn
      <4> QED BY <2>3, <3>1, <4>2
    <3>2. CASE x \notin own /\ x \in DOMAIN g.links
      <4>1. policySet'.policies[x] = Linked(t, g.links[x])
        BY <2>3, <3>2
      <4> QED BY <1>13, <4>1, NoSlotLeft
    <3>3. CASE x \notin own /\ x \notin DOMAIN g.links
      <4>1. x \in DOMAIN policySet.policies /\ policySet'.policies[x] = policySet.policies[x]
        BY <2>2, <2>3, <3>3
      <4> QED BY <1>5, <4>1
    <3> QED BY <3>1, <3>2, <3>3
  <2>11. k + 1 \in 0..Len(policyGroups')
    BY <1>1, <1>4, <1>7 DEF n
  <2> QED BY <2>8, <2>9, <2>10, <2>11 DEF SetGood
<1>15. GroupsGood' /\ UidsGood' /\ PoolGood' /\ EntitiesGood' /\ AskedGood'
  BY <1>1, <1>2, <1>3, <1>12, GroupsStay, UidsStay, PoolStays, EntitiesStay, AskedStays
<1>16. EntityTypeOK'
  BY <1>1, <1>2, <1>12 DEF EntityTypeOK
<1> QED BY <1>1, <1>2, <1>12, <1>14, <1>15, <1>16 DEF GenInv, Building

LEMMA GenInvStays == GenInv /\ [EntityNext]_entityVars => GenInv'
<1> SUFFICES ASSUME GenInv, [EntityNext]_entityVars PROVE GenInv'
  OBVIOUS
<1>1. CASE UNCHANGED entityVars
  <2>1. /\ plan' = plan /\ uids' = uids /\ pool' = pool /\ byType' = byType /\ entities' = entities
        /\ policyGroups' = policyGroups /\ policySet' = policySet /\ asked' = asked
        /\ genStage' = genStage
    BY <1>1 DEF entityVars
  <2>2. plan \in Plans
    BY DEF GenInv, EntityTypeOK
  <2>3. UidsGood' /\ GroupsGood' /\ SetGood' /\ AskedGood'
    BY <2>1, <2>2, UidsStay, GroupsStay, SetStays, AskedStays DEF GenInv
  <2>4. genStage' \in Building => PoolGood' /\ EntitiesGood'
    BY <2>1, PoolStays, EntitiesStay DEF GenInv
  <2>5. EntityTypeOK'
    BY <2>1 DEF GenInv, EntityTypeOK
  <2>6. genStage' = "panicked" => (\E ty \in Range(plan.types) : SchemaBased /\ ~Known(ty))'
    BY <2>1, SamePlan DEF GenInv
  <2> QED BY <2>1, <2>3, <2>4, <2>5, <2>6 DEF GenInv, Building
<1>2. CASE GenerateUids
  BY <1>2, GenerateUidsKeeps
<1>3. CASE Shuffle
  BY <1>3, ShuffleKeeps
<1>4. CASE GenerateEntity
  BY <1>4, GenerateEntityKeeps
<1>5. CASE EndHierarchy \/ EndPolicies \/ NoUidToChoose
  BY <1>5, EndsKeep
<1>6. CASE GenerateGroup
  BY <1>6, GenerateGroupKeeps
<1>7. CASE AddToPolicySet
  BY <1>7, AddToPolicySetKeeps
<1>8. CASE GenerateRequest
  BY <1>8, GenerateRequestKeeps
<1> QED BY <1>1, <1>2, <1>3, <1>4, <1>5, <1>6, <1>7, <1>8 DEF EntityNext

\* Parents come later, so that of any entities the last has no parent among them.
LEMMA HierarchyFromInv == GenInv => HierarchySound
<1> SUFFICES ASSUME GenInv, genStage \in {"policies", "adding"} PROVE HierarchySound
  BY DEF HierarchySound
<1>1. /\ EntityTypeOK /\ PoolGood /\ EntitiesGood /\ pool \in Seq(UNION Range(uids))
  BY DEF GenInv, Building
<1>2. /\ DOMAIN entities = {pool[i] : i \in 1..Len(pool)}
      /\ \A i \in 1..Len(pool) : EntityFits(pool[i], entities[pool[i]], Later(pool, i))
  BY <1>1 DEF EntitiesGood
<1>3. /\ Len(pool) \in Nat /\ DOMAIN pool = 1..Len(pool)
      /\ \A i \in 1..Len(pool) : IndexOf(pool[i]) = i
  BY <1>1, Places
<1>4. ASSUME NEW S \in SUBSET DOMAIN entities, S # {}
      PROVE  \E u \in S : entities[u].parents \cap S = {}
  <2> DEFINE P == {i \in 1..Len(pool) : pool[i] \in S}
  <2>1. P \subseteq 1..Len(pool) /\ P # {}
    BY <1>2, <1>4
  <2> HIDE DEF P
  <2>2. PICK m \in P : \A i \in P : i <= m
    BY <1>3, <2>1, LastPlace
  <2>3. m \in 1..Len(pool) /\ pool[m] \in S
    BY <2>2 DEF P
  <2>4. entities[pool[m]].parents \subseteq Later(pool, m)
    BY <1>2, <2>3 DEF EntityFits
  <2>5. ASSUME NEW p \in entities[pool[m]].parents, p \in S PROVE FALSE
    <3>1. PICK j \in m + 1..Len(pool) : p = pool[j]
      BY <2>4, <2>5 DEF Later
    <3>2. j \in 1..Len(pool) /\ ~(j <= m)
      BY <1>3, <2>3, <3>1
    <3>3. j \in P
      BY <2>5, <3>1, <3>2 DEF P
    <3> QED BY <2>2, <3>2, <3>3
  <2> QED BY <2>3, <2>5
<1>5. \A ty \in DOMAIN byType :
        /\ byType[ty] \in Seq(Range(pool)) /\ DOMAIN byType[ty] = 1..Len(byType[ty])
        /\ PushedSoFar(byType[ty], pool, ty, Len(pool))
  <2> SUFFICES ASSUME NEW ty \in DOMAIN byType
               PROVE  /\ byType[ty] \in Seq(Range(pool)) /\ DOMAIN byType[ty] = 1..Len(byType[ty])
                      /\ PushedSoFar(byType[ty], pool, ty, Len(pool))
    OBVIOUS
  <2>1. PushedSoFar(byType[ty], pool, ty, Len(pool))
    BY <1>1, IndexGood
  <2>2. byType[ty] \in Seq(Range(pool))
    BY <2>1 DEF PushedSoFar
  <2> QED BY <2>1, <2>2
<1>6. UNION {Range(byType[ty]) : ty \in DOMAIN byType} = DOMAIN entities
  <2>1. ASSUME NEW ty \in DOMAIN byType, NEW u \in Range(byType[ty]) PROVE u \in DOMAIN entities
    <3>1. PICK i \in 1..Len(byType[ty]) : u = byType[ty][i]
      BY <1>5 DEF Range
    <3>2. \E j \in 1..Len(pool) : byType[ty][i] = pool[j]
      BY <1>5, <3>1 DEF PushedSoFar
    <3> QED BY <1>2, <3>1, <3>2
  <2>2. ASSUME NEW u \in DOMAIN entities
        PROVE  \E ty \in DOMAIN byType : u \in Range(byType[ty])
    <3>1. PICK j \in 1..Len(pool) : u = pool[j]
      BY <1>2
    <3>2. u.type \in DOMAIN byType
      BY <1>1, <3>1 DEF PoolGood, Index
    <3>3. PICK i \in 1..Len(byType[u.type]) : byType[u.type][i] = pool[j]
      BY <1>5, <3>1, <3>2 DEF PushedSoFar
    <3>4. u \in Range(byType[u.type])
      BY <1>5, <3>1, <3>2, <3>3 DEF Range
    <3> QED BY <3>2, <3>4
  <2> QED BY <2>1, <2>2
<1>7. ASSUME NEW ty \in DOMAIN byType, NEW i \in DOMAIN byType[ty], NEW j \in DOMAIN byType[ty]
      PROVE  /\ byType[ty][i].type = ty
             /\ i < j => IndexOf(byType[ty][i]) < IndexOf(byType[ty][j])
  <2> DEFINE s == byType[ty]
  <2>1. i \in 1..Len(s) /\ j \in 1..Len(s)
    BY <1>5
  <2>2. /\ \A x \in 1..Len(s) : s[x].type = ty /\ \E y \in 1..Len(pool) : s[x] = pool[y]
        /\ \A x, y \in 1..Len(s) : \A l, m \in 1..Len(pool) :
             x < y /\ s[x] = pool[l] /\ s[y] = pool[m] => l < m
    BY <1>5 DEF PushedSoFar
  <2> HIDE DEF s
  <2>3. s[i].type = ty
    BY <2>1, <2>2
  <2>4. PICK l \in 1..Len(pool) : s[i] = pool[l]
    BY <2>1, <2>2
  <2>5. PICK m \in 1..Len(pool) : s[j] = pool[m]
    BY <2>1, <2>2
  <2>6. IndexOf(s[i]) = l /\ IndexOf(s[j]) = m
    BY <1>3, <2>4, <2>5
  <2>7. i < j => l < m
    BY <2>1, <2>2, <2>4, <2>5
  <2> QED BY <2>3, <2>6, <2>7 DEF s
<1>8. \A S \in (SUBSET DOMAIN entities) \ {{}} : \E u \in S : entities[u].parents \cap S = {}
  <2> SUFFICES ASSUME NEW S \in (SUBSET DOMAIN entities) \ {{}}
               PROVE  \E u \in S : entities[u].parents \cap S = {}
    OBVIOUS
  <2>1. S \in SUBSET DOMAIN entities /\ S # {}
    OBVIOUS
  <2> QED BY <1>4, <2>1
<1>9. \A ty \in DOMAIN byType : \A i, j \in DOMAIN byType[ty] :
         /\ byType[ty][i].type = ty
         /\ i < j => IndexOf(byType[ty][i]) < IndexOf(byType[ty][j])
  BY <1>7
<1> QED BY <1>6, <1>8, <1>9 DEF HierarchySound

LEMMA ConformsFromInv == GenInv => HierarchyConforms
<1> SUFFICES ASSUME GenInv, genStage \in {"policies", "adding"}, SchemaBased PROVE HierarchyConforms
  BY DEF HierarchyConforms
<1>1. EntityTypeOK /\ PoolGood /\ EntitiesGood /\ AskedGood
  BY DEF GenInv, Building
<1>2. plan \in Plans
  BY <1>1 DEF EntityTypeOK
<1>3. /\ DOMAIN entities = {pool[i] : i \in 1..Len(pool)}
      /\ \A i \in 1..Len(pool) : EntityFits(pool[i], entities[pool[i]], Later(pool, i))
  BY <1>1 DEF EntitiesGood
<1>4. \A i \in 1..Len(pool) : Listed(pool[i]) /\ Conforms(pool[i], entities[pool[i]])
  <2> SUFFICES ASSUME NEW i \in 1..Len(pool)
               PROVE  Listed(pool[i]) /\ Conforms(pool[i], entities[pool[i]])
    OBVIOUS
  <2>1. Conforms(pool[i], entities[pool[i]])
    BY <1>3 DEF EntityFits
  <2>2. pool[i] \in NewUids(pool[i].type)
    BY <1>1 DEF PoolGood
  <2>3. Listed(pool[i])
    BY <1>2, <2>2, NewUidsFit
  <2> QED BY <2>1, <2>3
<1>5. \A u \in DOMAIN entities : Listed(u) /\ Conforms(u, entities[u])
  BY <1>3, <1>4
<1> QED BY <1>1, <1>5 DEF HierarchyConforms, AskedGood

LEMMA PoliciesFromInv == GenInv => PoliciesLink
<1> SUFFICES ASSUME GenInv PROVE PoliciesLink
  OBVIOUS
<1> DEFINE n == Len(policyGroups)
<1>1. GroupsGood /\ SetGood
  BY DEF GenInv
<1>2. n \in Nat
  <2>1. PICK G : policyGroups \in Seq(G)
    BY <1>1 DEF GroupsGood
  <2> QED BY <2>1
<1>3. PICK k \in 0..n :
        /\ DOMAIN policySet.templates = {policyGroups[i].template.id : i \in 1..k}
        /\ DOMAIN policySet.policies = UNION {IdsOf(policyGroups[i]) : i \in 1..k}
        /\ \A x \in DOMAIN policySet.policies :
             ~SlotIn(policySet.policies[x].principal) /\ ~SlotIn(policySet.policies[x].resource)
  BY <1>1 DEF SetGood
<1>4. Cardinality(DOMAIN policySet.templates) = k
  <2> DEFINE f == [i \in 1..n |-> policyGroups[i].template.id]
  <2>1. \A i, j \in 1..n : f[i] = f[j] => i = j
    BY <1>1 DEF GroupsGood
  <2>2. \A i \in 1..k : i \in 1..n
    BY <1>2, <1>3
  <2>3. \A x : x \in DOMAIN policySet.templates <=> \E i \in 1..k : f[i] = x
    BY <1>3, <2>2
  <2> HIDE DEF f
  <2>4. FirstOf(DOMAIN policySet.templates, f, k, n)
    BY <1>2, <1>3, <2>1, <2>3 DEF FirstOf
  <2> QED BY <2>4, FirstOnes
<1>5. \A i, j \in 1..k : i # j => IdsOf(policyGroups[i]) \cap IdsOf(policyGroups[j]) = {}
  <2> SUFFICES ASSUME NEW i \in 1..k, NEW j \in 1..k, i # j
               PROVE  IdsOf(policyGroups[i]) \cap IdsOf(policyGroups[j]) = {}
    OBVIOUS
  <2>1. i \in 1..n /\ j \in 1..n
    BY <1>2, <1>3
  <2>2. AllIds(policyGroups[i]) \cap AllIds(policyGroups[j]) = {}
    BY <1>1, <2>1, IdsApart
  <2> QED BY <2>2 DEF AllIds, IdsOf
<1>6. genStage = "panicked" => \E ty \in Range(plan.types) : SchemaBased /\ ~Known(ty)
  BY DEF GenInv
<1> QED BY <1>3, <1>4, <1>5, <1>6 DEF PoliciesLink

\* The variables of a generation stay in their types (EntityTypeOK), whatever the plan
\* and whatever bytes the input has.
THEOREM GenerationsAreTyped == EntitySpec => []EntityTypeOK
<1>1. GenInv => EntityTypeOK
  BY DEF GenInv
<1> QED BY <1>1, EntityInitial, GenInvStays, PTL DEF EntitySpec

\* What the generators of hierarchy.rs, policy.rs, policy_set.rs and request.rs hand to a
\* fuzz target makes sense: no entity is above itself, the index agrees with the pool,
\* entities and requests conform to the schema, and the policy set takes every link.
THEOREM InputsAreSound == EntitySpec => []InputsSound
<1>1. GenInv => InputsSound
  BY HierarchyFromInv, ConformsFromInv, PoliciesFromInv DEF InputsSound
<1> QED BY <1>1, EntityInitial, GenInvStays, PTL DEF EntitySpec

-------------------------------------------------------------------------------
(* Benchmarking: whatever is measured, the statistics are in order, nothing of a *)
(* corpus is lost, and a comparison says of every benchmark what is so. What was *)
(* measured, what is left of a task and the tasks to come are together what is   *)
(* wanted; that, and what was printed by which stage, is the invariant.          *)

\* The sum of times, a time at a time.
SumsUpTo(f, s, n) == f = [k \in 0..n |-> IF k = 0 THEN 0 ELSE f[k - 1] + s[k]]

LEMMA SumsExist ==
  ASSUME NEW s, NEW n \in Nat
  PROVE  \E f : SumsUpTo(f, s, n)
<1> DEFINE bad == {m \in Nat : ~\E f : SumsUpTo(f, s, m)}
<1>1. ASSUME bad # {} PROVE FALSE
  <2>1. Min(bad) \in bad /\ \A y \in bad : Min(bad) <= y
    BY <1>1, LeastOf
  <2>2. PICK m \in Nat : m \in bad /\ \A y \in bad : m <= y
    BY <2>1
  <2>3. m # 0
    <3>1. SumsUpTo([k \in 0..0 |-> 0], s, 0)
      BY DEF SumsUpTo
    <3> QED BY <2>2, <3>1
  <2>4. m - 1 \in Nat /\ m - 1 \notin bad
    BY <2>2, <2>3
  <2>5. PICK f : SumsUpTo(f, s, m - 1)
    BY <2>4
  <2> DEFINE g == [k \in 0..m |-> IF k = m THEN f[m - 1] + s[m] ELSE f[k]]
  <2>6. \A k \in 0..m - 1 : f[k] = IF k = 0 THEN 0 ELSE f[k - 1] + s[k]
    BY <2>5 DEF SumsUpTo
  <2>7. g[m] = f[m - 1] + s[m] /\ \A k \in 0..m - 1 : g[k] = f[k]
    BY <2>3
  <2>8. \A k \in 0..m : g[k] = IF k = 0 THEN 0 ELSE g[k - 1] + s[k]
    <3> SUFFICES ASSUME NEW k \in 0..m PROVE g[k] = IF k = 0 THEN 0 ELSE g[k - 1] + s[k]
      OBVIOUS
    <3> HIDE DEF g
    <3>1. CASE k = m
      <4>1. g[k - 1] = f[m - 1]
        BY <2>3, <2>7, <3>1
      <4> QED BY <2>3, <2>7, <3>1, <4>1
    <3>2. CASE k # m /\ k # 0
      <4>1. k \in 0..m - 1 /\ k - 1 \in 0..m - 1
        BY <3>2
      <4>2. g[k] = f[k] /\ g[k - 1] = f[k - 1]
        BY <2>7, <4>1
      <4> QED BY <2>6, <3>2, <4>1, <4>2
    <3>3. CASE k # m /\ k = 0
      <4>1. k \in 0..m - 1
        BY <3>3
      <4> QED BY <2>6, <2>7, <3>3, <4>1
    <3> QED BY <3>1, <3>2, <3>3
  <2>9. g = [k \in 0..m |-> IF k = 0 THEN 0 ELSE g[k - 1] + s[k]]
    <3>1. g = [k \in 0..m |-> g[k]]
      OBVIOUS
    <3> HIDE DEF g
    <3> QED BY <2>8, <3>1
  <2> HIDE DEF g
  <2>10. SumsUpTo(g, s, m)
    BY <2>9 DEF SumsUpTo
  <2> QED BY <2>2, <2>10
<1> QED BY <1>1

LEMMA TotalIs ==
  ASSUME NEW s, Len(s) \in Nat
  PROVE  \E f : SumsUpTo(f, s, Len(s)) /\ Total(s) = f[Len(s)]
<1> DEFINE f == CHOOSE f : SumsUpTo(f, s, Len(s))
<1>1. SumsUpTo(f, s, Len(s))
  BY SumsExist
<1>2. Total(s) = f[Len(s)]
  BY Zenon DEF Total, SumsUpTo
<1> QED BY <1>1, <1>2

\* A sum is as many times the least as there are times, or more.
LEMMA TotalBetween ==
  ASSUME NEW n \in Nat, NEW s \in [1..n -> Nat], NEW lo \in Nat, NEW hi \in Nat,
         \A i \in 1..n : lo <= s[i] /\ s[i] <= hi
  PROVE  Total(s) \in Nat /\ n * lo <= Total(s) /\ Total(s) <= n * hi
<1>1. Len(s) = n
  OBVIOUS
<1>2. PICK f : SumsUpTo(f, s, n) /\ Total(s) = f[n]
  BY <1>1, TotalIs
<1>3. \A k \in 0..n : f[k] = IF k = 0 THEN 0 ELSE f[k - 1] + s[k]
  BY <1>2 DEF SumsUpTo
<1> DEFINE Good(k) == f[k] \in Nat /\ k * lo <= f[k] /\ f[k] <= k * hi
           bad == {k \in 0..n : ~Good(k)}
<1>4. ASSUME bad # {} PROVE FALSE
  <2>1. bad \subseteq Nat
    OBVIOUS
  <2>2. PICK m \in 0..n : ~Good(m) /\ \A y \in bad : m <= y
    <3>1. Min(bad) \in bad /\ \A y \in bad : Min(bad) <= y
      BY <1>4, <2>1, LeastOf
    <3> QED BY <3>1
  <2>3. m # 0
    <3>1. Good(0)
      <4>1. f[0] = 0
        BY <1>3
      <4>2. 0 * lo = 0 /\ 0 * hi = 0
        OBVIOUS
      <4> QED BY <4>1, <4>2
    <3> QED BY <2>2, <3>1
  <2>4. m - 1 \in 0..n /\ Good(m - 1)
    <3>1. m - 1 \in 0..n /\ ~(m <= m - 1)
      BY <2>3
    <3> QED BY <2>2, <3>1
  <2>5. f[m] = f[m - 1] + s[m] /\ lo <= s[m] /\ s[m] <= hi /\ s[m] \in Nat
    BY <1>3, <2>3
  <2>6. m * lo = (m - 1) * lo + lo /\ m * hi = (m - 1) * hi + hi
    <3> HIDE DEF Good
    <3>1. PICK j \in Nat : m = j + 1
      <4>1. m - 1 \in Nat /\ m = (m - 1) + 1
        BY <2>3
      <4> QED BY <4>1
    <3>2. (j + 1) * lo = j * lo + lo /\ (j + 1) * hi = j * hi + hi /\ m - 1 = j
      BY <3>1
    <3> QED BY <3>1, <3>2
  <2>7. (m - 1) * lo \in Int /\ (m - 1) * hi \in Int /\ m * lo \in Int /\ m * hi \in Int
    OBVIOUS
  <2>8. Good(m)
    <3> DEFINE a == (m - 1) * lo
               b == (m - 1) * hi
    <3>1. a \in Int /\ b \in Int /\ m * lo = a + lo /\ m * hi = b + hi
      BY <2>6, <2>7
    <3>2. f[m - 1] \in Nat /\ a <= f[m - 1] /\ f[m - 1] <= b
      BY <2>4
    <3> HIDE DEF a, b
    <3>3. f[m] \in Nat /\ a + lo <= f[m] /\ f[m] <= b + hi
      BY <2>5, <3>1, <3>2
    <3> QED BY <3>1, <3>3
  <2> QED BY <2>2, <2>8
<1>5. Good(n)
  <2> HIDE DEF Good
  <2> QED BY <1>4
<1> QED BY <1>2, <1>5

LEMMA DivBetween ==
  ASSUME NEW n \in Nat \ {0}, NEW t \in Nat, NEW lo \in Nat, NEW hi \in Nat,
         n * lo <= t, t <= n * hi
  PROVE  t \div n \in Nat /\ lo <= t \div n /\ t \div n <= hi
<1> DEFINE q == t \div n
           r == t % n
<1>1. q \in Int /\ r \in 0..n - 1 /\ t = n * q + r
  OBVIOUS
<1> HIDE DEF q, r
<1>2. q >= lo
  <2> SUFFICES ASSUME q + 1 <= lo PROVE FALSE
    BY <1>1
  <2>1. n * (q + 1) <= n * lo
    BY <1>1
  <2>2. n * (q + 1) = n * q + n /\ n * q \in Int /\ n * lo \in Int
    BY <1>1
  <2> QED BY <1>1, <2>1, <2>2
<1>3. q <= hi
  <2> SUFFICES ASSUME hi + 1 <= q PROVE FALSE
    BY <1>1
  <2>1. n * (hi + 1) <= n * q
    BY <1>1
  <2>2. n * (hi + 1) = n * hi + n /\ n * q \in Int /\ n * hi \in Int
    BY <1>1
  <2> QED BY <1>1, <2>1, <2>2
<1> QED BY <1>1, <1>2, <1>3 DEF q

\* Of some times there is a highest.
LEMMA Highest ==
  ASSUME NEW n \in Nat, NEW times \in [1..n -> Nat], NEW B, B \subseteq 1..n, B # {}
  PROVE  \E j \in B : \A i \in B : times[i] <= times[j]
<1> DEFINE Has(m) == \E j \in B \cap 1..m : \A i \in B \cap 1..m : times[i] <= times[j]
           bad == {m \in 0..n : B \cap 1..m # {} /\ ~Has(m)}
<1>1. ASSUME bad # {} PROVE FALSE
  <2>1. PICK m \in 0..n : B \cap 1..m # {} /\ ~Has(m) /\ \A y \in bad : m <= y
    <3>1. bad \subseteq Nat
      OBVIOUS
    <3>2. Min(bad) \in bad /\ \A y \in bad : Min(bad) <= y
      <4> HIDE DEF bad
      <4> QED BY <1>1, <3>1, LeastOf
    <3> QED BY <3>2
  <2>2. m # 0
    BY <2>1
  <2>3. m - 1 \in 0..n /\ ~(m <= m - 1)
    BY <2>2
  <2>4. B \cap 1..m - 1 = {} \/ Has(m - 1)
    <3> HIDE DEF Has
    <3> QED BY <2>1, <2>3
  <2>5. \A i \in 1..m : i = m \/ i \in 1..m - 1
    BY <2>3
  <2>6. CASE m \notin B
    <3>1. B \cap 1..m = B \cap 1..m - 1
      BY <2>5, <2>6, <2>3
    <3> QED BY <2>1, <2>4, <3>1
  <2>7. CASE m \in B /\ B \cap 1..m - 1 = {}
    <3>1. m \in 1..m /\ \A i \in B \cap 1..m : i = m
      BY <2>2, <2>5, <2>7
    <3>2. Has(m)
      BY <2>7, <3>1
    <3> QED BY <2>1, <3>2
  <2>8. CASE m \in B /\ Has(m - 1)
    <3>1. PICK j \in B \cap 1..m - 1 : \A i \in B \cap 1..m - 1 : times[i] <= times[j]
      BY <2>8
    <3>2. m \in B \cap 1..m /\ j \in B \cap 1..m /\ times[j] \in Nat /\ times[m] \in Nat
      BY <2>2, <2>8, <2>3
    <3>3. \A i \in B \cap 1..m : times[i] \in Nat /\ (i = m \/ i \in B \cap 1..m - 1)
      BY <2>5
    <3>4. CASE times[m] <= times[j]
      <4>1. \A i \in B \cap 1..m : times[i] <= times[j]
        BY <3>1, <3>3, <3>4
      <4> QED BY <2>1, <3>2, <4>1
    <3>5. CASE times[j] <= times[m]
      <4>1. \A i \in B \cap 1..m : times[i] <= times[m]
        BY <3>1, <3>2, <3>3, <3>5
      <4> QED BY <2>1, <3>2, <4>1
    <3> QED BY <3>2, <3>4, <3>5
  <2> QED BY <2>4, <2>6, <2>7, <2>8
<1>2. n \in 0..n /\ B \cap 1..n = B
  <2>1. n \in 0..n /\ \A i \in B : i \in 1..n
    OBVIOUS
  <2> HIDE DEF Has, bad
  <2> QED BY <2>1, Zenon
<1>3. Has(n)
  <2> HIDE DEF Has
  <2> QED BY <1>1, <1>2
<1> QED BY <1>2, <1>3

Below(times, x) == {i \in DOMAIN times : times[i] < x}
UpTo(times, x) == {i \in DOMAIN times : times[i] <= x}
\* x is at place k of the sorted times.
AtPlace(times, k, x) ==
  x \in ToSet(times) /\ Cardinality(Below(times, x)) < k /\ k <= Cardinality(UpTo(times, x))

LEMMA PlacesCounted ==
  ASSUME NEW n \in Nat
  PROVE  IsFiniteSet(1..n) /\ Cardinality(1..n) = n
<1>1. IsFiniteSet(1..n) /\ Cardinality(1..n) = IF 1 > n THEN 0 ELSE n - 1 + 1
  BY FS_Interval
<1> QED BY <1>1

LEMMA HowMany ==
  ASSUME NEW n \in Nat, NEW times \in [1..n -> Nat], NEW x
  PROVE  /\ IsFiniteSet(Below(times, x)) /\ Cardinality(Below(times, x)) \in Nat
         /\ IsFiniteSet(UpTo(times, x)) /\ Cardinality(UpTo(times, x)) \in Nat
<1>1. IsFiniteSet(1..n)
  BY PlacesCounted
<1>2. Below(times, x) \subseteq 1..n /\ UpTo(times, x) \subseteq 1..n
  BY DEF Below, UpTo
<1> QED BY <1>1, <1>2, FS_Subset, FS_CardinalityType

\* There is one at every place.
LEMMA RankedIs ==
  ASSUME NEW n \in Nat, NEW times \in [1..n -> Nat], NEW k \in 1..n
  PROVE  AtPlace(times, k, Ranked(times, k))
<1> DEFINE S == {y \in ToSet(times) : k <= Cardinality(UpTo(times, y))}
<1>1. \A i \in 1..n : times[i] \in ToSet(times) /\ times[i] \in Nat
  BY DEF ToSet
<1>2. \A y \in ToSet(times) : y \in Nat /\ \E i \in 1..n : times[i] = y
  BY DEF ToSet
<1>3. S # {}
  <2>1. PICK j \in 1..n : \A i \in 1..n : times[i] <= times[j]
    <3> DEFINE B == 1..n
    <3>1. B \subseteq 1..n /\ k \in B
      OBVIOUS
    <3> HIDE DEF B
    <3>2. \E j \in B : \A i \in B : times[i] <= times[j]
      BY <3>1, Highest
    <3> QED BY <3>2 DEF B
  <2>2. UpTo(times, times[j]) = 1..n
    BY <2>1 DEF UpTo
  <2>3. Cardinality(1..n) = n
    BY PlacesCounted
  <2>4. times[j] \in S
    BY <1>1, <2>2, <2>3
  <2> QED BY <2>4
<1>4. PICK x \in S : \A y \in S : x <= y
  <2>1. S \subseteq Nat
    BY <1>2
  <2> HIDE DEF S
  <2> QED BY <1>3, <2>1, LeastOf
<1>5. x \in ToSet(times) /\ x \in Nat /\ k <= Cardinality(UpTo(times, x))
  BY <1>2
<1>6. Cardinality(Below(times, x)) < k
  <2> SUFFICES ASSUME k <= Cardinality(Below(times, x)) PROVE FALSE
    BY HowMany
  <2> DEFINE B == Below(times, x)
  <2>1. B \subseteq 1..n
    BY DEF Below
  <2>2. B # {}
    <3>1. Cardinality({}) = 0
      BY FS_EmptySet
    <3>2. k <= Cardinality(B)
      OBVIOUS
    <3>3. k >= 1
      OBVIOUS
    <3> HIDE DEF B
    <3>4. ASSUME B = {} PROVE Cardinality(B) = 0
      BY <3>1, <3>4, Zenon
    <3>5. Cardinality(B) # 0
      BY <3>2, <3>3
    <3> QED BY <3>4, <3>5, Zenon
  <2>3. PICK j \in B : \A i \in B : times[i] <= times[j]
    <3> HIDE DEF B
    <3> QED BY <2>1, <2>2, Highest
  <2>4. j \in 1..n /\ times[j] < x /\ times[j] \in Nat
    BY <2>1 DEF Below
  <2>5. B \subseteq UpTo(times, times[j])
    BY <2>1, <2>3 DEF UpTo
  <2>6. Cardinality(B) <= Cardinality(UpTo(times, times[j]))
    <3> DEFINE U == UpTo(times, times[j])
    <3>1. IsFiniteSet(U)
      BY HowMany
    <3>2. B \subseteq U
      BY <2>5
    <3> HIDE DEF B, U
    <3>3. Cardinality(B) <= Cardinality(U)
      BY <3>1, <3>2, FS_Subset
    <3> QED BY <3>3 DEF U
  <2>7. k <= Cardinality(UpTo(times, times[j]))
    <3>1. Cardinality(B) \in Nat /\ Cardinality(UpTo(times, times[j])) \in Nat
      BY HowMany
    <3> QED BY <2>6, <3>1
  <2>8. times[j] \in S
    BY <1>1, <2>4, <2>7
  <2>9. x <= times[j]
    BY <1>4, <2>8
  <2> QED BY <1>5, <2>4, <2>9
<1>7. AtPlace(times, k, x)
  BY <1>5, <1>6 DEF AtPlace
<1>8. Ranked(times, k) = CHOOSE y : AtPlace(times, k, y)
  BY Zenon DEF Ranked, AtPlace, Below, UpTo
<1> QED BY <1>7, <1>8

\* What is at a later place is no less.
LEMMA RanksInOrder ==
  ASSUME NEW n \in Nat, NEW times \in [1..n -> Nat], NEW k \in 1..n, NEW l \in 1..n, k <= l
  PROVE  /\ Ranked(times, k) \in Nat /\ \E i \in 1..n : times[i] = Ranked(times, k)
         /\ Ranked(times, k) <= Ranked(times, l)
<1> DEFINE x == Ranked(times, k)
           y == Ranked(times, l)
<1>1. AtPlace(times, k, x) /\ AtPlace(times, l, y)
  BY RankedIs
<1> HIDE DEF x, y
<1>2. x \in Nat /\ y \in Nat /\ \E i \in 1..n : times[i] = x
  BY <1>1 DEF AtPlace, ToSet
<1>3. ASSUME y < x PROVE FALSE
  <2>1. UpTo(times, y) \subseteq Below(times, x)
    BY <1>2, <1>3 DEF UpTo, Below
  <2>2. IsFiniteSet(Below(times, x)) /\ Cardinality(Below(times, x)) \in Nat
        /\ Cardinality(UpTo(times, y)) \in Nat
    BY HowMany
  <2>3. Cardinality(UpTo(times, y)) <= Cardinality(Below(times, x))
    BY <2>1, <2>2, FS_Subset
  <2> QED BY <1>1, <2>2, <2>3 DEF AtPlace
<1>4. x <= y
  BY <1>2, <1>3
<1> QED BY <1>2, <1>4 DEF x, y

\* The first is the least of all and the last the greatest.
LEMMA Extremes ==
  ASSUME NEW n \in Nat, NEW times \in [1..n -> Nat], NEW i \in 1..n
  PROVE  Ranked(times, 1) <= times[i] /\ times[i] <= Ranked(times, n)
<1>1. 1 \in 1..n /\ n \in 1..n
  OBVIOUS
<1>2. AtPlace(times, 1, Ranked(times, 1)) /\ AtPlace(times, n, Ranked(times, n))
  BY <1>1, RankedIs
<1>3. Ranked(times, 1) \in Nat /\ Ranked(times, n) \in Nat /\ times[i] \in Nat
  BY <1>1, RanksInOrder
<1> DEFINE x == Ranked(times, 1)
           y == Ranked(times, n)
<1> HIDE DEF x, y
<1>4. ASSUME times[i] < x PROVE FALSE
  <2>1. i \in Below(times, x)
    BY <1>4 DEF Below
  <2>2. Cardinality(Below(times, x)) = 0
    BY <1>2, HowMany DEF AtPlace, x
  <2>3. Below(times, x) = {}
    BY <2>2, HowMany, FS_EmptySet
  <2> QED BY <2>1, <2>3
<1>5. ASSUME y < times[i] PROVE FALSE
  <2>1. i \notin UpTo(times, y) /\ UpTo(times, y) \subseteq 1..n
    BY <1>3, <1>5 DEF UpTo, y
  <2>2. IsFiniteSet(1..n) /\ Cardinality(1..n) = n
    BY PlacesCounted
  <2>3. n <= Cardinality(UpTo(times, y)) /\ Cardinality(UpTo(times, y)) \in Nat
    BY <1>2, HowMany DEF AtPlace, y
  <2>4. UpTo(times, y) = 1..n
    <3> DEFINE U == UpTo(times, y)
               all == 1..n
    <3>1. U \subseteq all /\ IsFiniteSet(all) /\ Cardinality(all) <= Cardinality(U)
      BY <2>1, <2>2, <2>3
    <3> HIDE DEF U, all
    <3>2. Cardinality(U) <= Cardinality(all) /\ (Cardinality(U) = Cardinality(all) => all = U)
      BY <3>1, FS_Subset
    <3>3. Cardinality(U) \in Nat /\ Cardinality(all) \in Nat
      BY <2>2, <2>3 DEF U, all
    <3>4. all = U
      BY <3>1, <3>2, <3>3
    <3> QED BY <3>4 DEF U, all
  <2> QED BY <2>1, <2>4
<1> QED BY <1>3, <1>4, <1>5 DEF x, y

LEMMA TotalNat ==
  ASSUME NEW n \in Nat, NEW s \in [1..n -> Nat]
  PROVE  Total(s) \in Nat
<1>1. Len(s) = n
  OBVIOUS
<1>2. PICK f : SumsUpTo(f, s, n) /\ Total(s) = f[n]
  BY <1>1, TotalIs
<1>3. \A k \in 0..n : f[k] = IF k = 0 THEN 0 ELSE f[k - 1] + s[k]
  BY <1>2 DEF SumsUpTo
<1> DEFINE bad == {k \in 0..n : f[k] \notin Nat}
<1>4. ASSUME bad # {} PROVE FALSE
  <2>1. bad \subseteq Nat
    OBVIOUS
  <2>2. PICK m \in 0..n : f[m] \notin Nat /\ \A y \in bad : m <= y
    <3>1. Min(bad) \in bad /\ \A y \in bad : Min(bad) <= y
      BY <1>4, <2>1, LeastOf
    <3> QED BY <3>1
  <2>3. m # 0
    BY <1>3, <2>2
  <2>4. m - 1 \in 0..n /\ ~(m <= m - 1)
    BY <2>3
  <2>5. f[m - 1] \in Nat
    BY <2>2, <2>4
  <2>6. f[m] = f[m - 1] + s[m] /\ s[m] \in Nat
    BY <1>3, <2>3
  <2> QED BY <2>2, <2>5, <2>6
<1> QED BY <1>2, <1>4

LEMMA SquaresNat ==
  ASSUME NEW n \in Nat, NEW s \in [1..n -> Nat], NEW a \in Nat
  PROVE  Squares(s, a) \in Nat
<1> DEFINE f == [i \in 1..n |-> (s[i] - a) * (s[i] - a)]
<1>1. Len(s) = n
  OBVIOUS
<1>2. f \in [1..n -> Nat]
  <2>1. ASSUME NEW i \in 1..n PROVE (s[i] - a) * (s[i] - a) \in Nat
    <3>1. \A x \in Int : x * x \in Nat
      OBVIOUS
    <3>2. s[i] - a \in Int
      OBVIOUS
    <3> QED BY <3>1, <3>2
  <2> QED BY <2>1
<1>3. Squares(s, a) = Total(f)
  BY <1>1 DEF Squares
<1> HIDE DEF f
<1> QED BY <1>2, <1>3, TotalNat

InOrder(t) ==
  /\ t.min <= t.p50 /\ t.p50 <= t.p95 /\ t.p95 <= t.p99 /\ t.p99 <= t.max
  /\ t.min <= t.average /\ t.average <= t.max /\ 0 <= t.iqr /\ t.iqr <= t.max - t.min
IsTiming(t) == t.average \in Nat /\ t.variance[1] \in Nat /\ t.variance[2] \in Nat \ {0}

\* The statistics of times are in order.
LEMMA StatisticsInOrder ==
  ASSUME NEW n \in Nat \ {0}, NEW times \in [1..n -> Nat]
  PROVE  InOrder(FromRuns(times)) /\ IsTiming(FromRuns(times))
<1> DEFINE at(p) == (n * p) \div 100 + 1
           R(k) == Ranked(times, k)
           average == Total(times) \div n
           t == FromRuns(times)
<1>1. Len(times) = n
  OBVIOUS
<1>2. /\ 1 \in 1..n /\ n \in 1..n
      /\ at(25) \in 1..n /\ at(50) \in 1..n /\ at(75) \in 1..n /\ at(95) \in 1..n /\ at(99) \in 1..n
      /\ at(25) <= at(75) /\ at(50) <= at(95) /\ at(95) <= at(99)
  OBVIOUS
<1>3. t = [average |-> average, min |-> R(1), max |-> R(n),
           variance |-> <<Squares(times, average), n>>, iqr |-> R(at(75)) - R(at(25)),
           p50 |-> R(at(50)), p95 |-> R(at(95)), p99 |-> R(at(99))]
  BY <1>1 DEF FromRuns
<1>4. R(1) \in Nat /\ R(n) \in Nat /\ \A i \in 1..n : R(1) <= times[i] /\ times[i] <= R(n)
  <2>1. Ranked(times, 1) \in Nat
    BY <1>2, RanksInOrder
  <2>2. Ranked(times, n) \in Nat
    BY <1>2, RanksInOrder
  <2>3. ASSUME NEW i \in 1..n PROVE Ranked(times, 1) <= times[i] /\ times[i] <= Ranked(times, n)
    BY Extremes
  <2> QED BY <2>1, <2>2, <2>3
<1>5. average \in Nat /\ R(1) <= average /\ average <= R(n)
  <2> DEFINE lo == R(1)
             hi == R(n)
             sum == Total(times)
  <2>1. lo \in Nat /\ hi \in Nat /\ \A i \in 1..n : lo <= times[i] /\ times[i] <= hi
    BY <1>4
  <2> HIDE DEF lo, hi
  <2>2. sum \in Nat /\ n * lo <= sum /\ sum <= n * hi
    BY <2>1, TotalBetween
  <2> HIDE DEF sum
  <2>3. sum \div n \in Nat /\ lo <= sum \div n /\ sum \div n <= hi
    BY <2>1, <2>2, DivBetween
  <2> QED BY <2>3 DEF lo, hi, sum
<1>6. Squares(times, average) \in Nat
  <2> HIDE DEF average
  <2> QED BY <1>5, SquaresNat
<1> HIDE DEF average, t
<1>7. ASSUME NEW k \in 1..n, NEW l \in 1..n, k <= l
      PROVE  R(k) \in Nat /\ R(l) \in Nat /\ R(k) <= R(l)
  <2>1. Ranked(times, k) \in Nat /\ Ranked(times, k) <= Ranked(times, l)
    BY <1>7, RanksInOrder
  <2>2. l <= l
    OBVIOUS
  <2>3. Ranked(times, l) \in Nat
    BY <2>2, RanksInOrder
  <2> QED BY <2>1, <2>3
<1>8. R(1) <= R(at(50)) /\ R(at(50)) <= R(at(95)) /\ R(at(95)) <= R(at(99)) /\ R(at(99)) <= R(n)
  <2> HIDE DEF R
  <2> QED BY <1>2, <1>7
<1>9. R(at(25)) \in Nat /\ R(at(75)) \in Nat /\ R(at(25)) <= R(at(75)) /\ R(1) <= R(at(25)) /\ R(at(75)) <= R(n)
  <2> HIDE DEF R
  <2> QED BY <1>2, <1>7
<1>10. 0 <= R(at(75)) - R(at(25)) /\ R(at(75)) - R(at(25)) <= R(n) - R(1)
  <2> HIDE DEF R
  <2> QED BY <1>4, <1>9
<1>11. InOrder(t)
  <2> HIDE DEF R
  <2> QED BY <1>3, <1>5, <1>8, <1>10 DEF InOrder
<1>12. IsTiming(t)
  <2> HIDE DEF R
  <2> QED BY <1>3, <1>5, <1>6 DEF IsTiming
<1> QED BY <1>11, <1>12 DEF t

\* The table by key of earlier results.
LEMMA KeyedResults ==
  ASSUME NEW rs, AreResults(rs)
  PROVE  /\ DOMAIN ByKey(rs) = {Key(rs[i]) : i \in DOMAIN rs}
         /\ \A k \in DOMAIN ByKey(rs) : IsTiming(ByKey(rs)[k])
<1> DEFINE keys == {Key(rs[i]) : i \in DOMAIN rs}
           at(k) == {i \in DOMAIN rs : Key(rs[i]) = k}
<1>1. ByKey(rs) = [k \in keys |-> rs[Max(at(k))].timing]
  BY DEF ByKey
<1>2. Len(rs) \in Nat /\ DOMAIN rs = 1..Len(rs)
  BY DEF AreResults, IsList
<1>3. ASSUME NEW k \in keys PROVE IsTiming(rs[Max(at(k))].timing)
  <2>1. at(k) \subseteq 1..Len(rs) /\ at(k) # {}
    BY <1>2
  <2>2. \E m \in at(k) : \A i \in at(k) : i <= m
    <3> DEFINE S == at(k)
               n == Len(rs)
    <3>1. n \in Nat /\ S \subseteq 1..n /\ S # {}
      BY <1>2, <2>1
    <3> HIDE DEF S, n
    <3>2. \E m \in S : \A i \in S : i <= m
      BY <3>1, LastPlace
    <3> QED BY <3>2 DEF S
  <2>3. Max(at(k)) \in at(k)
    <3>1. \E m \in at(k) : \A i \in at(k) : m >= i
      BY <1>2, <2>1, <2>2
    <3> HIDE DEF at
    <3> QED BY <3>1 DEF Max
  <2> QED BY <2>3 DEF AreResults, IsTiming
<1> QED
  <2> HIDE DEF at
  <2> QED BY <1>1, <1>3

\* What counts as a regression is one.
LEMMA RegressionIs ==
  ASSUME NEW c, IsTiming(c.current), IsTiming(c.baseline), NEW percent \in Int
  PROVE  SignificanceOf(c, percent) = "regression" <=> Regressed(c.baseline, c.current, percent)
<1> DEFINE new == c.current.average
           old == c.baseline.average
           v1 == c.current.variance[1]
           v2 == c.current.variance[2]
           w1 == c.baseline.variance[1]
           w2 == c.baseline.variance[2]
           d == new - old
           noise == d * d * v2 * w2 <= 2 * 2 * (v1 * w2 + w1 * v2)
<1>1. new \in Nat /\ old \in Nat /\ v1 \in Nat /\ v2 \in Nat /\ w1 \in Nat /\ w2 \in Nat
  BY DEF IsTiming
<1>2. SignificanceOf(c, percent) = "regression"
        <=> Abs(d) >= 10 /\ ~noise /\ PctAbove(new, old, percent)
  <2> DEFINE small == Abs(d) < MinDeltaFloor
  <2>1. small <=> ~(Abs(d) >= 10)
    <3>1. Abs(d) \in Int
      BY <1>1 DEF Abs
    <3> QED BY <3>1 DEF MinDeltaFloor
  <2>2. WithinNoise(d, c.current.variance, c.baseline.variance) = noise
    BY DEF WithinNoise, SignificanceSigma
  <2> DEFINE within == WithinNoise(d, c.current.variance, c.baseline.variance)
             above == PctAbove(new, old, percent)
             below == PctBelow(new, old, -percent)
  <2>3. SignificanceOf(c, percent) =
          IF small \/ within THEN "insignificant" ELSE IF above THEN "regression"
          ELSE IF below THEN "improvement" ELSE "insignificant"
    BY DEF SignificanceOf
  <2> HIDE DEF small, within, above, below, noise
  <2>4. SignificanceOf(c, percent) = "regression" <=> ~small /\ ~within /\ above
    BY <2>3
  <2> QED BY <2>1, <2>2, <2>4 DEF within, above
<1>3. ~noise <=> d * d * w2 * v2 > 4 * (w1 * v2 + v1 * w2)
  <2> HIDE DEF new, old, v1, v2, w1, w2
  <2>1. d \in Int
    BY <1>1
  <2> HIDE DEF d
  <2> DEFINE x == d * d * v2 * w2
             y == v1 * w2 + w1 * v2
  <2>2. x \in Int /\ y \in Int
    BY <1>1, <2>1
  <2>3. d * d * w2 * v2 = x
    BY <1>1, <2>1
  <2>4. w1 * v2 + v1 * w2 = y
    BY <1>1
  <2> HIDE DEF x, y
  <2>5. ~(x <= 2 * 2 * y) <=> x > 4 * y
    BY <2>2
  <2> QED BY <2>3, <2>4, <2>5 DEF x, y
<1>4. Abs(d) >= 10 <=> d >= 10 \/ old - new >= 10
  <2> HIDE DEF new, old
  <2> QED BY <1>1 DEF Abs
<1>5. Abs(d) >= 10 /\ PctAbove(new, old, percent)
        <=> /\ d >= 10 \/ (percent < 0 /\ old - new >= 10)
            /\ old = 0 \/ 100 * new > (100 + percent) * old
  <2> HIDE DEF new, old
  <2> DEFINE up == 100 * new > (100 + percent) * old
  <2>1. CASE old = 0
    <3>1. ~(old - new >= 10)
      BY <1>1, <2>1
    <3>2. d >= 10 => new # 0
      BY <1>1, <2>1
    <3> QED BY <1>4, <2>1, <3>1, <3>2 DEF PctAbove
  <2>2. CASE old # 0
    <3> DEFINE m == percent * old
    <3>1. m \in Int /\ (100 + percent) * old = 100 * old + m
      BY <1>1
    <3>2. up <=> d * 100 > m
      <4> HIDE DEF m
      <4>1. (100 + percent) * old = 100 * old + m
        BY <3>1
      <4> QED BY <1>1, <3>1, <4>1
    <3>3. PctAbove(new, old, percent) <=> up
      BY <2>2, <3>2 DEF PctAbove
    <3>4. percent >= 0 /\ up => ~(old - new >= 10)
      <4>1. percent >= 0 => m >= 0
        BY <1>1
      <4> HIDE DEF m, up
      <4>2. m >= 0 /\ d * 100 > m => ~(old - new >= 10)
        BY <1>1, <3>1
      <4> QED BY <3>2, <4>1, <4>2
    <3>5. percent < 0 \/ percent >= 0
      OBVIOUS
    <3> HIDE DEF up, m, d
    <3> QED BY <1>4, <2>2, <3>3, <3>4, <3>5 DEF up
  <2> QED BY <2>1, <2>2
<1>6. Regressed(c.baseline, c.current, percent)
        <=> /\ d >= 10 \/ (percent < 0 /\ old - new >= 10)
            /\ d * d * w2 * v2 > 4 * (w1 * v2 + v1 * w2)
            /\ old = 0 \/ 100 * new > (100 + percent) * old
  BY DEF Regressed
<1> HIDE DEF new, old, v1, v2, w1, w2, d, noise
<1> QED BY <1>2, <1>3, <1>5, <1>6

\* A comparison has everything of both runs in one place.
BothRunsShown(current, earlier, r) ==
  /\ DOMAIN r.matched \cup DOMAIN r.onlyInCurrent = DOMAIN current
  /\ DOMAIN r.matched \cap DOMAIN r.onlyInCurrent = {}
  /\ \A j \in DOMAIN current : LET k == Key(current[j]) IN
       (\E n \in DOMAIN earlier : Key(earlier[n]) = k)
         <=> (\E n \in DOMAIN r.matched : r.matched[n].key = k
                                          /\ r.matched[n].current = current[j].timing)
  /\ r.onlyInBaseline = {Key(earlier[n]) : n \in DOMAIN earlier}
                          \ {Key(current[j]) : j \in DOMAIN current}

LEMMA ComparisonIs ==
  ASSUME NEW current, AreResults(current), NEW earlier, AreResults(earlier)
  PROVE  LET r == CompareRuns(current, earlier) IN
         /\ BothRunsShown(current, earlier, r)
         /\ \A j \in DOMAIN r.matched : IsTiming(r.matched[j].current) /\ IsTiming(r.matched[j].baseline)
<1> DEFINE old == ByKey(earlier)
           known == {i \in DOMAIN current : Key(current[i]) \in DOMAIN old}
           row(i) == [key |-> Key(current[i]), current |-> current[i].timing,
                      baseline |-> old[Key(current[i])]]
           r == CompareRuns(current, earlier)
<1>1. /\ DOMAIN old = {Key(earlier[n]) : n \in DOMAIN earlier}
      /\ DOMAIN ByKey(current) = {Key(current[j]) : j \in DOMAIN current}
      /\ \A k \in DOMAIN old : IsTiming(old[k])
  BY KeyedResults
<1>2. /\ r.matched = [i \in known |-> row(i)]
      /\ r.onlyInCurrent = [i \in DOMAIN current \ known |-> Key(current[i])]
      /\ r.onlyInBaseline = DOMAIN old \ DOMAIN ByKey(current)
  BY DEF CompareRuns
<1>3. /\ DOMAIN r.matched = known
      /\ \A i \in known : /\ r.matched[i].key = Key(current[i])
                           /\ r.matched[i].current = current[i].timing
                           /\ r.matched[i].baseline = old[Key(current[i])]
      /\ DOMAIN r.onlyInCurrent = DOMAIN current \ known
  <2>1. \A i : /\ row(i).key = Key(current[i]) /\ row(i).current = current[i].timing
               /\ row(i).baseline = old[Key(current[i])]
    OBVIOUS
  <2>2. /\ DOMAIN r.matched = known /\ \A i \in known : r.matched[i] = row(i)
        /\ DOMAIN r.onlyInCurrent = DOMAIN current \ known
    <3> HIDE DEF known, row, r
    <3> QED BY <1>2
  <2> HIDE DEF known, row, r, old
  <2> QED BY <2>1, <2>2
<1> HIDE DEF r, old
<1>4. \A i \in DOMAIN current : IsTiming(current[i].timing)
  BY DEF AreResults, IsTiming
<1>5. \A j \in DOMAIN r.matched : IsTiming(r.matched[j].current) /\ IsTiming(r.matched[j].baseline)
  BY <1>1, <1>3, <1>4
<1>6. \A j \in DOMAIN current : LET k == Key(current[j]) IN
        (\E n \in DOMAIN earlier : Key(earlier[n]) = k)
          <=> (\E n \in DOMAIN r.matched : r.matched[n].key = k
                                           /\ r.matched[n].current = current[j].timing)
  <2> SUFFICES ASSUME NEW j \in DOMAIN current
               PROVE  (\E n \in DOMAIN earlier : Key(earlier[n]) = Key(current[j]))
                        <=> (\E n \in DOMAIN r.matched : r.matched[n].key = Key(current[j])
                                                         /\ r.matched[n].current = current[j].timing)
    OBVIOUS
  <2>1. (\E n \in DOMAIN earlier : Key(earlier[n]) = Key(current[j])) <=> j \in known
    BY <1>1
  <2>2. j \in known => r.matched[j].key = Key(current[j]) /\ r.matched[j].current = current[j].timing
    BY <1>3
  <2>3. ASSUME NEW n \in known, r.matched[n].key = Key(current[j]) PROVE j \in known
    <3>1. r.matched[n].key = Key(current[n]) /\ Key(current[n]) \in DOMAIN old
      BY <1>3
    <3> QED BY <2>3, <3>1
  <2> HIDE DEF known, row
  <2> QED BY <1>3, <2>1, <2>2, <2>3
<1>7. known \cup (DOMAIN current \ known) = DOMAIN current /\ known \cap (DOMAIN current \ known) = {}
  OBVIOUS
<1>8. BothRunsShown(current, earlier, r)
  <2> HIDE DEF known, row
  <2> QED BY <1>1, <1>2, <1>3, <1>6, <1>7 DEF BothRunsShown
<1> QED BY <1>5, <1>8 DEF r

-------------------------------------------------------------------------------

LEMMA AppendedList ==
  ASSUME NEW s, IsList(s), NEW x
  PROVE  /\ IsList(Append(s, x)) /\ Len(s) \in Nat /\ DOMAIN s = 1..Len(s)
         /\ DOMAIN Append(s, x) = 1..Len(s) + 1 /\ Append(s, x)[Len(s) + 1] = x
         /\ \A i \in DOMAIN s : Append(s, x)[i] = s[i]
<1> DEFINE S == {s[i] : i \in DOMAIN s}
           T == S \cup {x}
           a == Append(s, x)
<1>1. s \in Seq(S) /\ s \in Seq(T) /\ x \in T
  BY DEF IsList
<1>2. Len(s) \in Nat /\ DOMAIN s = 1..Len(s)
  BY <1>1
<1>3. a \in Seq(T) /\ DOMAIN a = 1..Len(s) + 1 /\ a[Len(s) + 1] = x /\ \A i \in 1..Len(s) : a[i] = s[i]
  <2> HIDE DEF T, S
  <2> QED BY <1>1
<1>4. Len(a) = Len(s) + 1 /\ Len(a) \in Nat
  <2> HIDE DEF T, S
  <2> QED BY <1>1
<1> HIDE DEF a
<1>5. a \in [1..Len(a) -> {a[i] : i \in DOMAIN a}]
  <2>1. a = [i \in 1..Len(a) |-> a[i]]
    <3> HIDE DEF T, S
    <3> QED BY <1>3, <1>4
  <2> QED BY <1>3, <1>4, <2>1
<1>6. a \in Seq({a[i] : i \in DOMAIN a})
  <2> DEFINE U == {a[i] : i \in DOMAIN a}
  <2> HIDE DEF U
  <2>1. a \in [1..Len(a) -> U]
    BY <1>5 DEF U
  <2>2. a \in Seq(U)
    BY <1>4, <2>1
  <2> QED BY <2>2 DEF U
<1> QED BY <1>2, <1>3, <1>6 DEF IsList, a

LEMMA RestOfList ==
  ASSUME NEW s, IsList(s), s # <<>>
  PROVE  /\ IsList(Tail(s)) /\ Head(s) = s[1]
         /\ {s[i] : i \in DOMAIN s} = {s[1]} \cup {Tail(s)[i] : i \in DOMAIN Tail(s)}
<1> DEFINE S == {s[i] : i \in DOMAIN s}
           a == Tail(s)
<1>1. s \in Seq(S)
  BY DEF IsList
<1> HIDE DEF S
<1>2. PICK n \in Nat : n = Len(s)
  BY <1>1
<1>3. n # 0 /\ DOMAIN s = 1..n
  BY <1>1, <1>2
<1>4. Len(a) = n - 1 /\ DOMAIN a = 1..n - 1 /\ a \in Seq(S) /\ \A i \in 1..n - 1 : a[i] = s[i + 1]
  BY <1>1, <1>2, <1>3
<1>5. Head(s) = s[1]
  BY <1>1, <1>3
<1> HIDE DEF a
<1>6. IsList(a)
  <2>1. a = [i \in 1..n - 1 |-> a[i]]
    BY <1>4
  <2> DEFINE U == {a[i] : i \in DOMAIN a}
  <2>2. \A i \in 1..n - 1 : a[i] \in U
    BY <1>4
  <2> HIDE DEF U
  <2>3. a \in [1..n - 1 -> U] /\ n - 1 \in Nat
    BY <1>2, <1>3, <2>1, <2>2
  <2>4. a \in Seq(U)
    BY <2>3
  <2> QED BY <2>4 DEF U, IsList
<1>7. ASSUME NEW i \in DOMAIN s PROVE s[i] = s[1] \/ \E j \in DOMAIN a : s[i] = a[j]
  <2>1. CASE i = 1
    BY <2>1
  <2>2. CASE i # 1
    <3>1. i - 1 \in 1..n - 1 /\ (i - 1) + 1 = i
      BY <1>2, <1>3, <2>2
    <3>2. a[i - 1] = s[i] /\ i - 1 \in DOMAIN a
      BY <1>4, <3>1
    <3> QED BY <3>2
  <2> QED BY <2>1, <2>2
<1>8. ASSUME NEW j \in DOMAIN a PROVE \E i \in DOMAIN s : a[j] = s[i]
  <2>1. n \in Nat /\ j \in 1..n - 1
    BY <1>2, <1>4, <1>8
  <2>2. j + 1 \in DOMAIN s /\ a[j] = s[j + 1]
    BY <1>3, <1>4, <2>1
  <2> QED BY <2>2
<1>9. 1 \in DOMAIN s
  BY <1>2, <1>3
<1>10. {s[i] : i \in DOMAIN s} = {s[1]} \cup {a[i] : i \in DOMAIN a}
  BY <1>7, <1>8, <1>9
<1> QED BY <1>5, <1>6, <1>10 DEF a

InBenchmarkRuns ==
  /\ args \in BenchmarkRuns /\ ArgsAccepted(args)
  /\ benchStage \in {"start", "measuring", "compare", "spinning", "exited"}

\* The keys of the benchmarks of a task, of what is left of one, and of results.
KeysOf(task) ==
  {task.name} \X {TargetFiles[k][1] : k \in {l \in DOMAIN TargetFiles : /\ TargetFiles[l][2] \subseteq task.files
                                                                      /\ IsTargetEnabled(task, TargetFiles[l][1])}}
KeysLeft(f) == {<<f[i].name, f[i].target>> : i \in DOMAIN f}
KeysMeasured == {<<measured[i].benchmark, measured[i].target>> : i \in DOMAIN measured}
KeysWanted ==
  UNION {{args.corpus[1][i].name} \X Wanted(args.corpus[1][i], args.targets) : i \in DOMAIN args.corpus[1]}

\* What was measured, is being measured and is to be measured is what is wanted.
NothingLost ==
  KeysMeasured \cup KeysLeft(pending) \cup UNION {KeysOf(t) : t \in {tasks[i] : i \in DOMAIN tasks}} = KeysWanted

Results == <<<<"results", measured>>>>
Threshold == IF args.threshold = NotGiven THEN 5 ELSE args.threshold[1]
Reports == [i \in DOMAIN args.compare |-> CompareRuns(measured, args.compare[i][1])]
Marked ==
  [i \in DOMAIN Reports |-> {j \in DOMAIN Reports[i].matched :
                               SignificanceOf(Reports[i].matched[j], Threshold) = "regression"}]
Document == IF args.json THEN <<"reports", Reports>> ELSE <<"tables", Reports, Marked>>

\* The comparison was printed, after the results or alone.
Reported ==
  /\ args.compare # <<>> /\ \A i \in DOMAIN args.compare : args.compare[i] # NotGiven
  /\ printed = <<Document>> \/ (~args.json /\ printed = <<<<"results", measured>>, Document>>)
  /\ benchExit = IF args.threshold # NotGiven /\ HasRegression(Reports, Threshold) THEN 1 ELSE 0

\* What is so at each stage.
BenchInv ==
  /\ InBenchmarkRuns
  /\ IsList(tasks) /\ AreResults(measured) /\ DOMAIN pending \subseteq Nat
  /\ args.corpus # NotGiven => \A i \in DOMAIN measured : InOrder(measured[i].timing)
  /\ benchStage = "start" => printed = <<>> /\ measured = <<>> /\ DOMAIN pending = {}
  /\ benchStage = "measuring" => args.corpus # NotGiven /\ printed = <<>> /\ NothingLost
  /\ benchStage = "compare" =>
       /\ printed = <<>> \/ printed = Results
       /\ printed = <<>> => args.compare # <<>>
       /\ args.json /\ args.compare # <<>> => printed = <<>>
       /\ args.corpus # NotGiven => KeysMeasured = KeysWanted
  /\ benchStage = "spinning" => printed = <<>>
  /\ benchStage = "exited" =>
       \/ (printed = <<>> \/ printed = Results) /\ (benchExit = 0 => printed # <<>>)
       \/ Reported

-------------------------------------------------------------------------------

LEMMA MadeList ==
  ASSUME NEW n \in Nat, NEW f, f = [i \in 1..n |-> f[i]]
  PROVE  IsList(f)
<1> DEFINE U == {f[i] : i \in DOMAIN f}
<1>1. \A i \in 1..n : f[i] \in U
  OBVIOUS
<1> HIDE DEF U
<1>2. f \in [1..n -> U]
  BY <1>1
<1>3. f \in Seq(U)
  BY <1>2
<1> QED BY <1>3 DEF U, IsList

LEMMA NoList == IsList(<<>>) /\ AreResults(<<>>) /\ DOMAIN <<>> = {}
<1>1. \A S : <<>> \in Seq(S)
  OBVIOUS
<1>2. DOMAIN <<>> = {}
  OBVIOUS
<1> QED BY <1>1, <1>2 DEF IsList, AreResults

\* The names of the targets.
LEMMA TargetNames == \A k \in DOMAIN TargetFiles : TargetFiles[k][1] \in Targets
BY DEF TargetFiles, Targets

\* A task that was restricted has the targets that are wanted of it.
LEMMA RestrictedIs ==
  ASSUME NEW task, DOMAIN task = {"name", "files", "exclude", "only"}, NEW targets
  PROVE  KeysOf(Restricted(task, targets)) = {task.name} \X Wanted(task, targets)
<1> DEFINE r == Restricted(task, targets)
           enabled(t) == IsTargetEnabled(r, t)
           wanted(t) == /\ t \notin task.exclude
                        /\ task.only = NotGiven \/ t \in task.only[1]
                        /\ targets = NotGiven \/ t \in targets[1]
           only == IF targets = NotGiven THEN task.only
                   ELSE IF task.only = NotGiven THEN targets ELSE <<task.only[1] \cap targets[1]>>
<1>1. r.name = task.name /\ r.files = task.files /\ r.exclude = task.exclude /\ r.only = only
  BY DEF Restricted
<1>2. \A t : enabled(t) <=> wanted(t)
  <2> SUFFICES ASSUME NEW t PROVE enabled(t) <=> wanted(t)
    OBVIOUS
  <2>1. enabled(t) <=> (only = NotGiven \/ t \in only[1]) /\ t \notin task.exclude
    BY <1>1 DEF IsTargetEnabled
  <2>2. CASE targets = NotGiven
    BY <2>1, <2>2
  <2>3. CASE targets # NotGiven /\ task.only = NotGiven
    BY <2>1, <2>3
  <2>4. CASE targets # NotGiven /\ task.only # NotGiven
    <3> DEFINE both == task.only[1] \cap targets[1]
    <3>1. only = <<both>>
      BY <2>4
    <3>2. <<both>> # NotGiven /\ <<both>>[1] = both
      BY DEF NotGiven
    <3> QED BY <2>1, <2>4, <3>1, <3>2
  <2> QED BY <2>2, <2>3, <2>4
<1> DEFINE names == {TargetFiles[k][1] : k \in {l \in DOMAIN TargetFiles :
                       TargetFiles[l][2] \subseteq r.files /\ IsTargetEnabled(r, TargetFiles[l][1])}}
<1>3. Wanted(task, targets) =
        {t \in Targets : wanted(t) /\ \E k \in DOMAIN TargetFiles : TargetFiles[k][1] = t
                                                                    /\ TargetFiles[k][2] \subseteq task.files}
  BY DEF Wanted
<1> HIDE DEF wanted, only
<1>4. names = Wanted(task, targets)
  <2> HIDE DEF r
  <2>1. \A k \in DOMAIN TargetFiles : IsTargetEnabled(r, TargetFiles[k][1]) <=> wanted(TargetFiles[k][1])
    BY <1>2
  <2> QED BY <1>1, <1>3, <2>1, TargetNames
<1>5. KeysOf(r) = {r.name} \X names
  BY DEF KeysOf
<1> HIDE DEF names, r
<1> QED BY <1>1, <1>4, <1>5 DEF r

\* Its benchmarks are of those targets.
LEMMA ExpandedIs ==
  ASSUME NEW task
  PROVE  /\ KeysLeft(IntoBenchmarkTasks(task)) = KeysOf(task)
         /\ DOMAIN IntoBenchmarkTasks(task) \subseteq Nat
<1> DEFINE places == {l \in DOMAIN TargetFiles : /\ TargetFiles[l][2] \subseteq task.files
                                                /\ IsTargetEnabled(task, TargetFiles[l][1])}
           b(i) == [name |-> task.name, target |-> TargetFiles[i][1], files |-> task.files]
           f == IntoBenchmarkTasks(task)
<1>1. f = [i \in places |-> b(i)]
  BY DEF IntoBenchmarkTasks
<1>2. places \subseteq Nat
  BY DEF TargetFiles
<1>3. \A i : b(i).name = task.name /\ b(i).target = TargetFiles[i][1]
  OBVIOUS
<1> HIDE DEF b, places, f
<1>4. DOMAIN f = places /\ \A i \in places : f[i].name = task.name /\ f[i].target = TargetFiles[i][1]
  BY <1>1, <1>3
<1>5. KeysLeft(f) = {<<task.name, TargetFiles[i][1]>> : i \in places}
  BY <1>4 DEF KeysLeft
<1>6. KeysOf(task) = {task.name} \X {TargetFiles[k][1] : k \in places}
  BY DEF KeysOf, places
<1>7. KeysLeft(f) = KeysOf(task)
  BY <1>5, <1>6
<1> QED BY <1>2, <1>4, <1>7 DEF f

LEMMA BenchInitial == BenchInit => BenchInv
<1> SUFFICES ASSUME BenchInit PROVE BenchInv
  OBVIOUS
<1>1. InBenchmarkRuns /\ benchStage = "start"
  BY DEF BenchInit, InBenchmarkRuns
<1>2. tasks = <<>> /\ pending = <<>> /\ measured = <<>> /\ printed = <<>>
  BY DEF BenchInit
<1> QED BY <1>1, <1>2, NoList DEF BenchInv

\* The process ends early: there is no report, and it failed.
LEMMA StopKeeps ==
  ASSUME BenchInv, benchStage \in {"start", "measuring", "compare"}, NEW code, Stop(code),
         code = 0 => printed # <<>>
  PROVE  BenchInv'
<1>1. /\ args' = args /\ tasks' = tasks /\ pending' = pending /\ measured' = measured
      /\ printed' = printed /\ benchStage' = "exited" /\ benchExit' = code
  BY DEF Stop, Quit
<1>2. printed = <<>> \/ printed = Results
  BY DEF BenchInv
<1>3. Results' = Results /\ InBenchmarkRuns'
  BY <1>1 DEF Results, BenchInv, InBenchmarkRuns
<1>4. AreResults(measured)' /\ IsList(tasks)' /\ (DOMAIN pending \subseteq Nat)'
  BY <1>1 DEF BenchInv
<1>5. (args.corpus # NotGiven => \A i \in DOMAIN measured : InOrder(measured[i].timing))'
  BY <1>1 DEF BenchInv
<1>6. (printed' = <<>> \/ printed' = Results') /\ (benchExit' = 0 => printed' # <<>>)
  BY <1>1, <1>2, <1>3
<1> QED BY <1>1, <1>3, <1>4, <1>5, <1>6 DEF BenchInv

\* The corpus is loaded, or an earlier run is.
LEMMA StartKeeps == BenchInv /\ Start => BenchInv'
<1> SUFFICES ASSUME BenchInv, Start PROVE BenchInv'
  OBVIOUS
<1>1. benchStage = "start" /\ printed = <<>> /\ measured = <<>> /\ DOMAIN pending = {} /\ InBenchmarkRuns
  BY DEF Start, BenchInv
<1>2. args \in BenchmarkRuns /\ ArgsAccepted(args)
  BY <1>1 DEF InBenchmarkRuns
<1>3. CASE args.corpus # NotGiven /\ ~Unreadable
  <2> DEFINE corpus == args.corpus[1]
             f == [i \in DOMAIN corpus |-> Restricted(corpus[i], args.targets)]
  <2>1. /\ benchStage' = "measuring" /\ tasks' = f /\ args' = args /\ pending' = pending
        /\ measured' = measured /\ printed' = printed
    BY <1>3 DEF Start
  <2>2. /\ IsList(corpus)
        /\ \A i \in DOMAIN corpus : DOMAIN corpus[i] = {"name", "files", "exclude", "only"}
    BY <1>2, <1>3, CommandLines
  <2>3. Len(corpus) \in Nat /\ DOMAIN corpus = 1..Len(corpus)
    BY <2>2 DEF IsList
  <2>4. DOMAIN f = DOMAIN corpus /\ \A i \in DOMAIN corpus : f[i] = Restricted(corpus[i], args.targets)
    OBVIOUS
  <2>5. IsList(f)
    <3>1. f = [i \in 1..Len(corpus) |-> f[i]]
      BY <2>3
    <3> HIDE DEF f, corpus
    <3>2. PICK n \in Nat : n = Len(corpus)
      BY <2>3
    <3> QED BY <3>1, <3>2, MadeList
  <2>6. \A i \in DOMAIN corpus : KeysOf(f[i]) = {corpus[i].name} \X Wanted(corpus[i], args.targets)
    BY <2>2, <2>4, RestrictedIs
  <2>7. NothingLost'
    <3>1. KeysWanted' = UNION {{corpus[i].name} \X Wanted(corpus[i], args.targets) : i \in DOMAIN corpus}
      BY <2>1 DEF KeysWanted
    <3>2. KeysMeasured' = {} /\ KeysLeft(pending)' = {}
      BY <1>1, <2>1, NoList DEF KeysMeasured, KeysLeft
    <3> HIDE DEF f
    <3>3. UNION {KeysOf(t) : t \in {f[i] : i \in DOMAIN f}}
            = UNION {{corpus[i].name} \X Wanted(corpus[i], args.targets) : i \in DOMAIN corpus}
      <4> HIDE DEF corpus
      <4>1. \A i \in DOMAIN f : KeysOf(f[i]) = {corpus[i].name} \X Wanted(corpus[i], args.targets)
        BY <2>4, <2>6
      <4>2. {KeysOf(t) : t \in {f[i] : i \in DOMAIN f}} = {KeysOf(f[i]) : i \in DOMAIN f}
        OBVIOUS
      <4> QED BY <2>4, <4>1, <4>2
    <3> HIDE DEF corpus
    <3> QED BY <2>1, <3>1, <3>2, <3>3 DEF NothingLost
  <2>8. InBenchmarkRuns'
    BY <1>1, <2>1 DEF InBenchmarkRuns
  <2>9. AreResults(measured)' /\ IsList(tasks)' /\ (DOMAIN pending \subseteq Nat)' /\ printed' = <<>>
    BY <1>1, <2>1, <2>5 DEF BenchInv
  <2>10. (args.corpus # NotGiven => \A i \in DOMAIN measured : InOrder(measured[i].timing))'
    BY <2>1 DEF BenchInv
  <2> QED BY <1>3, <2>1, <2>7, <2>8, <2>9, <2>10 DEF BenchInv
<1>4. CASE args.corpus = NotGiven /\ args.baseline # NotGiven /\ args.baseline[1] # NotGiven
  <2>1. /\ benchStage' = "compare" /\ measured' = args.baseline[1][1] /\ args' = args
        /\ tasks' = tasks /\ pending' = pending /\ printed' = printed
    BY <1>4 DEF Start
  <2>2. AreResults(measured')
    BY <1>2, <1>4, <2>1, CommandLines
  <2>3. args.compare # <<>>
    BY <1>2, <1>4 DEF ArgsAccepted
  <2>4. InBenchmarkRuns'
    BY <1>1, <2>1 DEF InBenchmarkRuns
  <2>5. IsList(tasks)' /\ (DOMAIN pending \subseteq Nat)'
    BY <2>1 DEF BenchInv
  <2> QED BY <1>1, <1>4, <2>1, <2>2, <2>3, <2>4, <2>5 DEF BenchInv
<1>5. CASE /\ ~(args.corpus # NotGiven /\ ~Unreadable)
           /\ ~(args.corpus = NotGiven /\ args.baseline # NotGiven /\ args.baseline[1] # NotGiven)
  <2>1. Stop(1)
    BY <1>5 DEF Start
  <2> QED BY <1>1, <2>1, StopKeeps
<1> QED BY <1>3, <1>4, <1>5

\* A task becomes its benchmarks.
LEMMA ExpandKeeps == BenchInv /\ Expand => BenchInv'
<1> SUFFICES ASSUME BenchInv, Expand PROVE BenchInv'
  OBVIOUS
<1>1. benchStage = "measuring" /\ DOMAIN pending = {} /\ tasks # <<>>
  BY DEF Expand
<1>2. Stop(1) \/ (/\ pending' = IntoBenchmarkTasks(Head(tasks)) /\ tasks' = Tail(tasks)
                  /\ UNCHANGED <<args, benchStage, measured, printed, benchExit>>)
  BY DEF Expand
<1>3. CASE Stop(1)
  BY <1>1, <1>3, StopKeeps
<1>4. CASE /\ pending' = IntoBenchmarkTasks(Head(tasks)) /\ tasks' = Tail(tasks)
           /\ UNCHANGED <<args, benchStage, measured, printed, benchExit>>
  <2>1. /\ args' = args /\ benchStage' = benchStage /\ measured' = measured /\ printed' = printed
        /\ pending' = IntoBenchmarkTasks(Head(tasks)) /\ tasks' = Tail(tasks)
    BY <1>4
  <2>2. /\ InBenchmarkRuns /\ IsList(tasks) /\ AreResults(measured) /\ args.corpus # NotGiven
        /\ printed = <<>> /\ NothingLost
        /\ \A i \in DOMAIN measured : InOrder(measured[i].timing)
    BY <1>1 DEF BenchInv
  <2>3. /\ IsList(Tail(tasks)) /\ Head(tasks) = tasks[1]
        /\ {tasks[i] : i \in DOMAIN tasks} = {tasks[1]} \cup {Tail(tasks)[i] : i \in DOMAIN Tail(tasks)}
    BY <1>1, <2>2, RestOfList
  <2>4. KeysLeft(pending)' = KeysOf(tasks[1]) /\ (DOMAIN pending \subseteq Nat)'
    BY <2>1, <2>3, ExpandedIs
  <2>5. NothingLost'
    <3>1. KeysMeasured' = KeysMeasured /\ KeysWanted' = KeysWanted
      BY <2>1 DEF KeysMeasured, KeysWanted
    <3>2. KeysLeft(pending) = {}
      BY <1>1 DEF KeysLeft
    <3> DEFINE rest == {Tail(tasks)[i] : i \in DOMAIN Tail(tasks)}
               all == {tasks[i] : i \in DOMAIN tasks}
               first == tasks[1]
    <3>3. {tasks'[i] : i \in DOMAIN tasks'} = rest
      BY <2>1
    <3>4. all = {first} \cup rest
      BY <2>3
    <3>5. KeysMeasured \cup UNION {KeysOf(t) : t \in all} = KeysWanted
      BY <2>2, <3>2 DEF NothingLost
    <3> HIDE DEF rest, all, first
    <3>6. UNION {KeysOf(t) : t \in all} = KeysOf(first) \cup UNION {KeysOf(t) : t \in rest}
      BY <3>4
    <3>7. KeysMeasured \cup KeysOf(first) \cup UNION {KeysOf(t) : t \in rest} = KeysWanted
      BY <3>5, <3>6
    <3>8. KeysLeft(pending)' = KeysOf(first)
      BY <2>4 DEF first
    <3>9. (UNION {KeysOf(t) : t \in {tasks[i] : i \in DOMAIN tasks}})' = UNION {KeysOf(t) : t \in rest}
      BY <3>3
    <3> QED BY <3>1, <3>7, <3>8, <3>9 DEF NothingLost
  <2>6. InBenchmarkRuns' /\ AreResults(measured)' /\ IsList(tasks)'
    BY <2>1, <2>2, <2>3 DEF InBenchmarkRuns
  <2>7. (args.corpus # NotGiven => \A i \in DOMAIN measured : InOrder(measured[i].timing))'
    BY <2>1, <2>2
  <2>8. benchStage' = "measuring" /\ (args.corpus # NotGiven)' /\ printed' = <<>>
    BY <1>1, <2>1, <2>2
  <2> QED BY <2>4, <2>5, <2>6, <2>7, <2>8 DEF BenchInv
<1> QED BY <1>2, <1>3, <1>4

\* A benchmark is timed, or it fails, or it does not end.
LEMMA MeasureKeeps == BenchInv /\ Measure => BenchInv'
<1> SUFFICES ASSUME BenchInv, Measure PROVE BenchInv'
  OBVIOUS
<1> DEFINE next == Min(DOMAIN pending)
           b == pending[next]
<1>1. benchStage = "measuring" /\ DOMAIN pending # {}
  BY DEF Measure
<1>2. /\ InBenchmarkRuns /\ IsList(tasks) /\ AreResults(measured) /\ DOMAIN pending \subseteq Nat
      /\ args.corpus # NotGiven /\ printed = <<>> /\ NothingLost
      /\ \A i \in DOMAIN measured : InOrder(measured[i].timing)
  BY <1>1 DEF BenchInv
<1>3. \/ Stop(1) \/ Stop(101)
      \/ /\ benchStage' = "spinning"
         /\ UNCHANGED <<args, tasks, pending, measured, printed, benchExit>>
      \/ /\ args.trials > 0
         /\ \E times \in [1..args.trials -> args.micros] :
              measured' = Append(measured, [benchmark |-> b.name, target |-> b.target,
                                            timing |-> FromRuns(times)])
         /\ pending' = [i \in DOMAIN pending \ {next} |-> pending[i]]
         /\ UNCHANGED <<args, benchStage, tasks, printed, benchExit>>
  BY DEF Measure
<1>4. CASE Stop(1) \/ Stop(101)
  BY <1>1, <1>4, StopKeeps
<1>5. CASE /\ benchStage' = "spinning"
           /\ UNCHANGED <<args, tasks, pending, measured, printed, benchExit>>
  <2>1. /\ benchStage' = "spinning" /\ args' = args /\ tasks' = tasks /\ pending' = pending
        /\ measured' = measured /\ printed' = printed
    BY <1>5
  <2>2. InBenchmarkRuns' /\ AreResults(measured)' /\ IsList(tasks)' /\ (DOMAIN pending \subseteq Nat)'
    BY <1>2, <2>1 DEF InBenchmarkRuns
  <2>3. (args.corpus # NotGiven => \A i \in DOMAIN measured : InOrder(measured[i].timing))'
    BY <1>2, <2>1
  <2> QED BY <1>2, <2>1, <2>2, <2>3 DEF BenchInv
<1>6. CASE /\ args.trials > 0
           /\ \E times \in [1..args.trials -> args.micros] :
                measured' = Append(measured, [benchmark |-> b.name, target |-> b.target,
                                              timing |-> FromRuns(times)])
           /\ pending' = [i \in DOMAIN pending \ {next} |-> pending[i]]
           /\ UNCHANGED <<args, benchStage, tasks, printed, benchExit>>
  <2> DEFINE result(times) == [benchmark |-> b.name, target |-> b.target, timing |-> FromRuns(times)]
  <2>1. PICK times \in [1..args.trials -> args.micros] : measured' = Append(measured, result(times))
    BY <1>6
  <2>2. /\ args' = args /\ benchStage' = benchStage /\ tasks' = tasks /\ printed' = printed
        /\ pending' = [i \in DOMAIN pending \ {next} |-> pending[i]]
    BY <1>6
  <2>3. InOrder(FromRuns(times)) /\ IsTiming(FromRuns(times))
    <3>1. args.trials \in Nat \ {0} /\ args.micros \subseteq Nat
      BY <1>2, <1>6, CommandLines DEF InBenchmarkRuns
    <3>2. times \in [1..args.trials -> Nat]
      BY <2>1, <3>1
    <3>3. PICK n \in Nat \ {0} : n = args.trials
      BY <3>1
    <3> QED BY <3>2, <3>3, StatisticsInOrder
  <2> DEFINE x == result(times)
  <2>4. x.benchmark = b.name /\ x.target = b.target /\ x.timing = FromRuns(times)
    OBVIOUS
  <2> HIDE DEF x, next
  <2>5. measured' = Append(measured, x)
    BY <2>1 DEF x
  <2>6. /\ IsList(measured') /\ Len(measured) \in Nat /\ DOMAIN measured = 1..Len(measured)
        /\ DOMAIN measured' = 1..Len(measured) + 1 /\ measured'[Len(measured) + 1] = x
        /\ \A i \in DOMAIN measured : measured'[i] = measured[i]
    BY <1>2, <2>5, AppendedList DEF AreResults
  <2>7. \A i \in DOMAIN measured' : i \in DOMAIN measured \/ i = Len(measured) + 1
    BY <2>6
  <2>8. AreResults(measured)'
    <3>1. \A i \in DOMAIN measured' : /\ measured'[i].timing.average \in Nat
                                      /\ measured'[i].timing.variance[1] \in Nat
                                      /\ measured'[i].timing.variance[2] \in Nat \ {0}
      BY <1>2, <2>3, <2>4, <2>6, <2>7 DEF AreResults, IsTiming
    <3> QED BY <2>6, <3>1 DEF AreResults
  <2>9. (args.corpus # NotGiven => \A i \in DOMAIN measured : InOrder(measured[i].timing))'
    BY <1>2, <2>3, <2>4, <2>6, <2>7
  <2>10. NothingLost'
    <3> DEFINE key == <<b.name, b.target>>
               rest == UNION {KeysOf(t) : t \in {tasks[i] : i \in DOMAIN tasks}}
    <3>1. KeysMeasured' = KeysMeasured \cup {key}
      <4>1. \A i \in DOMAIN measured' : \/ i \in DOMAIN measured /\ measured'[i] = measured[i]
                                        \/ measured'[i] = x
        BY <2>6, <2>7
      <4>2. <<x.benchmark, x.target>> = key
        BY <2>4
      <4>3. \A i \in DOMAIN measured : i \in DOMAIN measured' /\ measured'[i] = measured[i]
        BY <2>6
      <4>4. Len(measured) + 1 \in DOMAIN measured'
        BY <2>6
      <4> HIDE DEF key, b
      <4> QED BY <2>6, <4>1, <4>2, <4>3, <4>4 DEF KeysMeasured
    <3>2. KeysLeft(pending) = KeysLeft(pending') \cup {key}
      <4>1. next \in DOMAIN pending
        BY <1>1, <1>2, LeastOf DEF next
      <4>2. /\ DOMAIN pending' = DOMAIN pending \ {next}
            /\ \A i \in DOMAIN pending \ {next} : pending'[i] = pending[i]
        BY <2>2
      <4> QED BY <4>1, <4>2 DEF KeysLeft
    <3>3. KeysWanted' = KeysWanted /\ rest' = rest
      BY <2>2 DEF KeysWanted
    <3>4. KeysMeasured \cup KeysLeft(pending) \cup rest = KeysWanted
      BY <1>2 DEF NothingLost
    <3>5. KeysMeasured' \cup KeysLeft(pending)' \cup rest' = KeysWanted'
      <4> HIDE DEF rest, key
      <4> QED BY <3>1, <3>2, <3>3, <3>4
    <3> QED BY <3>5 DEF NothingLost
  <2>11. (DOMAIN pending \subseteq Nat)'
    BY <1>2, <2>2
  <2>12. InBenchmarkRuns' /\ IsList(tasks)' /\ benchStage' = "measuring" /\ (args.corpus # NotGiven)' /\ printed' = <<>>
    BY <1>1, <1>2, <2>2 DEF InBenchmarkRuns
  <2> QED BY <2>8, <2>9, <2>10, <2>11, <2>12 DEF BenchInv
<1> QED BY <1>3, <1>4, <1>5, <1>6

\* Everything was measured.
LEMMA PrintBenchmarksKeeps == BenchInv /\ PrintBenchmarks => BenchInv'
<1> SUFFICES ASSUME BenchInv, PrintBenchmarks PROVE BenchInv'
  OBVIOUS
<1>1. /\ benchStage = "measuring" /\ DOMAIN pending = {} /\ tasks = <<>>
      /\ printed' = IF ~args.json \/ args.compare = <<>> THEN <<<<"results", measured>>>> ELSE <<>>
      /\ benchStage' = "compare" /\ args' = args /\ tasks' = tasks /\ pending' = pending
      /\ measured' = measured
  BY DEF PrintBenchmarks
<1>2. /\ InBenchmarkRuns /\ IsList(tasks) /\ AreResults(measured) /\ DOMAIN pending \subseteq Nat
      /\ NothingLost /\ \A i \in DOMAIN measured : InOrder(measured[i].timing)
  BY <1>1 DEF BenchInv
<1>3. KeysMeasured = KeysWanted
  <2>1. KeysLeft(pending) = {}
    BY <1>1 DEF KeysLeft
  <2>2. {tasks[i] : i \in DOMAIN tasks} = {}
    BY <1>1, NoList
  <2>3. UNION {KeysOf(t) : t \in {tasks[i] : i \in DOMAIN tasks}} = {}
    BY <2>2
  <2> QED BY <1>2, <2>1, <2>3 DEF NothingLost
<1>4. KeysMeasured' = KeysMeasured /\ KeysWanted' = KeysWanted /\ Results' = Results
  BY <1>1 DEF KeysMeasured, KeysWanted, Results
<1>5. InBenchmarkRuns' /\ AreResults(measured)' /\ IsList(tasks)' /\ (DOMAIN pending \subseteq Nat)'
  BY <1>1, <1>2 DEF InBenchmarkRuns
<1>6. (args.corpus # NotGiven => \A i \in DOMAIN measured : InOrder(measured[i].timing))'
  BY <1>1, <1>2
<1>7. Results # <<>>
  BY DEF Results
<1>8. /\ printed' = <<>> \/ printed' = Results
      /\ printed' = <<>> => args.compare # <<>>
      /\ args.json /\ args.compare # <<>> => printed' = <<>>
  <2>1. CASE ~args.json \/ args.compare = <<>>
    <3>1. printed' = Results
      BY <1>1, <2>1 DEF Results
    <3> QED BY <1>7, <2>1, <3>1
  <2>2. CASE ~(~args.json \/ args.compare = <<>>)
    BY <1>1, <2>2
  <2> QED BY <2>1, <2>2
<1>9. (args.corpus # NotGiven => KeysMeasured = KeysWanted)'
  BY <1>3, <1>4
<1>10. benchStage' = "compare" /\ args' = args
  BY <1>1
<1> QED BY <1>4, <1>5, <1>6, <1>8, <1>9, <1>10 DEF BenchInv

LEMMA TwoDocuments == \A x, y : Append(<<x>>, y) = <<x, y>>
<1> SUFFICES ASSUME NEW x, NEW y PROVE Append(<<x>>, y) = <<x, y>>
  OBVIOUS
<1>1. <<x>> \in Seq({x, y}) /\ <<x, y>> \in Seq({x, y}) /\ y \in {x, y}
  OBVIOUS
<1>2. Append(<<x>>, y) \in Seq({x, y}) /\ Len(Append(<<x>>, y)) = 2
      /\ Append(<<x>>, y)[1] = x /\ Append(<<x>>, y)[2] = y
  BY <1>1
<1>3. \A i \in 1..2 : Append(<<x>>, y)[i] = <<x, y>>[i]
  BY <1>2
<1> QED BY <1>1, <1>2, <1>3, SeqEqual

\* The measured results are compared with earlier ones.
LEMMA ComparisonKeeps == BenchInv /\ Comparison => BenchInv'
<1> SUFFICES ASSUME BenchInv, Comparison PROVE BenchInv'
  OBVIOUS
<1>1. benchStage = "compare"
  BY DEF Comparison
<1>2. /\ InBenchmarkRuns /\ IsList(tasks) /\ AreResults(measured) /\ DOMAIN pending \subseteq Nat
      /\ printed = <<>> \/ printed = Results
      /\ printed = <<>> => args.compare # <<>>
      /\ args.json /\ args.compare # <<>> => printed = <<>>
      /\ args.corpus # NotGiven => \A i \in DOMAIN measured : InOrder(measured[i].timing)
  BY <1>1 DEF BenchInv
<1>3. CASE args.compare = <<>>
  <2>1. Stop(0)
    BY <1>3, NoList DEF Comparison
  <2> QED BY <1>1, <1>2, <1>3, <2>1, StopKeeps
<1>4. CASE args.compare # <<>> /\ \E i \in DOMAIN args.compare : args.compare[i] = NotGiven
  <2>1. Stop(1)
    BY <1>4 DEF Comparison
  <2> QED BY <1>1, <2>1, StopKeeps
<1>5. CASE args.compare # <<>> /\ ~\E i \in DOMAIN args.compare : args.compare[i] = NotGiven
  <2>1. /\ printed' = Append(printed, Document)
        /\ Quit(IF args.threshold # NotGiven /\ HasRegression(Reports, Threshold) THEN 1 ELSE 0)
        /\ UNCHANGED <<args, tasks, pending, measured>>
    <3>1. Comparison =>
            /\ printed' = Append(printed,
                 IF args.json THEN <<"reports", Reports>> ELSE <<"tables", Reports, Marked>>)
            /\ Quit(IF args.threshold # NotGiven /\ HasRegression(Reports, Threshold) THEN 1 ELSE 0)
            /\ UNCHANGED <<args, tasks, pending, measured>>
      BY <1>5 DEF Comparison, Reports, Threshold, Marked
    <3> QED BY <3>1 DEF Document
  <2>2. /\ args' = args /\ tasks' = tasks /\ pending' = pending /\ measured' = measured
        /\ benchStage' = "exited"
        /\ benchExit' = IF args.threshold # NotGiven /\ HasRegression(Reports, Threshold) THEN 1 ELSE 0
    BY <2>1 DEF Quit
  <2>3. Reports' = Reports /\ Threshold' = Threshold /\ Results' = Results
    BY <2>2 DEF Reports, Threshold, Results
  <2>4. Marked' = Marked
    BY <2>3 DEF Marked
  <2>5. Document' = Document
    BY <2>2, <2>3, <2>4 DEF Document
  <2>6. printed' = <<Document>> \/ (~args.json /\ printed' = <<<<"results", measured>>, Document>>)
    <3> DEFINE d == Document
    <3> HIDE DEF d
    <3>1. printed' = Append(printed, d)
      BY <2>1 DEF d
    <3>2. CASE printed = <<>>
      <4>1. Append(printed, d) = <<d>>
        BY <3>2
      <4> QED BY <3>1, <4>1 DEF d
    <3>3. CASE printed # <<>>
      <4>1. printed = <<<<"results", measured>>>> /\ ~args.json
        BY <1>2, <1>5, <3>3 DEF Results
      <4> DEFINE r == <<"results", measured>>
      <4> HIDE DEF r
      <4>2. printed = <<r>>
        BY <4>1 DEF r
      <4>3. Append(printed, d) = <<r, d>>
        BY <4>2, TwoDocuments
      <4> QED BY <3>1, <4>1, <4>3 DEF d, r
    <3> QED BY <3>2, <3>3
  <2>7. Reported'
    <3>1. args'.compare # <<>> /\ \A i \in DOMAIN args'.compare : args'.compare[i] # NotGiven
      BY <1>5, <2>2
    <3>2. printed' = <<Document'>> \/ (~args'.json /\ printed' = <<<<"results", measured'>>, Document'>>)
      BY <2>2, <2>5, <2>6
    <3>3. benchExit' = IF args'.threshold # NotGiven /\ HasRegression(Reports', Threshold') THEN 1 ELSE 0
      BY <2>2, <2>3
    <3> QED BY <3>1, <3>2, <3>3 DEF Reported
  <2>8. InBenchmarkRuns' /\ AreResults(measured)' /\ IsList(tasks)' /\ (DOMAIN pending \subseteq Nat)'
    BY <1>2, <2>2 DEF InBenchmarkRuns
  <2>9. (args.corpus # NotGiven => \A i \in DOMAIN measured : InOrder(measured[i].timing))'
    BY <1>2, <2>2
  <2> QED BY <2>2, <2>7, <2>8, <2>9 DEF BenchInv
<1> QED BY <1>3, <1>4, <1>5

LEMMA BenchStep == BenchInv /\ [BenchNext]_benchVars => BenchInv'
<1> SUFFICES ASSUME BenchInv, [BenchNext]_benchVars PROVE BenchInv'
  OBVIOUS
<1>1. CASE Start
  BY <1>1, StartKeeps
<1>2. CASE Expand
  BY <1>2, ExpandKeeps
<1>3. CASE Measure
  BY <1>3, MeasureKeeps
<1>4. CASE PrintBenchmarks
  BY <1>4, PrintBenchmarksKeeps
<1>5. CASE Comparison
  BY <1>5, ComparisonKeeps
<1>6. CASE UNCHANGED benchVars
  <2>1. /\ args' = args /\ benchStage' = benchStage /\ tasks' = tasks /\ pending' = pending
        /\ measured' = measured /\ printed' = printed /\ benchExit' = benchExit
    BY <1>6 DEF benchVars
  <2>2. /\ KeysMeasured' = KeysMeasured /\ KeysWanted' = KeysWanted /\ Results' = Results
        /\ Reports' = Reports /\ Threshold' = Threshold
    BY <2>1 DEF KeysMeasured, KeysWanted, Results, Reports, Threshold
  <2>3. Marked' = Marked
    BY <2>2 DEF Marked
  <2>4. Document' = Document
    BY <2>1, <2>2, <2>3 DEF Document
  <2>5. Reported => Reported'
    BY <2>1, <2>2, <2>4 DEF Reported
  <2>6. NothingLost => NothingLost'
    BY <2>1, <2>2 DEF NothingLost
  <2>7. InBenchmarkRuns' <=> InBenchmarkRuns
    BY <2>1 DEF InBenchmarkRuns
  <2> QED BY <2>1, <2>2, <2>5, <2>6, <2>7 DEF BenchInv
<1> QED BY <1>1, <1>2, <1>3, <1>4, <1>5, <1>6 DEF BenchNext

LEMMA PrintedReport ==
  ASSUME BenchInv, benchStage = "exited", Reported
  PROVE  /\ args.json => Len(printed) <= 1
         /\ printed # <<>> /\ Len(printed) \in Nat /\ printed[Len(printed)] = Document
<1> DEFINE d == Document
           r == <<"results", measured>>
<1>1. printed = <<d>> \/ (~args.json /\ printed = <<r, d>>)
  BY DEF Reported
<1> HIDE DEF d, r
<1>2. CASE printed = <<d>>
  BY <1>2 DEF d
<1>3. CASE ~args.json /\ printed = <<r, d>>
  BY <1>3 DEF d
<1> QED BY <1>1, <1>2, <1>3

LEMMA InvMeansExact == BenchInv => BenchmarkExact
<1> SUFFICES ASSUME BenchInv PROVE BenchmarkExact
  OBVIOUS
<1>1. /\ InBenchmarkRuns /\ AreResults(measured)
      /\ args.corpus # NotGiven => \A i \in DOMAIN measured : InOrder(measured[i].timing)
      /\ benchStage = "compare" /\ args.corpus # NotGiven => KeysMeasured = KeysWanted
  BY DEF BenchInv
<1> DEFINE reported == benchStage = "exited" /\ Reported
           shown == printed # <<>> /\ printed[Len(printed)][1] \in {"reports", "tables"}
           reports == IF shown THEN printed[Len(printed)][2] ELSE <<>>
           regressed(i, j) == Regressed(reports[i].matched[j].baseline, reports[i].matched[j].current, Threshold)
           marked(i) == printed[Len(printed)][3][i]
\* A report that is printed is the comparison.
<1>2. CASE ~reported
  <2>1. /\ printed = <<>> \/ printed = Results
        /\ benchStage = "exited" /\ benchExit = 0 => printed # <<>>
    BY <1>1, <1>2 DEF BenchInv, InBenchmarkRuns
  <2>2. Len(printed) <= 1 /\ ~shown
    <3>1. CASE printed = <<>>
      BY <3>1
    <3>2. CASE printed = Results
      <4> DEFINE m == measured
      <4> HIDE DEF m
      <4>1. printed = <<<<"results", m>>>>
        BY <3>2 DEF Results, m
      <4>2. Len(printed) = 1 /\ printed[1][1] = "results"
        BY <4>1
      <4> QED BY <4>2
    <3> QED BY <2>1, <3>1, <3>2
  <2>3. reports = <<>> /\ DOMAIN reports = {}
    BY <2>2, NoList
  <2> HIDE DEF reports, shown, reported
  <2>4. BenchmarkExact <=>
          /\ args.json => Len(printed) <= 1
          /\ benchStage = "exited" /\ benchExit = 0 => printed # <<>>
          /\ args.corpus # NotGiven => \A i \in DOMAIN measured : InOrder(measured[i].timing)
          /\ benchStage = "compare" /\ args.corpus # NotGiven => KeysMeasured = KeysWanted
    BY <2>3 DEF BenchmarkExact, reports, shown, InOrder, KeysMeasured, KeysWanted
  <2> QED BY <1>1, <2>1, <2>2, <2>4
<1>3. CASE reported
  <2>1. /\ args.json => Len(printed) <= 1
        /\ printed # <<>> /\ printed[Len(printed)] = Document
    BY <1>3, PrintedReport
  <2>2. /\ Document[1] \in {"reports", "tables"} /\ Document[2] = Reports
        /\ ~args.json => Document[3] = Marked
    <3> DEFINE a == Reports
               b == Marked
    <3> HIDE DEF a, b
    <3>1. Document = IF args.json THEN <<"reports", a>> ELSE <<"tables", a, b>>
      BY DEF Document, a, b
    <3>2. CASE args.json
      BY <3>1, <3>2 DEF a
    <3>3. CASE ~args.json
      BY <3>1, <3>3 DEF a, b
    <3> QED BY <3>2, <3>3
  <2>3. shown /\ reports = Reports /\ (~args.json => printed[Len(printed)][3] = Marked)
    BY <2>1, <2>2
  <2> HIDE DEF reports, shown, reported
  <2>4. /\ DOMAIN reports = DOMAIN args.compare
        /\ \A i \in DOMAIN args.compare : reports[i] = CompareRuns(measured, args.compare[i][1])
    BY <2>3 DEF Reports
  <2>5. args.compare # <<>> /\ \A i \in DOMAIN args.compare : AreResults(args.compare[i][1])
    BY <1>1, <1>3, CommandLines DEF reported, Reported, InBenchmarkRuns
  <2>6. Threshold \in Int
    BY <1>1, CommandLines DEF InBenchmarkRuns, Threshold
  <2>7. ASSUME NEW i \in DOMAIN reports
        PROVE  /\ BothRunsShown(measured, args.compare[i][1], reports[i])
               /\ \A j \in DOMAIN reports[i].matched :
                    SignificanceOf(reports[i].matched[j], Threshold) = "regression" <=> regressed(i, j)
    <3>1. AreResults(args.compare[i][1]) /\ reports[i] = CompareRuns(measured, args.compare[i][1])
      BY <2>4, <2>5
    <3>2. /\ BothRunsShown(measured, args.compare[i][1], reports[i])
          /\ \A j \in DOMAIN reports[i].matched : /\ IsTiming(reports[i].matched[j].current)
                                                  /\ IsTiming(reports[i].matched[j].baseline)
      BY <1>1, <3>1, ComparisonIs
    <3>3. ASSUME NEW j \in DOMAIN reports[i].matched
          PROVE  SignificanceOf(reports[i].matched[j], Threshold) = "regression" <=> regressed(i, j)
      <4> DEFINE c == reports[i].matched[j]
      <4>1. IsTiming(c.current) /\ IsTiming(c.baseline)
        BY <3>2
      <4> HIDE DEF c
      <4>2. SignificanceOf(c, Threshold) = "regression" <=> Regressed(c.baseline, c.current, Threshold)
        BY <2>6, <4>1, RegressionIs
      <4> QED BY <4>2 DEF c
    <3> QED BY <3>2, <3>3
  <2>8. ASSUME NEW i \in DOMAIN reports, NEW j \in DOMAIN reports[i].matched, ~args.json
        PROVE  j \in marked(i) <=> regressed(i, j)
    <3>1. marked(i) = {k \in DOMAIN reports[i].matched :
                         SignificanceOf(reports[i].matched[k], Threshold) = "regression"}
      BY <2>3, <2>8 DEF Marked
    <3> QED BY <2>7, <3>1
  <2>9. HasRegression(Reports, Threshold)
          <=> \E i \in DOMAIN reports : \E j \in DOMAIN reports[i].matched : regressed(i, j)
    <3> HIDE DEF regressed
    <3> QED BY <2>3, <2>7 DEF HasRegression
  <2>10. benchExit = 1 <=> /\ args.threshold # NotGiven
                           /\ \E i \in DOMAIN reports : \E j \in DOMAIN reports[i].matched : regressed(i, j)
    <3>1. benchExit = IF args.threshold # NotGiven /\ HasRegression(Reports, Threshold) THEN 1 ELSE 0
      BY <1>3 DEF reported, Reported
    <3> HIDE DEF regressed
    <3> QED BY <2>9, <3>1
  <2>11. BenchmarkExact <=>
           /\ args.json => Len(printed) <= 1
           /\ benchStage = "exited" /\ benchExit = 0 => printed # <<>>
           /\ args.corpus # NotGiven => \A i \in DOMAIN measured : InOrder(measured[i].timing)
           /\ benchStage = "compare" /\ args.corpus # NotGiven => KeysMeasured = KeysWanted
           /\ \A i \in DOMAIN reports :
                /\ BothRunsShown(measured, args.compare[i][1], reports[i])
                /\ \A j \in DOMAIN reports[i].matched : ~args.json => (j \in marked(i) <=> regressed(i, j))
           /\ reports # <<>> =>
                (benchExit = 1 <=> /\ args.threshold # NotGiven
                                   /\ \E i \in DOMAIN reports : \E j \in DOMAIN reports[i].matched : regressed(i, j))
    BY Zenon DEF BenchmarkExact, reports, shown, InOrder, KeysMeasured, KeysWanted, BothRunsShown, Threshold
  <2> HIDE DEF marked, regressed
  <2>12. \A i \in DOMAIN reports :
           /\ BothRunsShown(measured, args.compare[i][1], reports[i])
           /\ \A j \in DOMAIN reports[i].matched : ~args.json => (j \in marked(i) <=> regressed(i, j))
    BY <2>7, <2>8
  <2> QED BY <1>1, <2>1, <2>10, <2>11, <2>12
<1> QED BY <1>2, <1>3

\* What a benchmark run shows is exact, whatever is run, however long things
\* take and whatever fails.
THEOREM BenchmarksAreExact == BenchSpec => []BenchmarkExact
<1>1. BenchInit => BenchInv
  BY BenchInitial
<1>2. BenchInv /\ [BenchNext]_benchVars => BenchInv'
  BY BenchStep
<1>3. BenchInv => BenchmarkExact
  BY InvMeansExact
<1> QED BY <1>1, <1>2, <1>3, PTL DEF BenchSpec
===============================================================================
