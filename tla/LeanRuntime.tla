---------------------------- MODULE LeanRuntime ----------------------------
(* cedar-lean-ffi (lean_ffi.rs, lean_object.rs): a Rust process that calls  *)
(* the compiled Lean code. Lean is initialized once for the process, a      *)
(* CedarLeanFfi attaches the thread to it while it lives, and every object  *)
(* that crosses the boundary carries a reference count that both languages  *)
(* change: Rust in clone, to_owned and drop, Lean when it consumes the      *)
(* arguments of a call.                                                     *)
(*                                                                          *)
(* The Lean side is external: it consumes what it is passed and returns an  *)
(* object of its own, or panics, which ends the process.                    *)
EXTENDS Naturals, FiniteSets, Sequences, SequencesExt

CONSTANTS
  Objects,       \* the places of the Lean heap
  NoObject

ASSUME NoObjectAssumption == NoObject \notin Objects

---------------------------------------------------------------------------
(* The functions. A check is a name, a function a prefix and a name.        *)

PolicyCalls == {"NeverErrors", "AlwaysMatches", "NeverMatches"}
PolicySetCalls == {"AlwaysAllows", "AlwaysDenies"}
PolicyComparisons == {"MatchesEquivalent", "MatchesImplies", "MatchesDisjoint"}
PolicySetComparisons == {"Equivalent", "Implies", "Disjoint"}
PrintedChecks == {"NeverErrors"} \cup PolicySetCalls \cup PolicySetComparisons
AllChecks == PolicyCalls \cup PolicySetCalls \cup PolicyComparisons \cup PolicySetComparisons

RunChecks == {"runCheck", "runCheckWithCex"} \X AllChecks
GivenRawModel == {"runCheckWithCexGivenRawModel"} \X PolicySetComparisons
PrintChecks == {"printCheck"} \X PrintedChecks
AssertsOf == {"assertsOfCheck"} \X AllChecks
SmtLibOf == {"smtLibOfCheck"} \X PrintedChecks
AssertsChecks == {"runCheck", "printCheck", "smtLibOfCheck"} \X {"Asserts"}
PartialValidations == {"validate"} \X {"PartialEntities", "PartialRequest"}
Evaluations == {<<"print", "Evaluation">>, <<"check", "Evaluate">>}
Validations == {<<"validate", "Policies">>, <<"level", "Validate">>,
                <<"validate", "Entities">>, <<"validate", "Request">>}
PartialCalls == {<<"batched", "Authorization">>, <<"partial", "Authorization">>}
Consistency == {<<"reauthorize", "Residual">>, <<"consistency", "PartialEntity">>,
                <<"consistency", "PartialRequest">>}
IsAuthorized == <<"is", "Authorized">>
LoadSchema == <<"load", "ProtobufSchema">>

TakesSchema == RunChecks \cup PrintChecks \cup AssertsOf \cup SmtLibOf \cup AssertsChecks
                 \cup PartialValidations
TakesProtobuf == Evaluations \cup Validations \cup PartialCalls \cup Consistency
                   \cup {IsAuthorized, LoadSchema}
Functions == TakesSchema \cup GivenRawModel \cup TakesProtobuf

\* The parameters the extern block declares.
Arity(f) == IF f \in GivenRawModel THEN 3 ELSE IF f \in TakesSchema THEN 2 ELSE 1

\* Where an answer has an Except of its own inside the one of the call.
NestedExcept(f) == f \in AssertsOf \cup PartialCalls

---------------------------------------------------------------------------

VARIABLES
  start,       \* START: whether Lean was initialized
  thread,      \* whether a CedarLeanFfi has the thread attached
  rc,          \* the reference count of each place, 0 if it is free
  inner,       \* what an object holds a reference to, for an Except
  leanSchema,  \* the LeanSchema of the client
  call,        \* the call under way
  answer       \* what the last call returned to the client

runtimeVars == <<start, thread, rc, inner, leanSchema, call, answer>>

NoCall == [f |-> LoadSchema, stage |-> "none", args |-> <<>>, ret |-> NoObject, reply |-> "none"]
Replies == {"none", "ok", "error", "inner error", "garbled"}
Answers == {"none", "value", "inner error", "backend error", "bad object"}

Free == {o \in Objects : rc[o] = 0}
Held == {o \in Objects : rc[o] > 0}

\* A reference goes: with the last one the object goes, and what it held
\* loses a reference.
Dropped(r, o) ==
  IF r[o] = 1 /\ inner[o] # NoObject
  THEN [r EXCEPT ![o] = 0, ![inner[o]] = @ - 1]
  ELSE [r EXCEPT ![o] = @ - 1]
\* What is freed holds nothing more.
Emptied(r) == [o \in Objects |-> IF r[o] = 0 THEN NoObject ELSE inner[o]]

RuntimeInit ==
  /\ start = "new" /\ thread = FALSE
  /\ rc = [o \in Objects |-> 0] /\ inner = [o \in Objects |-> NoObject]
  /\ leanSchema = NoObject /\ call = NoCall /\ answer = "none"

Idle == call.stage = "none"

---------------------------------------------------------------------------
(* CedarLeanFfi::new: the first one in the process initializes Lean. If     *)
(* that fails the closure panics, the Once is poisoned, and every later     *)
(* new panics too. A client is gone before the next one is made.            *)

New ==
  /\ Idle /\ ~thread /\ leanSchema = NoObject /\ start \in {"new", "done"}
  /\ \/ start' = "done" /\ thread' = TRUE
     \/ start = "new" /\ start' = "poisoned" /\ thread' = FALSE
  /\ UNCHANGED <<rc, inner, leanSchema, call, answer>>

\* load_lean_schema_object, and every function of a protobuf request alone:
\* the request is a new byte array.
BeginProtobuf(f, o) ==
  /\ Idle /\ thread /\ f \in TakesProtobuf
  /\ f = LoadSchema => leanSchema = NoObject
  /\ o \in Free
  /\ rc' = [rc EXCEPT ![o] = 1]
  /\ call' = [NoCall EXCEPT !.f = f, !.stage = "built", !.args = <<o>>]
  /\ answer' = "none"
  /\ UNCHANGED <<start, thread, inner, leanSchema>>

\* The functions that take the schema take a LeanSchema by value: the client
\* clones its own.
BeginWithSchema(f, o) ==
  /\ Idle /\ thread /\ f \in TakesSchema
  /\ leanSchema # NoObject /\ o \in Free
  /\ rc' = [rc EXCEPT ![leanSchema] = @ + 1, ![o] = 1]
  /\ call' = [NoCall EXCEPT !.f = f, !.stage = "built", !.args = <<leanSchema, o>>]
  /\ answer' = "none"
  /\ UNCHANGED <<start, thread, inner, leanSchema>>

BeginGivenRawModel(f, o, model) ==
  /\ Idle /\ thread /\ f \in GivenRawModel
  /\ leanSchema # NoObject /\ o \in Free /\ model \in Free /\ o # model
  /\ rc' = [rc EXCEPT ![leanSchema] = @ + 1, ![o] = 1, ![model] = 1]
  /\ call' = [NoCall EXCEPT !.f = f, !.stage = "built", !.args = <<leanSchema, o, model>>]
  /\ answer' = "none"
  /\ UNCHANGED <<start, thread, inner, leanSchema>>

\* What the references are after the callee consumed what it was passed. Of
\* the arguments only the schema, which holds nothing, may stay.
Consumed == [o \in Objects |-> IF o \in ToSet(call.args) THEN rc[o] - 1 ELSE rc[o]]

\* A slip: the arguments are dropped after the call as well.
DroppedTwice(kept) == LET r == kept IN
  [o \in Objects |-> IF o \in ToSet(call.args) THEN r[o] - 1 ELSE r[o]]

\* call_lean_ffi_function and its kin: the arguments are forgotten, so that
\* Rust does not drop what Lean has taken.
Forget(kept) == kept

\* Lean answers with a string, or for the schema with an Except that holds
\* the schema or a message.
LeanReturns(ret, held, reply) ==
  /\ call.stage = "built"
  /\ ret \in Free
  /\ reply = "inner error" => NestedExcept(call.f)
  /\ IF call.f = LoadSchema /\ reply # "garbled"
     THEN /\ held \in Free \ {ret}
          /\ rc' = [Forget(Consumed) EXCEPT ![ret] = 1, ![held] = 1]
          /\ inner' = [inner EXCEPT ![ret] = held]
     ELSE /\ held = NoObject
          /\ rc' = [Forget(Consumed) EXCEPT ![ret] = 1]
          /\ UNCHANGED inner
  /\ call' = [call EXCEPT !.stage = "returned", !.args = <<>>, !.ret = ret, !.reply = reply]
  /\ UNCHANGED <<start, thread, leanSchema, answer>>

\* lean_set_exit_on_panic: a panic in Lean ends the process.
LeanPanics ==
  /\ call.stage = "built"
  /\ call' = [call EXCEPT !.stage = "aborted"]
  /\ UNCHANGED <<start, thread, rc, inner, leanSchema, answer>>

\* as_result and to_owned: the client keeps a reference to what is inside.
DecodeSchema ==
  /\ call.stage = "returned" /\ call.f = LoadSchema
  /\ IF call.reply = "ok"
     THEN /\ leanSchema' = inner[call.ret] /\ answer' = "value"
          /\ rc' = [rc EXCEPT ![inner[call.ret]] = @ + 1]
     ELSE /\ answer' = IF call.reply = "error" THEN "backend error" ELSE "bad object"
          /\ UNCHANGED <<rc, leanSchema>>
  /\ call' = [call EXCEPT !.stage = "decoded"]
  /\ UNCHANGED <<start, thread, inner>>

\* deserialize_into and the match on ResultDef. An assertsOf function hands
\* the inner result on, the others turn it into an error.
Decoded(f, reply) ==
  CASE reply = "garbled" -> "bad object"
    [] reply = "error" -> "backend error"
    [] reply = "inner error" -> IF f \in AssertsOf THEN "inner error" ELSE "backend error"
    [] OTHER -> "value"

DecodeAnswer ==
  /\ call.stage = "returned" /\ call.f # LoadSchema
  /\ answer' = Decoded(call.f, call.reply)
  /\ call' = [call EXCEPT !.stage = "decoded"]
  /\ UNCHANGED <<start, thread, rc, inner, leanSchema>>

\* The response goes out of scope, also when `?` leaves.
DropResponse ==
  /\ call.stage = "decoded"
  /\ rc' = Dropped(rc, call.ret)
  /\ inner' = Emptied(rc')
  /\ call' = NoCall
  /\ UNCHANGED <<start, thread, leanSchema, answer>>

\* A client that holds the two in variables drops the schema first, as it
\* was declared last. The Analyzer of the command line holds them in fields,
\* which are dropped in the order of their declaration, the schema last.
DropSchema ==
  /\ Idle /\ leanSchema # NoObject
  /\ rc' = Dropped(rc, leanSchema)
  /\ inner' = Emptied(rc')
  /\ leanSchema' = NoObject
  /\ UNCHANGED <<start, thread, call, answer>>

DropFfi ==
  /\ Idle /\ thread
  /\ thread' = FALSE /\ answer' = "none"
  /\ UNCHANGED <<start, rc, inner, leanSchema, call>>

RuntimeNext ==
  \/ New
  \/ \E f \in TakesProtobuf, o \in Objects : BeginProtobuf(f, o)
  \/ \E f \in TakesSchema, o \in Objects : BeginWithSchema(f, o)
  \/ \E f \in GivenRawModel, o, model \in Objects : BeginGivenRawModel(f, o, model)
  \/ \E ret \in Objects, held \in Objects \cup {NoObject}, reply \in Replies \ {"none"} :
       LeanReturns(ret, held, reply)
  \/ LeanPanics
  \/ DecodeSchema \/ DecodeAnswer \/ DropResponse
  \/ DropSchema \/ DropFfi

RuntimeSpec == RuntimeInit /\ [][RuntimeNext]_runtimeVars

---------------------------------------------------------------------------

RuntimeTypeOK ==
  /\ start \in {"new", "done", "poisoned"} /\ thread \in BOOLEAN
  /\ rc \in [Objects -> Nat] /\ inner \in [Objects -> Objects \cup {NoObject}]
  /\ leanSchema \in Objects \cup {NoObject}
  /\ call \in [f : Functions, stage : {"none", "built", "returned", "decoded", "aborted"},
               args : Seq(Objects), ret : Objects \cup {NoObject}, reply : Replies]
  /\ answer \in Answers

One(b) == IF b THEN 1 ELSE 0

\* Every object that crosses the boundary is counted right at every step, on
\* the error paths too: its count is the number of places that hold it (the
\* client's schema, an argument of the call, its response, an Except), so
\* that nothing is freed while it can be reached or twice, and nothing is
\* left when the client has dropped what it had. A function gets as many
\* arguments as it declares. Objects are there only in an initialized Lean,
\* and without a thread attached to it at most the schema is, to be dropped.
Counted ==
  /\ \A o \in Objects :
       rc[o] = One(leanSchema = o) + One(o \in ToSet(call.args)) + One(call.ret = o)
                 + One(\E x \in Held : inner[x] = o)
  /\ \A x, y \in Held : inner[x] = inner[y] /\ inner[x] # NoObject => x = y
  /\ call.stage = "built" => Len(call.args) = Arity(call.f)
  /\ (Idle /\ leanSchema = NoObject) => Held = {}
  /\ Held # {} => /\ start = "done"
                  /\ thread \/ (Idle /\ Held = {leanSchema})
=============================================================================
