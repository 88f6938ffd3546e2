---------------------- MODULE BatchedAuthorizer_proofs ----------------------
(***************************************************************************)
(* The theorems of BatchedAuthorizer, for every schema, set of policies,   *)
(* backing store, loader and number of rounds, from the assumptions that   *)
(* module names.  One invariant, IInv, is inductive; the properties follow *)
(* from it, and so does the promise of the abstract specification.         *)
(***************************************************************************)
EXTENDS BatchedAuthorizer, Authorization_lemmas

-----------------------------------------------------------------------------
(* The inductive invariant *)

\* No answer before the end.
Unanswered == phase \in {"call", "check", "loading"} => response = "pending"

\* Where a residual is left after evaluation, it names something to load.
StuckIsNamed ==
  phase = "check" =>
    \A p \in PolicyIds :
      Class(residuals[p]) = "residual" => ~(LiteralUIDs(residuals[p]) \subseteq DOMAIN store)

\* Every round used up has loaded something.
RoundsPay ==
  LET loaded == Cardinality(DOMAIN store \ ActionUids)
  IN  /\ phase = "call" => rounds = Iters
      /\ phase = "check" => Iters - rounds <= loaded
      /\ phase = "loading" => Iters - rounds <= loaded + 1

IInv == /\ TypeOK /\ StoreRefines /\ MeaningPreserved /\ DecisionSound
        /\ RoundsMakeProgress /\ Converges
        /\ Unanswered /\ StuckIsNamed /\ RoundsPay

LEMMA InitIInv == Init => IInv
<1> SUFFICES ASSUME Init PROVE IInv
  OBVIOUS
<1>1. StoreRefines
  BY ActionsAgree DEF Init, StoreRefines, Loaded, ActionEntities
<1>2. TypeOK
  BY PolicyTypes, LoaderTypes, <1>1 DEF Init, TypeOK, ActionEntities
<1> QED
  BY <1>1, <1>2 DEF Init, IInv, MeaningPreserved, DecisionSound, RoundsMakeProgress, Converges,
                    Unanswered, StuckIsNamed, RoundsPay

\* What one evaluation of all the policies gives on a store that refines
\* the backing store; Start and LoaderAnswers both end with it.
LEMMA EvaluateAllOnce ==
  ASSUME NEW rs \in [PolicyIds -> Residuals], NEW S \in LoadedSets,
         request \in ValidRequests, backing \in Backings
  PROVE  LET new == EvaluateAll(rs, Loaded(backing, S))
         IN  /\ new \in [PolicyIds -> Residuals]
             /\ \A p \in PolicyIds : Outcome(new[p], request, backing) = Outcome(rs[p], request, backing)
             /\ \A p \in PolicyIds : Class(new[p]) = "residual" => ~(LiteralUIDs(new[p]) \subseteq S)
<1> DEFINE new == EvaluateAll(rs, Loaded(backing, S))
<1>1. \A p \in PolicyIds : new[p] = PartialEvaluate(rs[p], request, Loaded(backing, S))
  BY DEF EvaluateAll
<1>2. new \in [PolicyIds -> Residuals]
  BY EvaluationCloses DEF EvaluateAll
<1>3. \A p \in PolicyIds : Outcome(new[p], request, backing) = Outcome(rs[p], request, backing)
  BY <1>1, EvaluationSound
<1>4. \A p \in PolicyIds : Class(new[p]) = "residual" => ~(LiteralUIDs(new[p]) \subseteq S)
  BY <1>1, StuckNamesUnloaded
<1> QED
  BY <1>2, <1>3, <1>4

\* A decision on residuals that mean what the policies mean is the truth.
LEMMA DecidedIsTrue ==
  ASSUME TypeOK, MeaningPreserved, phase = "check", Decided(residuals) # "none"
  PROVE  Decided(residuals) = TruthOf(query)
<1> DEFINE class == [p \in PolicyIds |-> Class(residuals[p])]
           outcome == [p \in PolicyIds |-> Outcome(policies[p], request, backing)]
<1>1. /\ residuals \in [PolicyIds -> Residuals] /\ request \in ValidRequests /\ backing \in Backings
  BY DEF TypeOK, Valid, ValidRequests, query
<1>2. /\ class \in [PolicyIds -> Classes]
      /\ \A p \in PolicyIds : Outcome(residuals[p], request, backing) \in Outcomes
      /\ \A p \in PolicyIds : class[p] # "residual" => Outcome(residuals[p], request, backing) = class[p]
  BY <1>1, ClassSound, PoliciesAreBoolean
<1>3. \A p \in PolicyIds : Outcome(residuals[p], request, backing) = outcome[p]
  BY DEF MeaningPreserved
<1>4. /\ outcome \in [PolicyIds -> Outcomes]
      /\ \A p \in PolicyIds : class[p] # "residual" => outcome[p] = class[p]
  BY <1>2, <1>3
<1>5. Effect \in [PolicyIds -> Effects]
  BY PolicyTypes, LoaderTypes
<1>6. ResidualDecision(Effect, class) = Decided(residuals)
  BY DEF Decided
<1>7. ResidualDecision(Effect, class) = IsAuthorized(Effect, outcome).decision
  BY <1>2, <1>4, <1>5, <1>6, EarlyDecisionIsFinal
<1>8. TruthOf(query) = IsAuthorized(Effect, outcome).decision
  BY DEF TruthOf, query
<1> QED
  BY <1>6, <1>7, <1>8

\* Undecided residuals name something that is not loaded.
LEMMA UndecidedIsStuck ==
  ASSUME StuckIsNamed, phase = "check", Decided(residuals) = "none"
  PROVE  \E p \in PolicyIds : ~(LiteralUIDs(residuals[p]) \subseteq DOMAIN store)
<1> DEFINE class == [p \in PolicyIds |-> Class(residuals[p])]
<1>1. PICK p \in PolicyIds : class[p] = "residual"
  BY UndecidedHasResidual DEF Decided
<1> QED
  BY <1>1 DEF StuckIsNamed

\* When as many rounds have paid as there are entities to load, all are.
LEMMA RoundsLoadAll ==
  ASSUME TypeOK, StoreRefines, RoundsPay, EnoughRounds, phase = "check", rounds = 0
  PROVE  DOMAIN store = Uids
<1>1. DOMAIN store \in LoadedSets
  BY DEF TypeOK, StoreRefines, LoadedSets
<1>2. Cardinality(Uids \ ActionUids) \in Nat /\ Cardinality(DOMAIN store \ ActionUids) \in Nat
  BY <1>1, LoaderTypes, FS_Subset, FS_CardinalityType DEF LoadedSets
<1>3. Cardinality(Uids \ ActionUids) <= Cardinality(DOMAIN store \ ActionUids)
  BY <1>2, LoaderTypes DEF RoundsPay, EnoughRounds
<1>4. ActionUids \subseteq DOMAIN store /\ DOMAIN store \subseteq Uids /\ IsFiniteSet(Uids)
  BY <1>1, LoaderTypes DEF LoadedSets
<1> QED
  BY <1>3, <1>4, AllLoaded

-----------------------------------------------------------------------------
(* Each action keeps the invariant *)

LEMMA StartKeeps == IInv /\ Start => IInv'
<1> SUFFICES ASSUME IInv, Start PROVE IInv'
  OBVIOUS
<1> USE DEF IInv
<1>1. CASE ~Valid(query)
  BY <1>1 DEF Start, TypeOK, StoreRefines, MeaningPreserved, DecisionSound, RoundsMakeProgress,
              Converges, Unanswered, StuckIsNamed, RoundsPay, Valid, query, Decisions
<1>2. CASE Valid(query)
  <2>1. /\ phase' = "check" /\ UNCHANGED <<policies, request, backing, store, rounds, toLoad, response>>
        /\ residuals' = EvaluateAll(policies, store)
        /\ phase = "call"
    BY <1>2 DEF Start, query
  <2>2. /\ policies \in Programs /\ backing \in Backings /\ request \in ValidRequests
        /\ \A p \in PolicyIds : policies[p] \in Residuals
    BY <1>2, TypedPolicies DEF TypeOK, Valid, query, ValidRequests
  <2>3. DOMAIN store \in LoadedSets /\ store = Loaded(backing, DOMAIN store)
    BY DEF TypeOK, StoreRefines, LoadedSets
  <2> DEFINE rs == [p \in PolicyIds |-> policies[p]]
  <2>4. rs \in [PolicyIds -> Residuals] /\ EvaluateAll(policies, store) = EvaluateAll(rs, store)
    BY <2>2 DEF EvaluateAll
  <2>5. /\ residuals' \in [PolicyIds -> Residuals]
        /\ \A p \in PolicyIds : Outcome(residuals'[p], request, backing) = Outcome(policies[p], request, backing)
        /\ \A p \in PolicyIds : Class(residuals'[p]) = "residual" => ~(LiteralUIDs(residuals'[p]) \subseteq DOMAIN store)
    BY <2>1, <2>2, <2>3, <2>4, EvaluateAllOnce
  <2>6. TypeOK'
    BY <1>2, <2>1, <2>5 DEF TypeOK, Valid, query
  <2>7. MeaningPreserved'
    BY <2>1, <2>5 DEF MeaningPreserved
  <2>8. StuckIsNamed'
    BY <2>1, <2>5 DEF StuckIsNamed
  <2>9. RoundsPay'
    <3>1. Cardinality(DOMAIN store \ ActionUids) \in Nat
      BY PolicyTypes, LoaderTypes, FS_Subset, FS_CardinalityType DEF TypeOK
    <3> QED
      BY <2>1, <3>1, PolicyTypes, LoaderTypes DEF RoundsPay
  <2> QED
    BY <2>1, <2>6, <2>7, <2>8, <2>9 DEF StoreRefines, DecisionSound, RoundsMakeProgress, Converges, Unanswered
<1> QED
  BY <1>1, <1>2

LEMMA ReturnKeeps == IInv /\ Return => IInv'
<1> SUFFICES ASSUME IInv, Return PROVE IInv'
  OBVIOUS
<1> USE DEF IInv
<1>1. /\ phase = "check" /\ phase' = "done" /\ response' = Decided(residuals)
      /\ UNCHANGED <<policies, request, backing, residuals, store, rounds, toLoad>>
      /\ Decided(residuals) # "none" \/ rounds = 0
  BY DEF Return, query
<1>2. TypeOK'
  BY <1>1, ResidualDecisionType DEF TypeOK, Decided, Valid, query
<1>3. DecisionSound'
  BY <1>1, DecidedIsTrue DEF DecisionSound, TruthOf, query
<1>4. Converges'
  <2> SUFFICES ASSUME EnoughRounds, Decided(residuals) = "none" PROVE FALSE
    BY <1>1 DEF Converges, EnoughRounds
  <2>1. DOMAIN store = Uids
    BY <1>1, RoundsLoadAll
  <2>2. \A p \in PolicyIds : LiteralUIDs(residuals[p]) \subseteq Uids
    BY <1>1, LiteralsAreUids DEF TypeOK
  <2> QED
    BY <1>1, <2>1, <2>2, UndecidedIsStuck
<1> QED
  BY <1>1, <1>2, <1>3, <1>4 DEF StoreRefines, MeaningPreserved, RoundsMakeProgress, Unanswered,
                                StuckIsNamed, RoundsPay

LEMMA AskLoaderKeeps == IInv /\ AskLoader => IInv'
<1> SUFFICES ASSUME IInv, AskLoader PROVE IInv'
  OBVIOUS
<1> USE DEF IInv
<1>1. /\ phase = "check" /\ phase' = "loading" /\ rounds > 0 /\ rounds' = rounds - 1
      /\ toLoad' = (UNION {LiteralUIDs(residuals[p]) : p \in PolicyIds}) \ DOMAIN store
      /\ UNCHANGED <<policies, request, backing, residuals, store, response>>
      /\ Decided(residuals) = "none"
  BY DEF AskLoader, query
<1>2. TypeOK'
  <2>1. toLoad' \in SUBSET Uids
    BY <1>1, LiteralsAreUids DEF TypeOK
  <2>2. rounds' \in 0..Iters
    BY <1>1, PolicyTypes, LoaderTypes DEF TypeOK
  <2> QED
    BY <1>1, <2>1, <2>2 DEF TypeOK, Valid, query
<1>3. RoundsMakeProgress'
  <2> DEFINE named == UNION {LiteralUIDs(residuals[p]) : p \in PolicyIds}
  <2>1. PICK p \in PolicyIds : ~(LiteralUIDs(residuals[p]) \subseteq DOMAIN store)
    BY <1>1, UndecidedIsStuck
  <2>2. LiteralUIDs(residuals[p]) \subseteq named
    BY <2>1
  <2>3. named \ DOMAIN store # {}
    BY <2>1, <2>2
  <2>4. toLoad' = named \ DOMAIN store
    BY <1>1
  <2> HIDE DEF named
  <2> QED
    BY <1>1, <2>3, <2>4 DEF RoundsMakeProgress
<1>4. RoundsPay'
  <2>1. Cardinality(DOMAIN store \ ActionUids) \in Nat
    BY PolicyTypes, LoaderTypes, FS_Subset, FS_CardinalityType DEF TypeOK
  <2> QED
    BY <1>1, <2>1, PolicyTypes, LoaderTypes DEF RoundsPay, TypeOK
<1> QED
  BY <1>1, <1>2, <1>3, <1>4 DEF StoreRefines, MeaningPreserved, DecisionSound, Converges, Unanswered, StuckIsNamed

LEMMA LoaderAnswersKeeps ==
  ASSUME IInv, NEW extra \in SUBSET Uids, LoaderAnswers(extra)
  PROVE  IInv'
<1> USE DEF IInv
<1> DEFINE S == toLoad \cup extra \cup DOMAIN store
<1>1. /\ phase = "loading" /\ phase' = "check" /\ toLoad' = {}
      /\ store' = Over(Loaded(backing, toLoad \cup extra), store)
      /\ residuals' = EvaluateAll(residuals, store')
      /\ UNCHANGED <<policies, request, backing, rounds, response>>
  BY DEF LoaderAnswers, query
<1>2. /\ policies \in Programs /\ backing \in Backings /\ request \in ValidRequests
      /\ residuals \in [PolicyIds -> Residuals] /\ Valid(query)
      /\ rounds \in 0..Iters /\ toLoad \in SUBSET Uids /\ DOMAIN store \in SUBSET Uids
  BY <1>1 DEF TypeOK, Valid, query, ValidRequests
<1>3. store' = Loaded(backing, S) /\ DOMAIN store' = S
  <2>1. store = Loaded(backing, DOMAIN store)
    BY DEF StoreRefines
  <2>2. store' = Loaded(backing, S)
    BY <1>1, <2>1 DEF Over, Loaded
  <2> QED
    BY <2>2 DEF Loaded
<1>4. S \in LoadedSets
  BY <1>2 DEF StoreRefines, LoadedSets
<1>5. /\ residuals' \in [PolicyIds -> Residuals]
      /\ \A p \in PolicyIds : Outcome(residuals'[p], request, backing) = Outcome(residuals[p], request, backing)
      /\ \A p \in PolicyIds : Class(residuals'[p]) = "residual" => ~(LiteralUIDs(residuals'[p]) \subseteq S)
  <2>1. residuals' = EvaluateAll(residuals, Loaded(backing, S))
    BY <1>1, <1>3
  <2> HIDE DEF S
  <2> QED
    BY <2>1, <1>2, <1>4, EvaluateAllOnce
<1>6. TypeOK'
  BY <1>1, <1>2, <1>3, <1>4, <1>5 DEF TypeOK, Valid, query, LoadedSets
<1>7. StoreRefines'
  <2>1. ActionUids \subseteq S
    BY <1>4 DEF LoadedSets
  <2> QED
    BY <1>1, <1>3, <2>1 DEF StoreRefines
<1>8. MeaningPreserved'
  BY <1>1, <1>5 DEF MeaningPreserved
<1>9. StuckIsNamed'
  BY <1>1, <1>3, <1>5 DEF StuckIsNamed
<1>10. RoundsPay'
  <2> DEFINE old == DOMAIN store \ ActionUids
             new == S \ ActionUids
  <2>1. PICK u \in toLoad : u \notin DOMAIN store
    BY <1>1 DEF RoundsMakeProgress
  <2>2. DOMAIN store \in LoadedSets
    BY <1>2 DEF StoreRefines, LoadedSets
  <2>3. /\ Cardinality(old) \in Nat /\ Cardinality(new) \in Nat
        /\ Cardinality(old) + 1 <= Cardinality(new)
    BY <1>4, <2>1, <2>2, LoaderTypes, FS_Subset, OneMore DEF LoadedSets
  <2>6. Iters - rounds <= Cardinality(old) + 1 /\ Iters \in Nat /\ rounds \in Nat
    BY <1>1, <1>2, PolicyTypes, LoaderTypes DEF RoundsPay
  <2>7. Iters - rounds <= Cardinality(new)
    BY <2>3, <2>6
  <2> QED
    BY <1>1, <1>3, <2>7 DEF RoundsPay
<1> QED
  BY <1>1, <1>6, <1>7, <1>8, <1>9, <1>10 DEF DecisionSound, RoundsMakeProgress, Converges, Unanswered

LEMMA NextIInv == IInv /\ [Next]_vars => IInv'
<1> SUFFICES ASSUME IInv, [Next]_vars PROVE IInv'
  OBVIOUS
<1>1. CASE Start
  BY <1>1, StartKeeps
<1>2. CASE Return
  BY <1>2, ReturnKeeps
<1>3. CASE AskLoader
  BY <1>3, AskLoaderKeeps
<1>4. CASE \E extra \in SUBSET Uids : LoaderAnswers(extra)
  BY <1>4, LoaderAnswersKeeps
<1>5. CASE UNCHANGED vars
  BY <1>5 DEF vars, query, IInv, TypeOK, StoreRefines, MeaningPreserved, DecisionSound, TruthOf,
              RoundsMakeProgress, Converges, EnoughRounds, Unanswered, StuckIsNamed, RoundsPay, Valid
<1> QED
  BY <1>1, <1>2, <1>3, <1>4, <1>5 DEF Next

LEMMA Invariance == Spec => []IInv
BY InitIInv, NextIInv, PTL DEF Spec

-----------------------------------------------------------------------------
(* The theorems *)

\* The loop's state is well typed: in particular every residual it keeps is
\* one the partial evaluator may be given again.
THEOREM TypeCorrect == Spec => []TypeOK
<1>1. IInv => TypeOK
  BY DEF IInv
<1> QED
  BY <1>1, Invariance, PTL

\* Whatever the loader adds, what is loaded is what the backing store says.
THEOREM StoreIsRefined == Spec => []StoreRefines
<1>1. IInv => StoreRefines
  BY DEF IInv
<1> QED
  BY <1>1, Invariance, PTL

\* Evaluating residuals again and again never changes what a policy means.
THEOREM ResidualsKeepMeaning == Spec => []MeaningPreserved
<1>1. IInv => MeaningPreserved
  BY DEF IInv
<1> QED
  BY <1>1, Invariance, PTL

\* The decision returned is the one of the concrete authorizer.
THEOREM DecisionsAreSound == Spec => []DecisionSound
<1>1. IInv => DecisionSound
  BY DEF IInv
<1> QED
  BY <1>1, Invariance, PTL

\* No round asks for nothing, or for what is loaded.
THEOREM EveryRoundLoads == Spec => []RoundsMakeProgress
<1>1. IInv => RoundsMakeProgress
  BY DEF IInv
<1> QED
  BY <1>1, Invariance, PTL

\* As many rounds as there are entities outside the schema always decide.
THEOREM LoopConverges == Spec => []Converges
<1>1. IInv => Converges
  BY DEF IInv
<1> QED
  BY <1>1, Invariance, PTL

\* Nothing that was loaded is forgotten or changed by a later answer.
THEOREM StoreGrows == Spec => StoreOnlyGrows
<1> DEFINE Grows == /\ DOMAIN store \subseteq DOMAIN store'
                    /\ \A u \in DOMAIN store : store'[u] = store[u]
<1>1. IInv /\ [Next]_vars => [Grows]_store
  <2> SUFFICES ASSUME IInv, [Next]_vars, store' # store PROVE Grows
    OBVIOUS
  <2>1. PICK extra \in SUBSET Uids : LoaderAnswers(extra)
    BY DEF Next, vars, Start, Return, AskLoader
  <2>2. StoreRefines /\ store' = Over(Loaded(backing, toLoad \cup extra), store)
    BY <2>1 DEF LoaderAnswers, IInv
  <2>3. store = Loaded(backing, DOMAIN store)
    BY <2>2 DEF StoreRefines
  <2>4. store' = Loaded(backing, toLoad \cup extra \cup DOMAIN store)
    BY <2>2, <2>3 DEF Over, Loaded
  <2> QED
    BY <2>3, <2>4 DEF Loaded
<1> QED
  BY <1>1, Invariance, PTL DEF Spec, StoreOnlyGrows

\* The loop implements the safety part of the abstract promise: one answer,
\* the true one, and "none" only when the rounds allowed may be too few.
THEOREM KeepsPromiseSafely == Spec => Promise!SafetySpec
<1>1. Init => Promise!Init
  BY DEF Init, Promise!Init, query
<1>2. IInv /\ IInv' /\ [Next]_vars => [Promise!Next]_Promise!vars
  <2> SUFFICES ASSUME IInv, IInv', [Next]_vars PROVE [Promise!Next]_Promise!vars
    OBVIOUS
  <2> USE DEF Promise!Next, Promise!Answer, Promise!vars
  <2>1. CASE Start
    BY <2>1 DEF Start, IInv, Unanswered
  <2>2. CASE Return
    <3>1. /\ response = "pending" /\ Valid(query) /\ UNCHANGED query
      BY <2>2 DEF Return, IInv, Unanswered, TypeOK
    <3>2. CASE response' = "none"
      BY <2>2, <3>1, <3>2 DEF Return, IInv, Converges, EnoughRounds
    <3>3. CASE response' # "none"
      <4>1. response' = TruthOf(query)
        BY <2>2, <3>3, DecidedIsTrue DEF Return, IInv
      <4> QED
        BY <3>1, <4>1
    <3> QED
      BY <3>2, <3>3
  <2>3. CASE AskLoader
    BY <2>3 DEF AskLoader
  <2>4. CASE \E extra \in SUBSET Uids : LoaderAnswers(extra)
    BY <2>4 DEF LoaderAnswers
  <2>5. CASE UNCHANGED vars
    BY <2>5 DEF vars, query
  <2> QED
    BY <2>1, <2>2, <2>3, <2>4, <2>5 DEF Next
<1> QED
  BY <1>1, <1>2, Invariance, PTL DEF Spec, Promise!SafetySpec

=============================================================================
