---------------------- MODULE BatchedEvaluator_proofs ----------------------
(***************************************************************************)
(* The theorems of BatchedEvaluator, for every schema, expression, backing *)
(* store, loader and number of rounds, from the assumptions of             *)
(* EntityLoader and BatchedEvaluator.                                      *)
(***************************************************************************)
EXTENDS BatchedEvaluator, Authorization_lemmas

\* What is left to evaluate names something that is not loaded.
StuckIsNamed ==
  phase \in {"loop", "loading"} =>
    (Class(residual) = "residual" => ~(LiteralUIDs(residual) \subseteq DOMAIN store))

\* While something is left to evaluate, every round used up has loaded
\* something.
RoundsPay ==
  LET loaded == Cardinality(DOMAIN store \ ActionUids)
  IN  /\ phase = "call" => rounds = Iters
      /\ phase = "loop" /\ Class(residual) = "residual" => Iters - rounds <= loaded
      /\ phase = "loading" /\ Class(residual) = "residual" => Iters - rounds <= loaded + 1

Meaning == Outcome(residual, request, backing) = Outcome(expr, request, backing)

Asked == phase = "loading" => toLoad = LiteralUIDs(residual) \ DOMAIN store

IInv == /\ TypeOK /\ StoreRefines /\ Meaning /\ Converges
        /\ StuckIsNamed /\ RoundsPay /\ Asked

-----------------------------------------------------------------------------
LEMMA StoreLoaded ==
  ASSUME TypeOK, StoreRefines
  PROVE  DOMAIN store \in LoadedSets /\ store = Loaded(backing, DOMAIN store)
BY DEF TypeOK, StoreRefines, LoadedSets

LEMMA LoadedIsNat ==
  ASSUME NEW S \in LoadedSets
  PROVE  Cardinality(S \ ActionUids) \in Nat
BY LoaderTypes, FS_Subset, FS_CardinalityType DEF LoadedSets

\* One evaluation, on a store that refines the backing store.
LEMMA EvaluateOnce ==
  ASSUME NEW r \in Residuals, NEW S \in LoadedSets, request \in ValidRequests, backing \in Backings
  PROVE  LET new == EvaluateOn(r, Loaded(backing, S))
         IN  /\ new \in Residuals
             /\ Outcome(new, request, backing) = Outcome(r, request, backing)
             /\ Class(new) = "residual" => Class(r) = "residual" /\ ~(LiteralUIDs(new) \subseteq S)
<1> DEFINE new == PartialEvaluate(r, request, Loaded(backing, S))
<1>1. new \in Residuals
  BY EvaluationCloses
<1>2. Outcome(new, request, backing) = Outcome(r, request, backing)
  BY EvaluationSound
<1>3. Class(new) = "residual" => ~(LiteralUIDs(new) \subseteq S)
  BY StuckNamesUnloaded
<1>4. Class(r) # "residual" => Class(new) = Class(r)
  BY SettledStays
<1> QED
  BY <1>1, <1>2, <1>3, <1>4 DEF EvaluateOn

LEMMA InitIInv == Init => IInv
<1> SUFFICES ASSUME Init PROVE IInv
  OBVIOUS
<1>1. StoreRefines
  BY ActionsAgree DEF Init, StoreRefines, Loaded, ActionEntities
<1>2. TypeOK
  BY LoaderTypes, ExpressionsAreTyped, <1>1 DEF Init, TypeOK, ActionEntities
<1> QED
  BY <1>1, <1>2 DEF Init, IInv, Meaning, Converges, StuckIsNamed, RoundsPay, Asked

LEMMA StartKeeps == IInv /\ Start => IInv'
<1> SUFFICES ASSUME IInv, Start PROVE IInv'
  OBVIOUS
<1> USE DEF IInv
<1>1. /\ phase = "call" /\ phase' = "loop" /\ residual' = EvaluateOn(expr, store)
      /\ UNCHANGED <<expr, request, backing, store, rounds, toLoad>>
  BY DEF Start, query
<1>2. expr \in Residuals /\ request \in ValidRequests /\ backing \in Backings
  BY ExpressionsAreTyped DEF TypeOK
<1>3. DOMAIN store \in LoadedSets /\ store = Loaded(backing, DOMAIN store)
  BY StoreLoaded
<1>4. /\ residual' \in Residuals
      /\ Outcome(residual', request, backing) = Outcome(expr, request, backing)
      /\ Class(residual') = "residual" => ~(LiteralUIDs(residual') \subseteq DOMAIN store)
  BY <1>1, <1>2, <1>3, EvaluateOnce
<1>5. RoundsPay'
  BY <1>1, <1>3, LoadedIsNat, LoaderTypes DEF RoundsPay
<1> QED
  BY <1>1, <1>4, <1>5 DEF TypeOK, StoreRefines, Meaning, Converges, StuckIsNamed, Asked

LEMMA GiveUpKeeps == IInv /\ GiveUp => IInv'
<1> SUFFICES ASSUME IInv, GiveUp PROVE IInv'
  OBVIOUS
<1> USE DEF IInv
<1>1. /\ phase = "loop" /\ phase' = "done" /\ rounds = 0
      /\ UNCHANGED <<expr, request, backing, residual, store, rounds, toLoad>>
  BY DEF GiveUp, query
<1>2. Converges'
  <2> SUFFICES ASSUME EnoughRounds, Class(residual) = "residual" PROVE FALSE
    BY <1>1 DEF Converges, EnoughRounds
  <2>1. DOMAIN store \in LoadedSets
    BY StoreLoaded
  <2>2. Cardinality(Uids \ ActionUids) \in Nat /\ Cardinality(DOMAIN store \ ActionUids) \in Nat
    BY <2>1, LoadedIsNat, LoaderTypes, FS_Subset, FS_CardinalityType
  <2>3. Cardinality(Uids \ ActionUids) <= Cardinality(DOMAIN store \ ActionUids)
    BY <1>1, <2>2, LoaderTypes DEF RoundsPay, EnoughRounds
  <2>4. ActionUids \subseteq DOMAIN store /\ DOMAIN store \subseteq Uids /\ IsFiniteSet(Uids)
    BY <2>1, LoaderTypes DEF LoadedSets
  <2>5. DOMAIN store = Uids
    BY <2>3, <2>4, AllLoaded
  <2> QED
    BY <1>1, <2>5, LiteralsAreUids DEF StuckIsNamed, TypeOK
<1> QED
  BY <1>1, <1>2 DEF TypeOK, StoreRefines, Meaning, StuckIsNamed, RoundsPay, Asked

LEMMA AskLoaderKeeps == IInv /\ AskLoader => IInv'
<1> SUFFICES ASSUME IInv, AskLoader PROVE IInv'
  OBVIOUS
<1> USE DEF IInv
<1>1. /\ phase = "loop" /\ phase' = "loading" /\ rounds > 0 /\ rounds' = rounds - 1
      /\ toLoad' = LiteralUIDs(residual) \ DOMAIN store
      /\ UNCHANGED <<expr, request, backing, residual, store>>
  BY DEF AskLoader, query
<1>2. TypeOK'
  BY <1>1, LiteralsAreUids, LoaderTypes DEF TypeOK
<1>3. RoundsPay'
  <2>1. Cardinality(DOMAIN store \ ActionUids) \in Nat
    BY StoreLoaded, LoadedIsNat
  <2> QED
    BY <1>1, <2>1, LoaderTypes DEF RoundsPay, TypeOK
<1> QED
  BY <1>1, <1>2, <1>3 DEF StoreRefines, Meaning, Converges, StuckIsNamed, Asked

LEMMA LoaderAnswersKeeps ==
  ASSUME IInv, NEW extra \in SUBSET Uids, LoaderAnswers(extra)
  PROVE  IInv'
<1> USE DEF IInv
<1> DEFINE S == toLoad \cup extra \cup DOMAIN store
<1>1. /\ phase = "loading" /\ phase' \in {"done", "loop"} /\ toLoad' = {}
      /\ store' = Over(Loaded(backing, toLoad \cup extra), store)
      /\ residual' = EvaluateOn(residual, store')
      /\ phase' = "done" => IsValue(residual')
      /\ UNCHANGED <<expr, request, backing, rounds>>
  BY DEF LoaderAnswers, query
<1>2. /\ residual \in Residuals /\ request \in ValidRequests /\ backing \in Backings
      /\ rounds \in 0..Iters /\ toLoad \in SUBSET Uids
  BY DEF TypeOK
<1>3. DOMAIN store \in LoadedSets /\ store = Loaded(backing, DOMAIN store)
  BY StoreLoaded
<1>4. S \in LoadedSets
  BY <1>2, <1>3 DEF LoadedSets
<1>5. store' = Loaded(backing, S) /\ DOMAIN store' = S
  <2>1. store' = Loaded(backing, S)
    BY <1>1, <1>3 DEF Over, Loaded
  <2> QED
    BY <2>1 DEF Loaded
<1>6. /\ residual' \in Residuals
      /\ Outcome(residual', request, backing) = Outcome(residual, request, backing)
      /\ Class(residual') = "residual" => Class(residual) = "residual" /\ ~(LiteralUIDs(residual') \subseteq S)
  <2> HIDE DEF S
  <2>1. residual' = EvaluateOn(residual, Loaded(backing, S))
    BY <1>1, <1>5
  <2> QED
    BY <2>1, <1>2, <1>4, EvaluateOnce
<1>7. TypeOK'
  BY <1>1, <1>2, <1>4, <1>5, <1>6 DEF TypeOK, LoadedSets
<1>8. StoreRefines'
  BY <1>1, <1>4, <1>5 DEF StoreRefines, LoadedSets
<1>9. Converges'
  BY <1>1, <1>6, ValuesAreSettled DEF Converges
<1>10. ASSUME Class(residual') = "residual" PROVE Iters - rounds <= Cardinality(S \ ActionUids)
  <2>1. Class(residual) = "residual"
    BY <1>6, <1>10
  <2>2. PICK u \in toLoad : u \notin DOMAIN store
    BY <1>1, <2>1 DEF StuckIsNamed, Asked
  <2>3. /\ Cardinality(DOMAIN store \ ActionUids) \in Nat /\ Cardinality(S \ ActionUids) \in Nat
        /\ Cardinality(DOMAIN store \ ActionUids) + 1 <= Cardinality(S \ ActionUids)
    BY <1>3, <1>4, <2>2, LoaderTypes, FS_Subset, OneMore DEF LoadedSets
  <2>4. Iters - rounds <= Cardinality(DOMAIN store \ ActionUids) + 1
    BY <1>1, <2>1 DEF RoundsPay
  <2> HIDE DEF S
  <2> QED
    BY <1>2, <2>3, <2>4, LoaderTypes
<1>11. RoundsPay'
  BY <1>1, <1>5, <1>10 DEF RoundsPay
<1> QED
  BY <1>1, <1>5, <1>6, <1>7, <1>8, <1>9, <1>11 DEF Meaning, StuckIsNamed, Asked

LEMMA NextIInv == IInv /\ [Next]_vars => IInv'
<1> SUFFICES ASSUME IInv, [Next]_vars PROVE IInv'
  OBVIOUS
<1>1. CASE UNCHANGED vars
  BY <1>1 DEF vars, query, IInv, TypeOK, StoreRefines, Meaning, Converges, StuckIsNamed, RoundsPay, Asked
<1> QED
  BY <1>1, StartKeeps, GiveUpKeeps, AskLoaderKeeps, LoaderAnswersKeeps DEF Next

LEMMA Invariance == Spec => []IInv
BY InitIInv, NextIInv, PTL DEF Spec

-----------------------------------------------------------------------------
\* Every variable keeps to its kind.
THEOREM TypeCorrect == Spec => []TypeOK
BY Invariance, PTL DEF IInv

\* What is loaded is what the backing store says.
THEOREM StoreIsRefined == Spec => []StoreRefines
BY Invariance, PTL DEF IInv

\* The result means what the expression means, on the complete store.
THEOREM ResultsAreSound == Spec => []ResultSound
<1>1. IInv => ResultSound
  BY DEF IInv, Meaning, ResultSound
<1> QED
  BY <1>1, Invariance, PTL

\* A round is wasted only when nothing is left to find out.
THEOREM OnlyHarmlessWaste == Spec => []WasteIsHarmless
<1>1. IInv => WasteIsHarmless
  BY DEF IInv, Asked, StuckIsNamed, WasteIsHarmless
<1> QED
  BY <1>1, Invariance, PTL

\* With a round for every entity the result is a value or an error.
THEOREM LoopConverges == Spec => []Converges
BY Invariance, PTL DEF IInv

=============================================================================
