------------------------ MODULE AuthorizationPromise ------------------------
(***************************************************************************)
(* What a caller of batched authorization is promised, whatever the loader *)
(* and the rounds of partial evaluation do inside: one answer, given once, *)
(* that is the decision of the concrete authorizer on the complete store,  *)
(* "none" if the number of rounds the caller allowed was too small, or an  *)
(* error if the request or a policy does not pass validation.              *)
(***************************************************************************)
CONSTANTS Queries,        \* what may be asked
          Truth(_),       \* the concrete decision of a query
          Valid(_),       \* the request and the policies pass validation
          MayGiveUp       \* the rounds allowed may be too few

VARIABLES query, answer

Init == query \in Queries /\ answer = "pending"

Answer(a) == answer = "pending" /\ answer' = a /\ UNCHANGED query

Next == \/ Valid(query) /\ Answer(Truth(query))
        \/ Valid(query) /\ MayGiveUp /\ Answer("none")
        \/ ~Valid(query) /\ Answer("error")

vars == <<query, answer>>
SafetySpec == Init /\ [][Next]_vars
Spec == SafetySpec /\ WF_vars(Next)

=============================================================================
