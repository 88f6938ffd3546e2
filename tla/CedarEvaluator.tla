--------------------------- MODULE CedarEvaluator ---------------------------
(***************************************************************************)
(* The concrete evaluator of Cedar expressions                             *)
(* (cedar-lean/Cedar/Spec/Evaluator.lean) over the typed expression trees  *)
(* that type-aware partial evaluation works on                             *)
(* (cedar-lean/Cedar/TPE/Residual.lean).                                   *)
(*                                                                         *)
(* An expression node carries its constructor in op and its type in ty: an *)
(* `error` node always fails, a `val` node is its value.  The request      *)
(* gives the value of every variable.                                      *)
(***************************************************************************)
EXTENDS CedarValues

RECURSIVE HasAttrs(_, _, _)
HasAttrs(v, attrs, es) == HasAttrsStep(v, attrs, es, LAMBDA w, rest : HasAttrs(w, rest, es))

RECURSIVE Evaluate(_, _, _)
Evaluate(x, req, es) ==
  EvaluateStep(x, req, es, LAMBDA y : Evaluate(y, req, es), LAMBDA v, path : HasAttrs(v, path, es))
=============================================================================
