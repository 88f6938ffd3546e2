----------------------------- MODULE MCLeanCli -----------------------------
(* The command line on small inputs: every command with every one or two    *)
(* bad inputs, every check over schemas with up to four environments, every *)
(* set of three policies over two environments.                             *)
EXTENDS LeanCli

MCPolicyIds == {"p1", "p2", "p3"}
MCSituations == {"s1", "s2", "s3"}
MCEnvSeq == <<"e1", "e2">>
\* One of the sets is between another and all; a pair may agree in e2 only.
InFirst == {{}, {"s1"}, {"s2"}, {"s1", "s2"}, MCSituations}
Sats == {("e1" :> a) @@ ("e2" :> {}) : a \in InFirst}
          \cup {("e1" :> a) @@ ("e2" :> MCSituations) : a \in {{}, {"s1"}, MCSituations}}
AllPrograms == {[effect |-> f, sat |-> s] : f \in [MCPolicyIds -> Effects], s \in [MCPolicyIds -> Sats]}
MCPrograms == AllPrograms
MCComparisons == {<<{"p1", "p2"}, {"p3"}>>, <<{"p1"}, {"p2", "p3"}>>,
                  <<{"p1", "p2"}, {"p1", "p3"}>>, <<{}, {"p1"}>>}

\* A namespace and a name. Two actions share an id, two types a base name.
User == <<"", "User">>
OtherUser == <<"A", "User">>
Photo == <<"", "Photo">>
View == <<"", "view">>
OtherView == <<"A", "view">>
Applies(ps, rs) == [principals |-> ps, resources |-> rs]
Schemas == {View :> Applies({User, OtherUser}, {Photo, User}),
            (View :> Applies({User}, {Photo})) @@ (OtherView :> Applies({OtherUser}, {Photo}))
              @@ (<<"", "group">> :> Applies({}, {Photo})),
            <<"", "group">> :> Applies({}, {})}
Opens == [principal : {None, Some(User), Some(OtherUser)}, action : {None, Some("view"), Some("edit")},
          resource : {None, Some(Photo)}]
AnyEnv == [principal |-> None, action |-> None, resource |-> None]

Bodies == {<<None>>, <<Some(<<"a">>), Some(<<"a">>)>>, <<Some(<<"a">>), None, Some(<<"policy", 2>>)>>,
           <<None, Some(<<"a">>), None>>}
StepsOf(c) == {Steps(c)[i] : i \in DOMAIN Steps(c)}
Invoke(c, bad, body, schema, holds) ==
  [command |-> c, bad |-> bad, statements |-> body, schema |-> schema, holds |-> holds]
Fine(c) == Invoke(c, {}, <<None>>, <<>>, <<>>)

AnyCommand == EvaluationCommands \cup ValidationCommands \cup AnalysisCommands
                \cup SymCCCommands({[AnyEnv EXCEPT !.principal = Some(User), !.resource = Some(Photo)]})
Failures == UNION {{Invoke(c, {x, y}, <<None>>, <<>>, <<>>) : x, y \in StepsOf(c)} : c \in AnyCommand}
FileLayouts == {Invoke(c, {}, b, <<>>, <<>>) : c \in AnyCommand, b \in Bodies}
Cases == {u \in Schemas \X SUBSET UNION {EnvsOf(s) : s \in Schemas} : u[2] \subseteq EnvsOf(u[1])}
Questions == {Invoke(c, {}, <<None>>, u[1], [e \in EnvsOf(u[1]) |-> e \in u[2]]) :
                c \in SymCCCommands(Opens), u \in Cases}
AllInvocations == Failures \cup FileLayouts \cup Questions
MCInvocations == AllInvocations

\* Only `analyze` reads the three policies, and only from files that are good.
Reads == command \in AnalysisCommands /\ invocation = Fine(command)
MCLeanCliInit ==
  /\ LeanCliInit
  /\ program \in IF Reads THEN MCPrograms ELSE {CHOOSE g \in MCPrograms : TRUE}
  /\ AnalysisInit
MCLeanCliSpec == MCLeanCliInit /\ [][LeanCliNext]_<<cliVars, analysisVars>>

TypeOK == LeanCliTypeOK
=============================================================================
