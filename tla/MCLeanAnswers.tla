--------------------------- MODULE MCLeanAnswers ---------------------------
(* Terms with up to three levels of compounds over leaves of which some     *)
(* have no counterpart, residuals of every kind with well- and malformed    *)
(* calls, and inputs that are unknown, empty or given.                      *)
EXTENDS LeanAnswers

Leaf(k, l) == <<k, l, <<>>>>
TrueLeaf == Leaf("prim", <<"bool", TRUE>>)
Leaves == {TrueLeaf, Leaf("prim", <<"bitvec", 8, 259>>), Leaf("prim", <<"bitvec", 0, 0>>),
           Leaf("var", <<"x", "bool">>)}
OtherLeaves == {Leaf("none", "bool"), Leaf("prim", <<"ipv4", 32, <<5>>>>), Leaf("prim", <<"ipv4", 64, <<>>>>),
                Leaf("prim", <<"ipv6", 128, <<>>>>), Leaf("prim", <<"ipv6", 128, <<5>>>>)}
SomeOf(t) == <<"some", <<>>, <<t>>>>
AppOf(op, t, u) == <<"app", op, <<t, u>>>>
SetOf(t, u) == <<"set", "bool", IF t = u THEN <<t>> ELSE <<t, u>>>>
RecordOf(t, u) == <<"record", <<"a", "b">>, <<t, u>>>>
Like(p) == <<"app", <<"like", p>>, <<TrueLeaf>>>>
FirstLevel == {SomeOf(t) : t \in Leaves \cup OtherLeaves}
                \cup {SetOf(TrueLeaf, Leaf("var", <<"x", "bool">>)), RecordOf(TrueLeaf, TrueLeaf),
                      AppOf(<<"and">>, TrueLeaf, TrueLeaf), Like(<<"star">>), Like(<<"surrogate">>)}
SecondLevel == {AppOf(<<"eq">>, t, u) : t, u \in FirstLevel}
                 \cup {RecordOf(t, u) : t, u \in {SomeOf(l) : l \in Leaves}}
                 \cup {SetOf(t, u) : t, u \in {SomeOf(l) : l \in Leaves}}
ThirdLevel == {AppOf(<<"or">>, AppOf(<<"eq">>, t, u), SomeOf(t)) : t, u \in {SomeOf(l) : l \in Leaves}}
                \cup {AppOf(<<"or">>, RecordOf(t, u), RecordOf(u, t)) : t, u \in {SomeOf(l) : l \in Leaves}}
Terms == Leaves \cup OtherLeaves \cup FirstLevel \cup SecondLevel \cup ThirdLevel

ResidualLeaves == {Leaf("val", <<"v">>), Leaf("var", "principal"), Leaf("error", <<>>)}
V == Leaf("val", <<"v">>)
ResidualNodes(kids) ==
  {<<k, <<>>, <<a, b>>>> : k \in {"and", "or", "set"}, a, b \in kids}
    \cup {<<"ite", <<>>, <<a, b, V>>>> : a, b \in kids}
    \cup {<<"unary", o, <<a>>>> : o \in {"Not", "Neg", "IsEmpty"}, a \in kids}
    \cup {<<"binary", RustBinary[i], <<a, V>>>> : i \in DOMAIN RustBinary, a \in kids}
    \cup {<<k, "attr", <<a>>>> : k \in {"getAttr", "hasAttr", "is"}, a \in kids}
    \cup {<<"extHasAttr", <<"attr", "b">>, <<a>>>> : a \in kids}
    \cup {<<"like", p, <<a>>>> : p \in {<<>>, <<"star", "surrogate">>}, a \in kids}
    \cup {<<"call", f, <<a>>>> : f \in UnaryFunctions \cup BinaryFunctions, a \in kids}
    \cup {<<"call", f, <<a, V>>>> : f \in {"ip"} \cup BinaryFunctions, a \in kids}
    \cup {<<"record", <<>>, [k \in {"b", "a"} |-> IF k = "a" THEN a ELSE V]>> : a \in kids}
Residuals == ResidualLeaves \cup ResidualNodes(ResidualLeaves)
               \cup ResidualNodes({<<"call", "ip", <<V>>>>, <<"call", "ip", <<V, V>>>>,
                                   <<"binary", "In", <<V, Leaf("var", "principal")>>>>})

Plain == {Leaf("decimal", d) : d \in {0, 1, 9999, 10000, 123456}} \cup {Leaf("decimal", -d) : d \in {1, 9999, 10000, 123456}}
           \cup {Leaf("ipv4", <<16909060, p>>) : p \in {<<>>, <<24>>}}
           \cup {Leaf("datetime", 7), Leaf("bool", TRUE)}
SomeValues == Plain \cup {<<"set", <<>>, <<v, w>>>> : v, w \in Plain}
            \cup {<<"record", ks, <<v, Leaf("bool", TRUE)>>>> : v \in Plain, ks \in {<<"a", "b">>, <<"a", "a">>}}
            \cup {<<"set", <<>>, <<<<"record", <<"a", "a">>, <<v, v>>>>>>>> : v \in Plain}

Maybe(s) == {<<>>} \cup {<<x>> : x \in s}
Ways == {[about |-> "term", term |-> t] : t \in Terms}
          \cup {[about |-> "residual", residual |-> r] : r \in Residuals}
          \cup {[about |-> "value", value |-> v] : v \in SomeValues}
          \cup {[about |-> "partial request", request |-> q] :
                  q \in [principal : Maybe({"p"}), resource : Maybe({"r"}), context : Maybe(SUBSET {"k", "l"})]}
          \cup {[about |-> "partial entity", entity |-> e] :
                  e \in [attrs : Maybe(SUBSET {"k"}), ancestors : Maybe(SUBSET {"e"}), tags : Maybe(SUBSET {"t"})]}
          \cup {[about |-> "reauthorization", expected |-> x, actual |-> y] :
                  x, y \in {<<"value", "default">>, <<"value", "v">>, <<"error", "">>}}
          \cup {[about |-> "response", response |-> [decision |-> d, partial |-> p, lists |-> [determining |-> l]]] :
                  d \in {<<"allow">>, <<"deny">>, <<"other">>, <<>>}, p \in BOOLEAN, l \in {<<>>, <<"p", "p">>}}
MCConversations == Ways
=============================================================================
