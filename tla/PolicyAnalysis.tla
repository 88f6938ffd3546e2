--------------------------- MODULE PolicyAnalysis ---------------------------
(* cedar-lean-cli/src/analysis.rs: what `analyze policies` and `analyze     *)
(* compare` find. An environment is a request environment of the schema,    *)
(* and a policy is its effect and, in each environment, the set of          *)
(* situations (a request with its entities) it is satisfied in. A query to  *)
(* the symbolic compiler is answered right or fails, and a failure ends the *)
(* analysis.                                                                *)
(*                                                                          *)
(* A finding of the code maps a policy to one set of policies for each      *)
(* environment; here it is a set of triples, and a policy without an entry  *)
(* is one whose sets are all empty (the code never tells them apart).       *)
EXTENDS Naturals, FiniteSets, Sequences, SequencesExt

CONSTANTS PolicyIds, EnvSeq, Situations,
          Programs,       \* the policies: [effect |-> ..., sat |-> ...]
          Comparisons     \* pairs of policy sets to compare

Environments == {EnvSeq[i] : i \in DOMAIN EnvSeq}
Effects == {"permit", "forbid"}
Vacuities == {"MatchesAll", "MatchesSome", "MatchesNone"}
EnvPairs == PolicyIds \X PolicyIds \X Environments

ASSUME ProgramsAssumption ==
  /\ IsFiniteSet(PolicyIds) /\ EnvSeq \in Seq(Environments)
  /\ Situations # {} /\ "none" \notin Situations
  /\ \A g \in Programs : /\ g.effect \in [PolicyIds -> Effects]
                         /\ g.sat \in [PolicyIds -> [Environments -> SUBSET Situations]]

VARIABLES
  program,          \* the policy set, as it is parsed
  analysisStage,    \* what the analyzer does now
  policyVacuity,    \* policy_vacuity_results, for the policies looked at
  setVacuity,       \* policyset_vacuity_results
  compared,         \* the pairs of policies that were compared
  redundant, permitShadowed, permitOverridden, forbidShadowed,   \* the four *_findings
  section,          \* the index of the environment PerSigFindings::new works on
  unclassed,        \* its equiv_results
  classes,          \* equiv_classes, for each environment done so far
  psets,            \* the two policy sets `compare` is given
  status,           \* comparison_results
  report            \* what was printed

findingVars == <<policyVacuity, setVacuity, compared, redundant, permitShadowed,
                 permitOverridden, forbidShadowed>>
classVars == <<section, unclassed, classes>>
analysisVars == <<program, analysisStage, findingVars, classVars, psets, status, report>>

---------------------------------------------------------------------------
(* The queries (what the asserts of SymCC/Verifier.lean are unsat for).     *)

Permits(p) == program.effect[p] = "permit"
Sat(p, e) == program.sat[p][e]

AlwaysMatches(p, e) == Sat(p, e) = Situations
NeverMatches(p, e) == Sat(p, e) = {}
MatchesImplies(p, q, e) == Sat(p, e) \subseteq Sat(q, e)

AllowedBy(ps, e) ==
  {s \in Situations : /\ \E p \in ps : Permits(p) /\ s \in Sat(p, e)
                      /\ \A p \in ps : s \in Sat(p, e) => Permits(p)}
Implies(ps, qs, e) == AllowedBy(ps, e) \subseteq AllowedBy(qs, e)
AlwaysAllows(ps, e) == AllowedBy(ps, e) = Situations
AlwaysDenies(ps, e) == Implies(ps, {}, e)

---------------------------------------------------------------------------
(* Vacuity, for a policy and for the policy set.                            *)

Vacuity(all, none) ==
  IF all THEN "MatchesAll" ELSE IF none THEN "MatchesNone" ELSE "MatchesSome"

PolicyVacuous(p) == [e \in Environments |-> Vacuity(AlwaysMatches(p, e), NeverMatches(p, e))]

PolicySetVacuous ==
  [e \in Environments |-> Vacuity(AlwaysAllows(PolicyIds, e), AlwaysDenies(PolicyIds, e))]

\* vacuous_finding_from_results: one verdict over all environments.
VacuousFinding(results) == Vacuity(\A e \in Environments : results[e] = "MatchesAll",
                                   \A e \in Environments : results[e] = "MatchesNone")

---------------------------------------------------------------------------
(* Two policies in one environment.                                         *)

ByVacuity(v1, v2, forward, backward) ==
  IF v1 = "MatchesNone" \/ v2 = "MatchesNone" THEN "NoResult"
  ELSE CASE v1 = "MatchesAll" /\ v2 = "MatchesAll" -> "Equivalent"
         [] v1 = "MatchesAll" /\ v2 = "MatchesSome" -> "Policy1Shadows2"
         [] v1 = "MatchesSome" /\ v2 = "MatchesAll" -> "Policy2Shadows1"
         [] OTHER -> IF forward THEN IF backward THEN "Equivalent" ELSE "Policy2Shadows1"
                     ELSE IF backward THEN "Policy1Shadows2" ELSE "NoResult"

\* A slip: what the asymmetric answers mean is the wrong way round.
SwappedPermitShadowing(p, q, e) ==
  ByVacuity(policyVacuity[p][e], policyVacuity[q][e],
            Implies({q}, {p}, e), Implies({p}, {q}, e))

\* Two permits are compared as policy sets of one policy each.
PermitShadowing(p, q, e) ==
  ByVacuity(policyVacuity[p][e], policyVacuity[q][e],
            Implies({p}, {q}, e), Implies({q}, {p}, e))

\* Two forbids, by what they match: a set of forbids alone allows nothing.
ForbidShadowing(p, q, e) ==
  ByVacuity(policyVacuity[p][e], policyVacuity[q][e],
            MatchesImplies(p, q, e), MatchesImplies(q, p, e))

Overrides(forbid, permit, e) ==
  /\ policyVacuity[forbid][e] = "MatchesSome"
  /\ policyVacuity[permit][e] = "MatchesSome"
  /\ MatchesImplies(permit, forbid, e)

\* update_findings: what q is to p in the environments where the result is
\* the one asked for.
Update(findings, p, q, results, filter) ==
  findings \cup {<<p, q, e>> : e \in {x \in Environments : results[x] = filter}}

BothWays(findings, p, q, results) ==
  Update(Update(findings, p, q, results, "Equivalent"), q, p, results, "Equivalent")
Shadowings(findings, p, q, results) ==
  Update(Update(findings, p, q, results, "Policy2Shadows1"), q, p, results, "Policy1Shadows2")

---------------------------------------------------------------------------
(* The report.                                                              *)

InEnv(findings, e) == {<<t[1], t[2]>> : t \in {x \in findings : x[3] = e}}

PerSigFindings(e) ==
  [equiv |-> classes[e],
   permits |-> InEnv(permitShadowed, e), forbids |-> InEnv(forbidShadowed, e),
   overridden |-> InEnv(permitOverridden, e)]

NFindings(f) == Cardinality(f.equiv) + Cardinality(f.permits)
                  + Cardinality(f.overridden) + Cardinality(f.forbids)

AnalyzePolicyFindings ==
  LET found == [e \in Environments |-> PerSigFindings(e)] IN
  [set |-> VacuousFinding(setVacuity),
   policies |-> {<<p, VacuousFinding(policyVacuity[p])>> :
                   p \in {q \in PolicyIds : VacuousFinding(policyVacuity[q]) # "MatchesSome"}},
   sections |-> [e \in {x \in Environments : NFindings(found[x]) # 0} |-> found[e]]]

\* How many there are in all environments.
SumOver(counts) == FoldFunction(+, 0, counts)

\* print_table: the number it announces and the lines of each row.
Lines(f) == {<<"redundant", c>> : c \in f.equiv}
              \cup {<<"shadowed", t[1], t[2]>> : t \in f.permits}
              \cup {<<"overridden", t[1], t[2]>> : t \in f.overridden}
              \cup {<<"shadowed", t[1], t[2]>> : t \in f.forbids}
PrintTable(f) ==
  [format |-> "table", set |-> f.set, policies |-> f.policies,
   found |-> SumOver([e \in DOMAIN f.sections |-> NFindings(f.sections[e])]),
   rows |-> [e \in DOMAIN f.sections |-> Lines(f.sections[e])]]

\* print_json (util.rs): a policy once, with all that shadow or override it.
Grouped(pairs) ==
  {<<p, {q \in PolicyIds : <<p, q>> \in pairs}>> : p \in {t[1] : t \in pairs}}
PrintJson(f) ==
  [format |-> "json", set |-> f.set, policies |-> f.policies,
   sections |-> [e \in DOMAIN f.sections |->
     [equiv |-> f.sections[e].equiv \ {{}}, permits |-> Grouped(f.sections[e].permits),
      forbids |-> Grouped(f.sections[e].forbids),
      overridden |-> Grouped(f.sections[e].overridden)]]]

---------------------------------------------------------------------------
(* The analyzer. Between two queries another thing may have failed; within  *)
(* one action every query it makes is answered.                             *)

NoReport == [format |-> "none"]

AnalysisInit ==
  /\ analysisStage = "idle" /\ psets = <<{}, {}>>
  /\ policyVacuity = <<>> /\ setVacuity = <<>> /\ compared = {}
  /\ redundant = {} /\ permitShadowed = {} /\ permitOverridden = {} /\ forbidShadowed = {}
  /\ section = 0 /\ unclassed = <<>> /\ classes = [e \in Environments |-> {}]
  /\ status = <<>> /\ report = NoReport
  /\ program \in Programs

\* Analyzer::new has loaded the schema into Lean and the files are parsed.
Analyze ==
  /\ analysisStage = "idle" /\ analysisStage' = "policies"
  /\ UNCHANGED <<program, findingVars, classVars, psets, status, report>>

Compare ==
  /\ analysisStage = "idle" /\ analysisStage' = "compare"
  /\ psets' \in Comparisons
  /\ UNCHANGED <<program, findingVars, classVars, status, report>>

LookAtPolicy(p) ==
  /\ analysisStage = "policies" /\ p \notin DOMAIN policyVacuity
  /\ policyVacuity' = [q \in DOMAIN policyVacuity \cup {p} |->
                         IF q = p THEN PolicyVacuous(p) ELSE policyVacuity[q]]
  /\ UNCHANGED <<program, analysisStage, setVacuity, compared, redundant, permitShadowed,
                 permitOverridden, forbidShadowed, classVars, psets, status, report>>

LookAtPolicySet ==
  /\ analysisStage = "policies" /\ DOMAIN policyVacuity = PolicyIds
  /\ setVacuity' = PolicySetVacuous
  /\ analysisStage' = "pairs"
  /\ UNCHANGED <<program, policyVacuity, compared, redundant, permitShadowed,
                 permitOverridden, forbidShadowed, classVars, psets, status, report>>

ComparePermits(p, q) ==
  LET results == [e \in Environments |-> PermitShadowing(p, q, e)] IN
  /\ redundant' = BothWays(redundant, p, q, results)
  /\ permitShadowed' = Shadowings(permitShadowed, p, q, results)
  /\ UNCHANGED <<permitOverridden, forbidShadowed>>

CompareForbids(p, q) ==
  LET results == [e \in Environments |-> ForbidShadowing(p, q, e)] IN
  /\ redundant' = BothWays(redundant, p, q, results)
  /\ forbidShadowed' = Shadowings(forbidShadowed, p, q, results)
  /\ UNCHANGED <<permitShadowed, permitOverridden>>

ComparePermitForbid(permit, forbid) ==
  LET results == [e \in Environments |->
                    IF Overrides(forbid, permit, e) THEN "Overrides" ELSE "NoResult"] IN
  /\ permitOverridden' = Update(permitOverridden, permit, forbid, results, "Overrides")
  /\ UNCHANGED <<redundant, permitShadowed, forbidShadowed>>

\* One pair of array_combinations: any two policies, in the order they have
\* in the file.
ComparePair(p, q) ==
  /\ analysisStage = "pairs" /\ p # q /\ {p, q} \notin compared
  /\ compared' = compared \cup {{p, q}}
  /\ \/ Permits(p) /\ Permits(q) /\ ComparePermits(p, q)
     \/ ~Permits(p) /\ ~Permits(q) /\ CompareForbids(p, q)
     \/ Permits(p) /\ ~Permits(q) /\ ComparePermitForbid(p, q)
     \/ ~Permits(p) /\ Permits(q) /\ ComparePermitForbid(q, p)
  /\ UNCHANGED <<program, analysisStage, policyVacuity, setVacuity, classVars, psets,
                 status, report>>

AllPairs == {ps \in SUBSET PolicyIds : Cardinality(ps) = 2}

\* PerSigFindings::new, once for each environment: whatever policy the map
\* gives next takes its class with it.
OpenSection ==
  /\ analysisStage = "pairs" /\ compared = AllPairs
  /\ unclassed = <<>> /\ section < Len(EnvSeq)
  /\ section' = section + 1
  /\ unclassed' = [p \in {t[1] : t \in redundant} |->
                     {q \in PolicyIds : <<p, q, EnvSeq[section']>> \in redundant}]
  /\ UNCHANGED <<program, analysisStage, findingVars, classes, psets, status, report>>

TakeClass(p) ==
  LET class == unclassed[p] \cup {p} IN
  /\ p \in DOMAIN unclassed
  /\ unclassed' = [q \in DOMAIN unclassed \ class |-> unclassed[q]]
  /\ classes' = IF Cardinality(class) >= 2
                THEN [classes EXCEPT ![EnvSeq[section]] = @ \cup {class}]
                ELSE classes
  /\ UNCHANGED <<program, analysisStage, findingVars, section, psets, status, report>>

PrintFindings(json) ==
  /\ analysisStage = "pairs" /\ compared = AllPairs
  /\ unclassed = <<>> /\ section = Len(EnvSeq)
  /\ report' = IF json THEN PrintJson(AnalyzePolicyFindings)
               ELSE PrintTable(AnalyzePolicyFindings)
  /\ analysisStage' = "done"
  /\ UNCHANGED <<program, findingVars, classVars, psets, status>>

---------------------------------------------------------------------------
(* compare_policysets: a counterexample each way, in each environment.      *)

Counterexamples(ps, qs, e) ==
  IF Implies(ps, qs, e) THEN {"none"} ELSE AllowedBy(ps, e) \ AllowedBy(qs, e)

\* A slip: one implication is taken for an equivalence.
OneWayStatus(fwd, bwd) ==
  IF fwd = "none" THEN [is |-> "Equivalent"] ELSE [is |-> "MorePermissive", more |-> fwd]

ComparisonStatus(fwd, bwd) ==
  CASE fwd = "none" /\ bwd = "none" -> [is |-> "Equivalent"]
    [] fwd = "none" /\ bwd # "none" -> [is |-> "LessPermissive", less |-> bwd]
    [] fwd # "none" /\ bwd = "none" -> [is |-> "MorePermissive", more |-> fwd]
    [] OTHER -> [is |-> "Incomparable", more |-> fwd, less |-> bwd]

CompareNext ==
  LET e == EnvSeq[Len(status) + 1] IN
  /\ analysisStage = "compare" /\ Len(status) < Len(EnvSeq)
  /\ \E fwd \in Counterexamples(psets[1], psets[2], e), bwd \in Counterexamples(psets[2], psets[1], e) :
       status' = Append(status, ComparisonStatus(fwd, bwd))
  /\ UNCHANGED <<program, analysisStage, findingVars, classVars, psets, report>>

PrintComparison ==
  /\ analysisStage = "compare" /\ Len(status) = Len(EnvSeq)
  /\ report' = [format |-> "comparison", results |-> status]
  /\ analysisStage' = "done"
  /\ UNCHANGED <<program, findingVars, classVars, psets, status>>

\* The solver gives up, or the backend fails: `?` leaves with the error, and
\* what was found is lost.
QueryFails ==
  /\ \/ analysisStage = "policies"
     \/ analysisStage = "pairs" /\ compared # AllPairs
     \/ analysisStage = "compare" /\ Len(status) < Len(EnvSeq)
  /\ analysisStage' = "failed"
  /\ UNCHANGED <<program, findingVars, classVars, psets, status, report>>

AnalysisStep ==
  \/ \E p \in PolicyIds : LookAtPolicy(p)
  \/ LookAtPolicySet
  \/ \E p, q \in PolicyIds : ComparePair(p, q)
  \/ OpenSection
  \/ \E p \in DOMAIN unclassed : TakeClass(p)
  \/ \E json \in BOOLEAN : PrintFindings(json)
  \/ CompareNext \/ PrintComparison
  \/ QueryFails

AnalysisNext == Analyze \/ Compare \/ AnalysisStep

AnalysisSpec == AnalysisInit /\ [][AnalysisNext]_analysisVars

---------------------------------------------------------------------------

AnalysisTypeOK ==
  /\ program \in Programs
  /\ analysisStage \in {"idle", "policies", "pairs", "compare", "done", "failed"}
  /\ DOMAIN policyVacuity \subseteq PolicyIds
  /\ \A p \in DOMAIN policyVacuity : policyVacuity[p] \in [Environments -> Vacuities]
  /\ setVacuity = <<>> \/ setVacuity \in [Environments -> Vacuities]
  /\ compared \subseteq AllPairs
  /\ redundant \subseteq EnvPairs /\ permitShadowed \subseteq EnvPairs
  /\ permitOverridden \subseteq EnvPairs /\ forbidShadowed \subseteq EnvPairs
  /\ section \in 0..Len(EnvSeq)
  /\ DOMAIN unclassed \subseteq PolicyIds
  /\ \A p \in DOMAIN unclassed : unclassed[p] \subseteq PolicyIds
  /\ classes \in [Environments -> SUBSET SUBSET PolicyIds]

\* What is so in an environment, in terms of what the policies are satisfied
\* by and not of the queries that were made.
SameSituations(p, q, e) ==
  p # q /\ Permits(p) = Permits(q) /\ Sat(p, e) = Sat(q, e) /\ Sat(p, e) # {}
Within(p, q, e) ==
  /\ Permits(p) = Permits(q) /\ Sat(p, e) # {}
  /\ Sat(p, e) \subseteq Sat(q, e) /\ Sat(p, e) # Sat(q, e)
NeverGrants(p, q, e) ==
  /\ Permits(p) /\ ~Permits(q) /\ Sat(p, e) \subseteq Sat(q, e)
  /\ Sat(p, e) # {} /\ Sat(q, e) # Situations
Facts(e) ==
  {<<"redundant", {q \in PolicyIds : q = p \/ SameSituations(p, q, e)}>> :
     p \in {x \in PolicyIds : \E y \in PolicyIds : SameSituations(x, y, e)}}
  \cup {<<"shadowed", t[1], t[2]>> :
     t \in {x \in PolicyIds \X PolicyIds : Within(x[1], x[2], e)}}
  \cup {<<"overridden", t[1], t[2]>> :
     t \in {x \in PolicyIds \X PolicyIds : NeverGrants(x[1], x[2], e)}}

Ungrouped(kind, groups) ==
  UNION {{<<kind, g[1], q>> : q \in g[2]} : g \in groups}
Said(e) ==
  IF report.format = "table"
  THEN IF e \in DOMAIN report.rows THEN report.rows[e] ELSE {}
  ELSE IF e \notin DOMAIN report.sections THEN {}
       ELSE LET s == report.sections[e] IN
            {<<"redundant", c>> : c \in s.equiv} \cup Ungrouped("shadowed", s.permits)
              \cup Ungrouped("shadowed", s.forbids) \cup Ungrouped("overridden", s.overridden)

\* What `analyze policies` reports is exact, in both formats, whatever the
\* order the policies, the pairs and the entries of a hash map come in: in
\* each environment it lists the policies that can be told from others by no
\* request, those that add nothing to another of their effect, and the
\* permits a forbid always overrides, all of them and nothing else; a table
\* announces as many findings as it shows.
ReportExact ==
  report.format \in {"table", "json"} =>
    /\ \A e \in Environments : Said(e) = Facts(e)
    /\ report.format = "table" =>
         report.found = SumOver([e \in DOMAIN report.rows |-> Cardinality(report.rows[e])])
    /\ report.policies =
         {<<p, "MatchesAll">> :
            p \in {q \in PolicyIds : \A e \in Environments : Sat(q, e) = Situations}}
         \cup {<<p, "MatchesNone">> :
            p \in {q \in PolicyIds : /\ \A e \in Environments : Sat(q, e) = {}
                                     /\ Environments # {}}}

\* `analyze compare` tells apart the policy sets that decide alike, those of
\* which one allows more, and the rest, and every example it prints is a
\* situation that shows it.
ComparisonExact ==
  report.format = "comparison" =>
    \A i \in DOMAIN EnvSeq :
      LET e == EnvSeq[i]
          r == report.results[i]
          one == AllowedBy(psets[1], e)
          two == AllowedBy(psets[2], e)
      IN /\ r.is = "Equivalent" <=> one = two
         /\ r.is = "LessPermissive" <=> (one \subseteq two /\ one # two)
         /\ r.is = "MorePermissive" <=> (two \subseteq one /\ one # two)
         /\ r.is \in {"MorePermissive", "Incomparable"} => r.more \in one \ two
         /\ r.is \in {"LessPermissive", "Incomparable"} => r.less \in two \ one

\* Both commands report what is so.
AnalysisExact == ReportExact /\ ComparisonExact
=============================================================================
