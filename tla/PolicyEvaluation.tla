--------------------------- MODULE PolicyEvaluation ---------------------------
(***************************************************************************)
(* What the active policy says of a tool call: policy/matcher.ts finds the *)
(* rule that applies, risk/scorer.ts scores the call and                   *)
(* policy/evaluator.ts decides.                                            *)
(*                                                                         *)
(* Ids are numbers, in the order localeCompare() gives them.  The evidence *)
(* of a call is the set of signals that the patterns of the scorer find in *)
(* its name, its arguments and its annotations.                            *)
(***************************************************************************)
EXTENDS Integers, Sequences, FiniteSetsExt

CONSTANT Covers   \* the names each pattern with a * matches

Decisions == {"allow", "ask", "deny"}

\* DECISION_RANK.
Rank == [allow |-> 0, ask |-> 1, deny |-> 2]

\* SIGNAL_POINTS.
Points == [ local_write |-> 20, destructive |-> 30, external_side_effect |-> 25,
            credential_access |-> 25, privileged_target |-> 25, broad_target |-> 20,
            shell_execution |-> 20, open_world |-> 10 ]

\* PolicyRuleSchema and MatchSchema.
PolicyRule ==
    [ id : Int, priority : Int, server : STRING, tools : (SUBSET STRING) \ {{}},
      decision : Decisions, tags : SUBSET (DOMAIN Points \cup {"local_read"}) ]

Call == [ server : STRING, tool : STRING, evidence : SUBSET DOMAIN Points ]

\* superRefine() of PolicyDocumentSchema: no two rules have one id.
UniqueIds(rules) ==
    \A i, j \in DOMAIN rules : rules[i].id = rules[j].id => i = j

-----------------------------------------------------------------------------
(* The rule that applies. *)

\* 2 for the name itself, 1 for a wildcard, 0 for no match.
MatchSpecificity(pattern, value) ==
    IF pattern = value THEN 2
    ELSE IF pattern \in DOMAIN Covers /\ value \in Covers[pattern] THEN 1 ELSE 0

ToolSpecificity(rule, call) ==
    Max({MatchSpecificity(pattern, call.tool) : pattern \in rule.tools})

Applies(rule, call) ==
    MatchSpecificity(rule.server, call.server) > 0 /\ ToolSpecificity(rule, call) > 0

Specificity(rule, call) ==
    MatchSpecificity(rule.server, call.server) + ToolSpecificity(rule, call)

\* Mutant of ComparesFirst: the stricter decision does not come first.
ComparesFirstByName(left, right, call) ==
    \/ left.priority > right.priority
    \/ /\ left.priority = right.priority
       /\ \/ Specificity(left, call) > Specificity(right, call)
          \/ /\ Specificity(left, call) = Specificity(right, call)
             /\ left.id < right.id

\* compareRankedRules(left, right) < 0.
ComparesFirst(left, right, call) ==
    \/ left.priority > right.priority
    \/ /\ left.priority = right.priority
       /\ \/ Specificity(left, call) > Specificity(right, call)
          \/ /\ Specificity(left, call) = Specificity(right, call)
             /\ \/ Rank[left.decision] > Rank[right.decision]
                \/ left.decision = right.decision /\ left.id < right.id

\* matches.sort(), which is stable, and matches[0]: the first rule of the file
\* that no other one precedes.
Winners(rules, call) ==
    {i \in DOMAIN rules :
        /\ Applies(rules[i], call)
        /\ \A j \in DOMAIN rules :
             Applies(rules[j], call) => ~ComparesFirst(rules[j], rules[i], call)}

MatchPolicy(rules, call) ==
    IF Winners(rules, call) = {}
    THEN [decision |-> "ask", tags |-> {}, reason |-> "default_ask"]
    ELSE LET rule == rules[Min(Winners(rules, call))]
         IN  [decision |-> rule.decision, tags |-> rule.tags, reason |-> "matched_rule"]

-----------------------------------------------------------------------------
(* The risk of the call. *)

\* A signal counts once, whatever found it.
Signals(tags, call) == (tags \ {"local_read"}) \cup call.evidence

\* The points of the signals, each with the signal it is given for.
Collected(signals) == UNION {{s} \X (1..Points[s]) : s \in signals}

ScoreRisk(tags, call) ==
    LET base == IF "local_read" \in tags THEN 10 ELSE 25
    IN  Min({100, base + Cardinality(Collected(Signals(tags, call)))})

EscalationScore == 60

EvaluatePolicy(rules, call) ==
    LET match == MatchPolicy(rules, call)
        score == ScoreRisk(match.tags, call)
        escalates == match.decision = "allow" /\ score >= EscalationScore
    IN  [ base      |-> match.decision,
          effective |-> IF escalates THEN "ask" ELSE match.decision,
          reasons   |-> {match.reason} \cup (IF escalates THEN {"risk_escalation"} ELSE {}),
          score     |-> score ]

-----------------------------------------------------------------------------
(* What a policy promises, without an order of its rules. *)

\* The applicable rules that no other one outranks in priority, then in
\* specificity.
Foremost(rules, call) ==
    LET all  == {rules[i] : i \in DOMAIN rules}
        hits == {r \in all : Applies(r, call)}
        high == {r \in hits : \A s \in hits : s.priority <= r.priority}
    IN  {r \in high : \A s \in high : Specificity(s, call) <= Specificity(r, call)}

\* The strictest of the foremost rules decides; an unknown call asks; a call is
\* let through only when its risk is low.
DecidesStrictly(rules, call) ==
    LET foremost == Foremost(rules, call)
        e        == EvaluatePolicy(rules, call)
    IN  /\ e.effective = "deny" <=> \E r \in foremost : r.decision = "deny"
        /\ e.effective = "allow" =>
             /\ foremost # {}
             /\ \A r \in foremost : r.decision = "allow"
             /\ e.score < EscalationScore

\* The order in which the rules are written does not matter.
IgnoresOrder(rules, call) ==
    \A i, j \in DOMAIN rules :
        EvaluatePolicy([rules EXCEPT ![i] = rules[j], ![j] = rules[i]], call)
            = EvaluatePolicy(rules, call)

\* More evidence never makes the verdict milder.
HeedsEvidence(rules, call) ==
    \A known \in SUBSET call.evidence :
        Rank[EvaluatePolicy(rules, [call EXCEPT !.evidence = known]).effective]
            <= Rank[EvaluatePolicy(rules, call).effective]
=============================================================================
