------------------------ MODULE PolicyControllerProofs ------------------------
(***************************************************************************)
(* Proofs about the live policy, for any number of processes, any texts    *)
(* and any number of saves, edits, crashes and power failures.             *)
(*                                                                         *)
(* The file is never torn because a rename only ever installs a file that  *)
(* was synced, and an acknowledged save survives because between its       *)
(* rename and its answer nobody else has written the file (the process is  *)
(* not in `raced') and the directory was synced (`weak' is false).         *)
(*                                                                         *)
(* Only texts parsePolicyYaml accepts become active, and every such text,  *)
(* whatever its rules, judges every call soundly: compareRankedRules() is  *)
(* a strict order that is total on rules with different ids, so exactly    *)
(* one applicable rule is preceded by no other.                            *)
(***************************************************************************)
EXTENDS PolicyController, FiniteSetTheorems, TLAPS

-----------------------------------------------------------------------------
(* What a policy says of a call. *)

\* A policy of finitely many well-formed rules.
IsPolicy(rules) ==
    /\ IsFiniteSet(DOMAIN rules)
    /\ DOMAIN rules \subseteq Nat
    /\ rules \in [DOMAIN rules -> PolicyRule]

\* A finite set has a minimal element in every strict order.
LEMMA FiniteMinimal ==
    ASSUME NEW S, IsFiniteSet(S), S # {}, NEW R,
           \A x \in S : <<x, x>> \notin R,
           \A x, y, z \in S : <<x, y>> \in R /\ <<y, z>> \in R => <<x, z>> \in R
    PROVE  \E x \in S : \A y \in S : <<y, x>> \notin R
<1> DEFINE Bad == {T \in SUBSET S : T # {} /\ ~ \E x \in T : \A y \in T : <<y, x>> \notin R}
<1> SUFFICES ASSUME Bad # {} PROVE FALSE
  OBVIOUS
<1>1. Bad \subseteq FiniteSubsetsOf(S)
  BY FS_FiniteSubsetsOfFinite
<1>2. PICK T \in Bad : \A U \in Bad : <<U, T>> \notin StrictSubsetOrdering(S)
  <2> HIDE DEF Bad
  <2> QED
    BY <1>1, WFMin, FS_StrictSubsetOrderingWellFounded
<1>3. T \subseteq S /\ T # {} /\ ~ \E x \in T : \A y \in T : <<y, x>> \notin R
  OBVIOUS
<1>4. PICK a \in T : TRUE
  BY <1>3
<1> DEFINE U == T \ {a}
<1>5. U # {}
  BY <1>3, <1>4
<1>6. PICK b \in U : \A y \in U : <<y, b>> \notin R
  <2>1. <<U, T>> \in StrictSubsetOrdering(S)
    BY <1>3, <1>4 DEF StrictSubsetOrdering
  <2>2. U \notin Bad
    BY <1>2, <2>1
  <2> QED
    BY <1>3, <1>5, <2>2
<1>7. <<a, b>> \in R
  BY <1>3, <1>6
<1>8. \A y \in T : <<y, a>> \notin R
  BY <1>3, <1>4, <1>6, <1>7
<1> QED
  BY <1>3, <1>4, <1>8

\* Specificity is a small number.
LEMMA SpecificityType ==
    ASSUME NEW rule \in PolicyRule, NEW call
    PROVE  /\ ToolSpecificity(rule, call) \in {0, 1, 2}
           /\ Specificity(rule, call) \in Int
<1>1. \A pattern, value : MatchSpecificity(pattern, value) \in {0, 1, 2}
  BY DEF MatchSpecificity
<1> DEFINE S == {MatchSpecificity(pattern, call.tool) : pattern \in rule.tools}
<1>2. S \subseteq {0, 1, 2} /\ S # {}
  <2>1. rule.tools # {}
    BY DEF PolicyRule
  <2>2. PICK pattern \in rule.tools : TRUE
    BY <2>1
  <2>3. MatchSpecificity(pattern, call.tool) \in S
    BY <2>2
  <2> QED
    BY <1>1, <2>3
<1>3. \E x \in S : \A y \in S : x >= y
  <2> HIDE DEF S
  <2>1. CASE 2 \in S
    BY <1>2, <2>1
  <2>2. CASE 2 \notin S /\ 1 \in S
    BY <1>2, <2>2
  <2>3. CASE 2 \notin S /\ 1 \notin S
    <3>1. S = {0}
      BY <1>2, <2>3
    <3> QED
      BY <3>1
  <2> QED
    BY <2>1, <2>2, <2>3
<1>4. Max(S) \in S
  <2> HIDE DEF S
  <2> QED
    BY <1>3 DEF Max
<1>5. ToolSpecificity(rule, call) \in {0, 1, 2}
  BY <1>2, <1>4 DEF ToolSpecificity
<1> QED
  BY <1>1, <1>5 DEF Specificity

\* Decisions are ranked, each differently.
LEMMA RankType ==
    /\ \A d \in Decisions : Rank[d] \in 0..2
    /\ \A d, e \in Decisions : Rank[d] = Rank[e] => d = e
    /\ Rank["allow"] = 0 /\ Rank["ask"] = 1 /\ Rank["deny"] = 2
BY DEF Rank, Decisions

\* compareRankedRules() is a strict order, total on rules with different ids.
LEMMA ComparesFirstOrders ==
    ASSUME NEW call, NEW a \in PolicyRule, NEW b \in PolicyRule, NEW c \in PolicyRule
    PROVE  /\ ~ComparesFirst(a, a, call)
           /\ ComparesFirst(a, b, call) /\ ComparesFirst(b, c, call) => ComparesFirst(a, c, call)
           /\ a.id # b.id => ComparesFirst(a, b, call) \/ ComparesFirst(b, a, call)
<1>1. ASSUME NEW r \in PolicyRule
      PROVE  /\ Specificity(r, call) \in Int /\ r.priority \in Int /\ r.id \in Int
             /\ r.decision \in Decisions /\ Rank[r.decision] \in Int
  BY SpecificityType, RankType DEF PolicyRule
<1>2. \A d, e \in Decisions : Rank[d] = Rank[e] <=> d = e
  BY RankType
<1> QED
  BY <1>1, <1>2 DEF ComparesFirst

\* The rule that applies: the only one that no other applicable rule precedes.
LEMMA OneWinner ==
    ASSUME NEW rules, IsPolicy(rules), UniqueIds(rules), NEW call,
           \E i \in DOMAIN rules : Applies(rules[i], call)
    PROVE  \E w \in DOMAIN rules : Winners(rules, call) = {w}
<1> DEFINE Hits == {i \in DOMAIN rules : Applies(rules[i], call)}
           R == {e \in Hits \X Hits : ComparesFirst(rules[e[1]], rules[e[2]], call)}
<1>1. \A i \in DOMAIN rules : rules[i] \in PolicyRule
  BY DEF IsPolicy
<1>2. IsFiniteSet(Hits) /\ Hits # {}
  <2>1. Hits \in SUBSET DOMAIN rules
    OBVIOUS
  <2> QED
    BY <2>1, FS_Subset DEF IsPolicy
<1>3. \A i, j \in Hits : <<i, j>> \in R <=> ComparesFirst(rules[i], rules[j], call)
  OBVIOUS
<1>4. \A i, j, k \in Hits :
         /\ <<i, i>> \notin R
         /\ <<i, j>> \in R /\ <<j, k>> \in R => <<i, k>> \in R
         /\ i # j => <<i, j>> \in R \/ <<j, i>> \in R
  <2> HIDE DEF R
  <2>1. ASSUME NEW i \in Hits, NEW j \in Hits, NEW k \in Hits
        PROVE  /\ <<i, i>> \notin R
               /\ <<i, j>> \in R /\ <<j, k>> \in R => <<i, k>> \in R
               /\ i # j => <<i, j>> \in R \/ <<j, i>> \in R
    <3>1. i # j => rules[i].id # rules[j].id
      BY DEF UniqueIds
    <3> QED
      BY <1>1, <1>3, <3>1, ComparesFirstOrders
  <2> QED
    BY <2>1
<1> HIDE DEF R
<1>5. PICK w \in Hits : \A j \in Hits : <<j, w>> \notin R
  <2> HIDE DEF Hits
  <2> QED
    BY <1>2, <1>4, FiniteMinimal
<1>6. w \in Winners(rules, call)
  BY <1>3, <1>5 DEF Winners
<1>7. ASSUME NEW v \in Winners(rules, call) PROVE v = w
  <2>1. v \in Hits /\ <<w, v>> \notin R
    BY <1>3, <1>5 DEF Winners
  <2> QED
    BY <1>4, <1>5, <2>1
<1> QED
  BY <1>6, <1>7

\* What matchPolicy() returns, with and without an applicable rule.
LEMMA MatchIsWinner ==
    ASSUME NEW rules, IsPolicy(rules), NEW call
    PROVE  /\ \A w \in DOMAIN rules : Winners(rules, call) = {w} =>
                MatchPolicy(rules, call) =
                  [decision |-> rules[w].decision, tags |-> rules[w].tags,
                   reason |-> "matched_rule"]
           /\ (\A i \in DOMAIN rules : ~Applies(rules[i], call)) =>
                MatchPolicy(rules, call) =
                  [decision |-> "ask", tags |-> {}, reason |-> "default_ask"]
<1>1. ASSUME NEW w \in DOMAIN rules, Winners(rules, call) = {w}
      PROVE  Min(Winners(rules, call)) = w /\ Winners(rules, call) # {}
  <2>1. w \in Nat
    BY DEF IsPolicy
  <2>2. Min({w}) = w
    BY <2>1 DEF Min
  <2> QED
    BY <1>1, <2>2
<1>2. ASSUME \A i \in DOMAIN rules : ~Applies(rules[i], call)
      PROVE  Winners(rules, call) = {}
  BY <1>2 DEF Winners
<1> QED
  BY <1>1, <1>2 DEF MatchPolicy

\* matchPolicy() gives a decision and tags of the right kind.
LEMMA MatchType ==
    ASSUME NEW rules, IsPolicy(rules), UniqueIds(rules), NEW call
    PROVE  /\ MatchPolicy(rules, call).decision \in Decisions
           /\ MatchPolicy(rules, call).tags \subseteq DOMAIN Points \cup {"local_read"}
<1>1. CASE \E i \in DOMAIN rules : Applies(rules[i], call)
  <2>1. PICK w \in DOMAIN rules : Winners(rules, call) = {w}
    BY <1>1, OneWinner
  <2>2. rules[w] \in PolicyRule
    BY DEF IsPolicy
  <2>3. rules[w].decision \in Decisions /\ rules[w].tags \subseteq DOMAIN Points \cup {"local_read"}
    BY <2>2 DEF PolicyRule
  <2> QED
    BY <2>1, <2>3, MatchIsWinner
<1>2. CASE \A i \in DOMAIN rules : ~Applies(rules[i], call)
  BY <1>2, MatchIsWinner DEF Decisions
<1> QED
  BY <1>1, <1>2

\* The signals that are scored are finitely many, and more of them score no less.
LEMMA ScoreGrows ==
    ASSUME NEW tags, tags \subseteq DOMAIN Points \cup {"local_read"},
           NEW c1, NEW c2, c1.evidence \subseteq c2.evidence,
           c2.evidence \subseteq DOMAIN Points
    PROVE  /\ ScoreRisk(tags, c1) \in Int /\ ScoreRisk(tags, c2) \in Int
           /\ ScoreRisk(tags, c1) <= ScoreRisk(tags, c2)
<1> DEFINE All == Collected(DOMAIN Points)
           P1 == Collected(Signals(tags, c1))
           P2 == Collected(Signals(tags, c2))
           base == IF "local_read" \in tags THEN 10 ELSE 25
<1>1. P1 \in SUBSET P2 /\ P2 \in SUBSET All
  BY DEF Collected, Signals
<1>2. IsFiniteSet(All)
  <2> DEFINE A == DOMAIN Points
             top == 30
  <2>0. top \in Int
    OBVIOUS
  <2>1. IsFiniteSet(A)
    <3>1. A = {"local_write", "destructive", "external_side_effect", "credential_access",
               "privileged_target", "broad_target", "shell_execution", "open_world"}
      BY DEF Points
    <3>2. A = {"local_write"} \cup {"destructive"} \cup {"external_side_effect"}
              \cup {"credential_access"} \cup {"privileged_target"} \cup {"broad_target"}
              \cup {"shell_execution"} \cup {"open_world"}
      BY <3>1
    <3>3. \A S, x : IsFiniteSet(S) => IsFiniteSet(S \cup {x})
      BY FS_AddElement
    <3>4. IsFiniteSet({"local_write"})
      BY FS_Singleton
    <3> HIDE DEF A
    <3> QED
      BY <3>2, <3>3, <3>4, Zenon
  <2>2. All \in SUBSET (A \X (1..top))
    <3>1. \A s \in A : 1..Points[s] \subseteq 1..top
      BY DEF Points
    <3> QED
      BY <3>1 DEF Collected
  <2>3. IsFiniteSet(1..top)
    <3> HIDE DEF top
    <3> QED
      BY <2>0, FS_Interval
  <2> QED
    BY <2>1, <2>2, <2>3, FS_Product, FS_Subset
<1>3. IsFiniteSet(P2) /\ IsFiniteSet(P1) /\ Cardinality(P1) <= Cardinality(P2)
  <2> HIDE DEF All, P1, P2
  <2> QED
    BY <1>1, <1>2, FS_Subset
<1>4. Cardinality(P1) \in Nat /\ Cardinality(P2) \in Nat
  BY <1>3, FS_CardinalityType
<1>5. \A n \in Int : Min({100, n}) = IF n <= 100 THEN n ELSE 100
  BY DEF Min
<1>6. base \in Int
  OBVIOUS
<1>7. /\ ScoreRisk(tags, c1) = Min({100, base + Cardinality(P1)})
      /\ ScoreRisk(tags, c2) = Min({100, base + Cardinality(P2)})
  BY DEF ScoreRisk
<1> HIDE DEF P1, P2, base
<1>8. base + Cardinality(P1) \in Int /\ base + Cardinality(P2) \in Int
  BY <1>4, <1>6
<1>9. /\ ScoreRisk(tags, c1) =
           IF base + Cardinality(P1) <= 100 THEN base + Cardinality(P1) ELSE 100
      /\ ScoreRisk(tags, c2) =
           IF base + Cardinality(P2) <= 100 THEN base + Cardinality(P2) ELSE 100
  BY <1>5, <1>7, <1>8
<1> QED
  BY <1>3, <1>4, <1>6, <1>9

\* What evaluatePolicy() makes of the match and the score.
LEMMA EvaluateIs ==
    ASSUME NEW rules, NEW call
    PROVE  LET m == MatchPolicy(rules, call)
               s == ScoreRisk(m.tags, call)
               e == EvaluatePolicy(rules, call)
           IN  /\ e.score = s
               /\ m.decision = "allow" /\ s >= EscalationScore => e.effective = "ask"
               /\ ~(m.decision = "allow" /\ s >= EscalationScore) => e.effective = m.decision
BY DEF EvaluatePolicy

\* Among the foremost rules the strictest decides, and an unknown call asks.
LEMMA Strictly ==
    ASSUME NEW rules, IsPolicy(rules), UniqueIds(rules),
           NEW call, call.evidence \subseteq DOMAIN Points
    PROVE  DecidesStrictly(rules, call)
<1> DEFINE F == Foremost(rules, call)
           m == MatchPolicy(rules, call)
           s == ScoreRisk(m.tags, call)
           e == EvaluatePolicy(rules, call)
<1>1. m.decision \in Decisions /\ m.tags \subseteq DOMAIN Points \cup {"local_read"}
  BY MatchType
<1>2. s \in Int
  BY <1>1, ScoreGrows
<1>3. /\ e.score = s
      /\ e.effective = IF m.decision = "allow" /\ s >= EscalationScore THEN "ask" ELSE m.decision
  BY EvaluateIs
<1>4. CASE \A i \in DOMAIN rules : ~Applies(rules[i], call)
  <2>1. m.decision = "ask"
    BY <1>4, MatchIsWinner
  <2>2. F = {}
    BY <1>4 DEF Foremost
  <2> QED
    BY <1>3, <2>1, <2>2 DEF DecidesStrictly
<1>5. CASE \E i \in DOMAIN rules : Applies(rules[i], call)
  <2>1. PICK w \in DOMAIN rules : Winners(rules, call) = {w}
    BY <1>5, OneWinner
  <2>2. m.decision = rules[w].decision
    BY <2>1, MatchIsWinner
  <2> DEFINE hits == {r \in {rules[i] : i \in DOMAIN rules} : Applies(r, call)}
             sp(r) == Specificity(r, call)
  <2>3. /\ hits \subseteq PolicyRule /\ rules[w] \in hits
        /\ \A r \in hits : ~ComparesFirst(r, rules[w], call)
    BY <2>1 DEF Winners, IsPolicy
  <2>4. \A r \in hits : /\ r.priority \in Int /\ sp(r) \in Int
                        /\ r.decision \in Decisions /\ Rank[r.decision] \in Int
    BY <2>3, SpecificityType, RankType DEF PolicyRule
  <2>5. F = LET high == {r \in hits : \A q \in hits : q.priority <= r.priority}
            IN  {r \in high : \A q \in high : sp(q) <= sp(r)}
    BY DEF Foremost
  <2> HIDE DEF hits, sp, F
  <2>6. ASSUME NEW r \in hits
        PROVE  /\ r.priority <= rules[w].priority
               /\ r.priority = rules[w].priority => sp(r) <= sp(rules[w])
               /\ r.priority = rules[w].priority /\ sp(r) = sp(rules[w]) =>
                    Rank[r.decision] <= Rank[rules[w].decision]
    BY <2>3, <2>4 DEF ComparesFirst, sp
  <2>7. rules[w] \in F
    BY <2>3, <2>4, <2>5, <2>6
  <2>8. ASSUME NEW r \in F
        PROVE  r.decision \in Decisions /\ Rank[r.decision] <= Rank[rules[w].decision]
    <3>1. r \in hits /\ \A q \in hits : q.priority <= r.priority
      BY <2>5
    <3>2. r.priority = rules[w].priority
      BY <2>3, <2>4, <2>6, <3>1
    <3>3. sp(rules[w]) <= sp(r)
      BY <2>3, <2>5, <3>1, <3>2
    <3> QED
      BY <2>3, <2>4, <2>6, <3>1, <3>2, <3>3
  <2>9. rules[w].decision \in Decisions
    BY <2>3, <2>4
  <2>10. rules[w].decision = "deny" <=> \E r \in F : r.decision = "deny"
    BY <2>7, <2>8, <2>9, RankType DEF Decisions
  <2>11. rules[w].decision = "allow" => \A r \in F : r.decision = "allow"
    BY <2>8, <2>9, RankType DEF Decisions
  <2>12. e.effective = "deny" <=> \E r \in F : r.decision = "deny"
    BY <1>3, <2>2, <2>10
  <2>13. e.effective = "allow" =>
           F # {} /\ (\A r \in F : r.decision = "allow") /\ e.score < EscalationScore
    BY <1>2, <1>3, <2>2, <2>7, <2>11 DEF EscalationScore
  <2> QED
    BY <2>12, <2>13 DEF DecidesStrictly, F
<1> QED
  BY <1>4, <1>5

\* Exchanging two rules in the file changes nothing.
LEMMA OrderIgnored ==
    ASSUME NEW rules, IsPolicy(rules), UniqueIds(rules), NEW call
    PROVE  IgnoresOrder(rules, call)
<1> SUFFICES ASSUME NEW i \in DOMAIN rules, NEW j \in DOMAIN rules
             PROVE  EvaluatePolicy([rules EXCEPT ![i] = rules[j], ![j] = rules[i]], call)
                      = EvaluatePolicy(rules, call)
  BY DEF IgnoresOrder
<1> DEFINE swapped == [rules EXCEPT ![i] = rules[j], ![j] = rules[i]]
           D == DOMAIN rules
           to(k) == IF k = i THEN j ELSE IF k = j THEN i ELSE k
<1>1. /\ DOMAIN swapped = D
      /\ \A k \in D : to(k) \in D /\ to(to(k)) = k /\ swapped[k] = rules[to(k)]
  BY DEF IsPolicy
<1>2. swapped \in [D -> PolicyRule]
  BY DEF IsPolicy
<1> HIDE DEF swapped, to
<1>3. IsPolicy(swapped)
  BY <1>1, <1>2 DEF IsPolicy
<1>4. UniqueIds(swapped)
  BY <1>1 DEF UniqueIds
<1>5. MatchPolicy(swapped, call) = MatchPolicy(rules, call)
  <2>1. CASE \A k \in D : ~Applies(rules[k], call)
    <3>1. \A k \in D : ~Applies(swapped[k], call)
      BY <1>1, <2>1
    <3> QED
      BY <1>1, <1>3, <2>1, <3>1, MatchIsWinner
  <2>2. CASE \E k \in D : Applies(rules[k], call)
    <3>1. PICK w \in D : Winners(rules, call) = {w}
      BY <2>2, OneWinner
    <3>2. \E k \in D : Applies(swapped[k], call)
      BY <1>1, <2>2
    <3>3. PICK v \in D : Winners(swapped, call) = {v}
      BY <1>1, <1>3, <1>4, <3>2, OneWinner
    <3>4. to(w) \in Winners(swapped, call)
      BY <1>1, <3>1 DEF Winners
    <3>5. swapped[v] = rules[w]
      BY <1>1, <3>3, <3>4
    <3> QED
      BY <1>1, <1>3, <3>1, <3>3, <3>5, MatchIsWinner
  <2> QED
    BY <2>1, <2>2
<1>6. EvaluatePolicy(swapped, call) = EvaluatePolicy(rules, call)
  BY <1>5 DEF EvaluatePolicy
<1> QED
  BY <1>6 DEF swapped

\* More evidence never makes the verdict milder.
LEMMA EvidenceHeeded ==
    ASSUME NEW rules, IsPolicy(rules), UniqueIds(rules), NEW call \in Call
    PROVE  HeedsEvidence(rules, call)
<1> SUFFICES ASSUME NEW known \in SUBSET call.evidence
             PROVE  Rank[EvaluatePolicy(rules, [call EXCEPT !.evidence = known]).effective]
                      <= Rank[EvaluatePolicy(rules, call).effective]
  BY DEF HeedsEvidence
<1> DEFINE less == [call EXCEPT !.evidence = known]
           m == MatchPolicy(rules, call)
<1>1. /\ less.server = call.server /\ less.tool = call.tool /\ less.evidence = known
      /\ known \subseteq call.evidence /\ call.evidence \subseteq DOMAIN Points
  BY DEF Call
<1> HIDE DEF less
<1>2. MatchPolicy(rules, less) = m
  <2>1. \A r : ToolSpecificity(r, less) = ToolSpecificity(r, call)
    BY <1>1 DEF ToolSpecificity
  <2>2. \A r : Applies(r, less) <=> Applies(r, call)
    BY <1>1, <2>1 DEF Applies
  <2>3. \A r : Specificity(r, less) = Specificity(r, call)
    BY <1>1, <2>1 DEF Specificity
  <2>4. \A q, r : ComparesFirst(q, r, less) <=> ComparesFirst(q, r, call)
    BY <2>3 DEF ComparesFirst
  <2>5. Winners(rules, less) = Winners(rules, call)
    BY <2>2, <2>4 DEF Winners
  <2> QED
    BY <2>5 DEF MatchPolicy
<1>3. m.decision \in Decisions /\ m.tags \subseteq DOMAIN Points \cup {"local_read"}
  BY MatchType
<1>4. /\ ScoreRisk(m.tags, less) \in Int /\ ScoreRisk(m.tags, call) \in Int
      /\ ScoreRisk(m.tags, less) <= ScoreRisk(m.tags, call)
  BY <1>1, <1>3, ScoreGrows
<1>5. ASSUME NEW c \in {less, call}
      PROVE  EvaluatePolicy(rules, c).effective =
               IF m.decision = "allow" /\ ScoreRisk(m.tags, c) >= EscalationScore
               THEN "ask" ELSE m.decision
  BY <1>2, EvaluateIs
<1> HIDE DEF m
<1> QED
  BY <1>3, <1>4, <1>5, RankType DEF Decisions, EscalationScore, less

-----------------------------------------------------------------------------
(* The inductive invariant. *)

\* The steps of update(), from the comparison with the file to the rename.
Saving == {"write", "sync", "rename"}
\* After the rename.
Saved  == {"dirsync", "assign", "complete"}
\* After markForwarding().
Recorded == {"revision", "check", "conflict", "invalid"} \cup Saving \cup Saved

\* What the place of the PUT handler of p implies.
PutInv(p) ==
    /\ active[p] = None => step[p] = "none"
    /\ active[p] # None => Valid(active[p])
    /\ step[p] # "none" => source[p] \in Texts
    /\ step[p] \in {"check"} \cup Saving \cup Saved => Valid(source[p])
    /\ step[p] \in Recorded => row[p] = "forwarding"
    /\ step[p] \in Saving => disk = active[p] \/ p \in raced
    /\ step[p] \in {"sync", "rename"} => tmp[p] = source[p]
    /\ step[p] = "rename" => p \in tmpSynced
    /\ step[p] \in Saved /\ p \notin raced => disk = source[p]
    /\ step[p] \in {"assign", "complete"} /\ p \notin raced /\ ~weak => stable = source[p]

\* The file the path shows is complete and on the disk; an acknowledged text is what
\* it shows before and after a power failure.
FileInv ==
    /\ synced
    /\ disk \in Texts
    /\ acked # None /\ ~weak => disk = acked /\ stable = acked

IInv == TypeOK /\ (\A p \in Processes : PutInv(p)) /\ FileInv

USE DEF Steps, Saving, Saved, Recorded

\* A started process satisfies the invariant.
LEMMA InitIInv == Init => IInv
<1> SUFFICES ASSUME Init PROVE IInv
  OBVIOUS
<1>1. disk \in Texts /\ Valid(disk) /\ stable \in Texts /\ disk # None
  BY PolicyAssumption DEF Init, ValidTexts
<1>2. TypeOK
  <2>1. 0 \in 0..MaxPuts /\ 0 \in 0..MaxEdits
    BY PolicyAssumption
  <2> QED
    BY <1>1, <2>1 DEF Init, TypeOK
<1>3. \A p \in Processes : PutInv(p)
  BY <1>1 DEF Init, PutInv
<1>4. FileInv
  BY <1>1 DEF Init, FileInv
<1> QED
  BY <1>2, <1>3, <1>4 DEF IInv

\* A step of the handler of p that leaves the files, the active policies and the
\* histories alone.
LEMMA HandlerOnly ==
    ASSUME IInv, NEW p \in Processes, NEW s \in Steps, active[p] # None,
           step' = [step EXCEPT ![p] = s],
           OnlyHandler,
           row' = row \/ \E r \in {"evaluated", "forwarding", "completed", "policy_conflict",
                                   "policy_invalid"} : row' = [row EXCEPT ![p] = r],
           reply' = reply \/ \E r \in {"saved", "error"} : reply' = [reply EXCEPT ![p] = r],
           PutInv(p)'
    PROVE  IInv'
<1> USE DEF OnlyHandler, file
<1>1. TypeOK'
  BY DEF IInv, TypeOK
<1>2. ASSUME NEW q \in Processes, q # p PROVE PutInv(q)'
  <2>1. step'[q] = step[q] /\ row'[q] = row[q]
    BY <1>2 DEF IInv, TypeOK
  <2>2. PutInv(q)
    BY DEF IInv
  <2> QED
    BY <2>1, <2>2 DEF PutInv
<1>3. FileInv'
  BY DEF IInv, FileInv
<1> QED
  BY <1>1, <1>2, <1>3 DEF IInv

\* A step that leaves everything of q, and the file, alone.
LEMMA OtherPut ==
    ASSUME IInv, NEW q \in Processes, UNCHANGED <<disk, stable, weak>>,
           step'[q] = step[q], active'[q] = active[q], source'[q] = source[q],
           row'[q] = row[q], tmp'[q] = tmp[q],
           q \in tmpSynced' <=> q \in tmpSynced, q \in raced' <=> q \in raced
    PROVE  PutInv(q)'
<1>1. PutInv(q)
  BY DEF IInv
<1> QED
  BY <1>1 DEF PutInv

-----------------------------------------------------------------------------
(* The PUT handler. *)

\* A request is taken: its handler starts with a source, a revision and a row of its own.
LEMMA PutIInv ==
    ASSUME IInv, NEW p \in Processes, NEW text \in Texts, NEW revision \in ValidTexts,
           Put(p, text, revision)
    PROVE  IInv'
<1> USE DEF Put, At, Goto, SetRow, file
<1>1. revision \in Texts
  BY DEF ValidTexts
<1>2. puts' \in 0..MaxPuts
  BY PolicyAssumption DEF IInv, TypeOK
<1>3. TypeOK'
  BY <1>1, <1>2 DEF IInv, TypeOK
<1>4. PutInv(p)'
  BY DEF IInv, TypeOK, PutInv
<1>5. ASSUME NEW q \in Processes, q # p PROVE PutInv(q)'
  BY <1>5, OtherPut DEF IInv, TypeOK
<1>6. FileInv'
  BY DEF IInv, FileInv
<1> QED
  BY <1>3, <1>4, <1>5, <1>6 DEF IInv

\* The statements that only touch the handler and its audit row.
LEMMA RecordIInv ==
    ASSUME IInv, NEW p \in Processes,
           RecordStart(p) \/ RecordStartThrows(p) \/ CheckRevision(p) \/ RecordFailure(p)
    PROVE  IInv'
<1> USE DEF At, Goto, SetRow, Answer
<1>1. PutInv(p) /\ p \in DOMAIN step /\ p \in DOMAIN row
  BY DEF IInv, TypeOK
<1> DEFINE s == step'[p]
<1>2. /\ OnlyHandler /\ active[p] # None
      /\ s \in Steps /\ step' = [step EXCEPT ![p] = s]
  BY <1>1 DEF RecordStart, RecordStartThrows, CheckRevision, RecordFailure
<1>3. row' = row \/ \E r \in {"evaluated", "forwarding", "completed", "policy_conflict",
                              "policy_invalid"} : row' = [row EXCEPT ![p] = r]
  BY DEF RecordStart, RecordStartThrows, CheckRevision, RecordFailure
<1>4. reply' = reply \/ \E r \in {"saved", "error"} : reply' = [reply EXCEPT ![p] = r]
  BY DEF RecordStart, RecordStartThrows, CheckRevision, RecordFailure
<1>5. PutInv(p)'
  <2>1. UNCHANGED <<disk, stable, tmp, tmpSynced, active, source, raced, weak>>
    BY <1>2 DEF OnlyHandler, file
  <2>2. CASE RecordStart(p)
    BY <1>1, <2>1, <2>2 DEF RecordStart, PutInv
  <2>3. CASE RecordStartThrows(p)
    BY <1>1, <2>1, <2>3 DEF RecordStartThrows, PutInv
  <2>4. CASE CheckRevision(p)
    BY <1>1, <2>1, <2>4 DEF CheckRevision, PutInv
  <2>5. CASE RecordFailure(p)
    BY <1>1, <2>1, <2>5 DEF RecordFailure, PutInv
  <2> QED
    BY <2>2, <2>3, <2>4, <2>5
<1> HIDE DEF s
<1> QED
  BY <1>2, <1>3, <1>4, <1>5, HandlerOnly

\* The comparison with the file, and the temporary file up to its rename.
LEMMA PrepareIInv ==
    ASSUME IInv, NEW p \in Processes,
           CheckDisk(p) \/ WriteTemporary(p) \/ SyncTemporary(p) \/ WriteFails(p)
    PROVE  IInv'
<1> USE DEF At, Goto, file
<1>1. PutInv(p)
  BY DEF IInv
<1>2. step[p] # "none" /\ source[p] \in Texts
  BY <1>1 DEF CheckDisk, WriteTemporary, SyncTemporary, WriteFails, PutInv
<1>3. TypeOK'
  BY <1>2 DEF CheckDisk, WriteTemporary, SyncTemporary, WriteFails, IInv, TypeOK
<1>4. PutInv(p)'
  <2>1. CASE CheckDisk(p)
    BY <1>1, <2>1 DEF CheckDisk, IInv, TypeOK, PutInv
  <2>2. CASE WriteTemporary(p)
    BY <1>1, <2>2 DEF WriteTemporary, IInv, TypeOK, PutInv
  <2>3. CASE SyncTemporary(p)
    BY <1>1, <2>3 DEF SyncTemporary, IInv, TypeOK, PutInv
  <2>4. CASE WriteFails(p)
    BY <1>1, <2>4 DEF WriteFails, IInv, TypeOK, PutInv
  <2> QED
    BY <2>1, <2>2, <2>3, <2>4
<1>5. ASSUME NEW q \in Processes, q # p PROVE PutInv(q)'
  BY <1>5, OtherPut DEF CheckDisk, WriteTemporary, SyncTemporary, WriteFails, IInv, TypeOK
<1>6. FileInv'
  BY DEF CheckDisk, WriteTemporary, SyncTemporary, WriteFails, IInv, FileInv
<1> QED
  BY <1>3, <1>4, <1>5, <1>6 DEF IInv

\* The rename installs a synced file; every other process has now been overtaken.
LEMMA RenameIInv == ASSUME IInv, NEW p \in Processes, Rename(p) PROVE IInv'
<1> USE DEF Rename, At, Goto
<1>1. PutInv(p)
  BY DEF IInv
<1>2. /\ tmp[p] = source[p] /\ source[p] \in Texts /\ p \in tmpSynced
      /\ Valid(source[p]) /\ row[p] = "forwarding"
  BY <1>1 DEF PutInv
<1>3. TypeOK'
  BY <1>2 DEF IInv, TypeOK
<1>4. PutInv(p)'
  BY <1>1, <1>2 DEF IInv, TypeOK, PutInv
<1>5. ASSUME NEW q \in Processes, q # p PROVE PutInv(q)'
  <2>1. PutInv(q) /\ q \in raced'
    BY <1>5 DEF IInv
  <2>2. step'[q] = step[q] /\ tmp'[q] = tmp[q]
    BY <1>5 DEF IInv, TypeOK
  <2> QED
    BY <2>1, <2>2 DEF PutInv
<1>6. FileInv'
  BY <1>2 DEF IInv, FileInv
<1> QED
  BY <1>3, <1>4, <1>5, <1>6 DEF IInv

\* The directory sync makes what the path shows the text that survives.
LEMMA SyncDirectoryIInv == ASSUME IInv, NEW p \in Processes, SyncDirectory(p) PROVE IInv'
<1> USE DEF SyncDirectory, At, Goto
<1>1. synced /\ disk \in Texts
  BY DEF IInv, FileInv
<1>2. \/ stable' = disk /\ UNCHANGED weak
      \/ weak' = TRUE /\ UNCHANGED stable
  BY <1>1
<1>3. TypeOK'
  BY <1>1, <1>2 DEF IInv, TypeOK
<1>4. ASSUME NEW q \in Processes PROVE PutInv(q)'
  <2>1. PutInv(q)
    BY DEF IInv
  <2>2. CASE q = p
    BY <1>2, <2>1, <2>2 DEF IInv, TypeOK, PutInv
  <2>3. CASE q # p
    <3>1. step'[q] = step[q]
      BY <2>3 DEF IInv, TypeOK
    <3> QED
      BY <1>2, <2>1, <3>1 DEF PutInv
  <2> QED
    BY <2>2, <2>3
<1>5. FileInv'
  BY <1>2 DEF IInv, FileInv
<1> QED
  BY <1>3, <1>4, <1>5 DEF IInv

\* update() assigns, and the answer acknowledges what the file shows.
LEMMA SavedIInv == ASSUME IInv, NEW p \in Processes, Assign(p) \/ RecordSaved(p) PROVE IInv'
<1> USE DEF At, Goto, SetRow, Answer, file
<1>1. PutInv(p)
  BY DEF IInv
<1>2. source[p] \in Texts /\ source[p] # None /\ Valid(source[p])
  BY <1>1, PolicyAssumption DEF Assign, RecordSaved, PutInv
<1>3. TypeOK'
  <2>1. CASE Assign(p)
    BY <1>2, <2>1 DEF Assign, IInv, TypeOK
  <2>2. CASE RecordSaved(p)
    BY <1>2, <2>2 DEF RecordSaved, IInv, TypeOK
  <2> QED
    BY <2>1, <2>2
<1>4. PutInv(p)'
  <2>1. CASE Assign(p)
    BY <1>1, <1>2, <2>1 DEF Assign, IInv, TypeOK, PutInv
  <2>2. CASE RecordSaved(p)
    BY <1>1, <1>2, <2>2 DEF RecordSaved, IInv, TypeOK, PutInv
  <2> QED
    BY <2>1, <2>2
<1>5. ASSUME NEW q \in Processes, q # p PROVE PutInv(q)'
  BY <1>5, OtherPut DEF Assign, RecordSaved, IInv, TypeOK
<1>6. FileInv'
  BY <1>1 DEF Assign, RecordSaved, IInv, FileInv, PutInv
<1> QED
  BY <1>3, <1>4, <1>5, <1>6 DEF IInv

-----------------------------------------------------------------------------
(* The environment. *)

\* A process dies or starts.
LEMMA ProcessIInv == ASSUME IInv, NEW p \in Processes, Crash(p) \/ Start(p) PROVE IInv'
<1> USE DEF Crash, Start, Goto, file, put
<1>1. PutInv(p)
  BY DEF IInv
<1>2. disk \in Texts /\ disk # None
  BY PolicyAssumption DEF IInv, FileInv
<1>3. TypeOK'
  BY <1>2 DEF IInv, TypeOK
<1>4. PutInv(p)'
  BY <1>1, <1>2 DEF IInv, TypeOK, PutInv
<1>5. ASSUME NEW q \in Processes, q # p PROVE PutInv(q)'
  BY <1>5, OtherPut DEF IInv, TypeOK
<1>6. FileInv'
  BY DEF IInv, FileInv
<1> QED
  BY <1>3, <1>4, <1>5, <1>6 DEF IInv

\* A person writes the file, or the power fails.
LEMMA OutsideIInv ==
    ASSUME IInv, PowerFails \/ \E text \in Texts : ExternalEdit(text)
    PROVE  IInv'
<1>1. edits' \in 0..MaxEdits
  BY PolicyAssumption DEF PowerFails, ExternalEdit, IInv, TypeOK
<1>2. disk \in Texts /\ disk # Torn /\ synced /\ stable \in Texts /\ stable # Torn
  BY PolicyAssumption DEF IInv, FileInv, TypeOK
<1>3. CASE \E text \in Texts : ExternalEdit(text)
  <2> USE DEF ExternalEdit, put
  <2>1. TypeOK'
    BY <1>1, <1>3 DEF IInv, TypeOK
  <2>2. ASSUME NEW q \in Processes PROVE PutInv(q)'
    BY <1>3 DEF IInv, PutInv
  <2>3. FileInv'
    BY <1>3 DEF IInv, FileInv
  <2> QED
    BY <2>1, <2>2, <2>3 DEF IInv
<1>4. CASE PowerFails
  <2> USE DEF PowerFails
  <2>1. disk' \in {disk, stable} /\ synced' /\ stable' = disk'
    BY <1>2, <1>4
  <2>2. TypeOK'
    BY <1>1, <1>2, <1>4, <2>1 DEF IInv, TypeOK
  <2>3. ASSUME NEW q \in Processes PROVE PutInv(q)'
    BY <1>4 DEF IInv, PutInv
  <2>4. FileInv'
    BY <1>2, <1>4, <2>1 DEF IInv, FileInv
  <2> QED
    BY <2>2, <2>3, <2>4 DEF IInv
<1> QED
  BY <1>3, <1>4

-----------------------------------------------------------------------------
(* The invariant and what follows from it. *)

\* Every step preserves the invariant.
LEMMA NextIInv == ASSUME IInv, [Next]_vars PROVE IInv'
<1>1. ASSUME NEW p \in Processes,
             \/ \E text \in Texts, revision \in ValidTexts : Put(p, text, revision)
             \/ RecordStart(p) \/ RecordStartThrows(p) \/ CheckRevision(p)
             \/ CheckDisk(p) \/ WriteTemporary(p) \/ SyncTemporary(p) \/ Rename(p)
             \/ SyncDirectory(p) \/ WriteFails(p) \/ Assign(p) \/ RecordSaved(p)
             \/ RecordFailure(p) \/ Crash(p) \/ Start(p)
      PROVE  IInv'
  BY <1>1, PutIInv, RecordIInv, PrepareIInv, RenameIInv, SyncDirectoryIInv, SavedIInv,
     ProcessIInv
<1>2. CASE PowerFails \/ \E text \in Texts : ExternalEdit(text)
  BY <1>2, OutsideIInv
<1>3. CASE UNCHANGED vars
  <2> USE <1>3 DEF vars, file, put
  <2>1. TypeOK' /\ FileInv'
    BY DEF IInv, TypeOK, FileInv
  <2>2. \A p \in Processes : PutInv(p)'
    BY OtherPut
  <2> QED
    BY <2>1, <2>2 DEF IInv
<1> QED
  BY <1>1, <1>2, <1>3 DEF Next

\* The inductive invariant holds in every reachable state.
THEOREM Inductive == Spec => []IInv
<1>1. Init => IInv
  BY InitIInv
<1>2. IInv /\ [Next]_vars => IInv'
  BY NextIInv
<1> QED
  BY <1>1, <1>2, PTL DEF Spec

\* Type correctness of the file, the processes and their PUT requests.
THEOREM TypeCorrect == Spec => []TypeOK
<1>1. IInv => TypeOK
  BY DEF IInv
<1> QED
  BY <1>1, Inductive, PTL

\* The policy path shows a complete text, and a save the dashboard acknowledged is
\* what it shows, through any crash and any power failure.
THEOREM SaveSurvives == Spec => []SavedFileSurvives
<1>1. IInv => SavedFileSurvives
  BY PolicyAssumption DEF IInv, FileInv, SavedFileSurvives, NeverTorn, AcknowledgedSaveSurvives
<1> QED
  BY <1>1, Inductive, PTL

\* A save replaces the text its process has loaded or one that was written after
\* update() read the file, and its start was recorded before.
THEOREM SaveIsKnown == Spec => SavesOnlyOverKnownText
<1> DEFINE A == \A p \in Processes : Renames(p) =>
                  /\ disk = active[p] \/ p \in raced
                  /\ row[p] = "forwarding"
<1>1. IInv => A
  BY DEF IInv, PutInv, Renames
<1>2. IInv /\ [Next]_vars => [A]_vars
  BY <1>1
<1> QED
  BY <1>2, Inductive, PTL DEF Spec, SavesOnlyOverKnownText

\* A text that parsePolicyYaml accepts judges every call soundly, whatever its rules.
LEMMA ValidIsSound == ValidTexts \subseteq SoundTexts
<1> SUFFICES ASSUME NEW t \in ValidTexts, NEW call \in Requests
             PROVE  /\ DecidesStrictly(Rules[t], call)
                    /\ IgnoresOrder(Rules[t], call)
                    /\ HeedsEvidence(Rules[t], call)
  BY DEF ValidTexts, SoundTexts
<1>1. Rules[t] \in Seq(PolicyRule) /\ UniqueIds(Rules[t])
  BY PolicyAssumption DEF ValidTexts, Valid
<1>2. IsPolicy(Rules[t])
  <2>1. /\ Len(Rules[t]) \in Nat /\ DOMAIN Rules[t] = 1..Len(Rules[t])
        /\ Rules[t] \in [1..Len(Rules[t]) -> PolicyRule]
    BY <1>1
  <2>2. IsFiniteSet(1..Len(Rules[t]))
    BY <2>1, FS_Interval
  <2> QED
    BY <2>1, <2>2 DEF IsPolicy
<1>3. call \in Call /\ call.evidence \subseteq DOMAIN Points
  BY PolicyAssumption DEF Call
<1> QED
  BY <1>1, <1>2, <1>3, Strictly, OrderIgnored, EvidenceHeeded

\* Whatever was saved, edited or read at a restart, a process judges every call
\* soundly: strictly, independently of the order of the file, and never more mildly
\* for more evidence.
THEOREM JudgesAlwaysSoundly == Spec => []JudgesSoundly
<1>1. IInv => JudgesSoundly
  <2> SUFFICES ASSUME IInv, NEW p \in Processes, active[p] # None
               PROVE  active[p] \in SoundTexts
    BY DEF JudgesSoundly
  <2>1. Valid(active[p])
    BY DEF IInv, PutInv
  <2> QED
    BY <2>1, ValidIsSound DEF ValidTexts, Valid
<1> QED
  BY <1>1, Inductive, PTL
=============================================================================
