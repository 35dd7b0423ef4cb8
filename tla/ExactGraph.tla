------------------------------ MODULE ExactGraph ------------------------------
(***************************************************************************)
(* The compilers of a package lock into an exact production graph:         *)
(* stage/exact-production-graph-v2.ts with the peer semantics of           *)
(* stage/peer-dependency-semantics.ts, and the first version in            *)
(* stage/exact-production-graph.ts, which knows no peers and no ranges.    *)
(*                                                                         *)
(* A path is the sequence of the package names in it, outermost first, and *)
(* <<>> is the project.  A specifier is a set of alternatives, each a set  *)
(* of atoms (an operator and a version); {{}} is "*" and {} one that the   *)
(* grammar refuses.  A node of a lock is a record: version, dependencies   *)
(* and peers (functions from names), the flag peer, and fit: its shape,    *)
(* flags, fields, tarball and integrity are the ones that are allowed, and *)
(* within the budgets.                                                     *)
(***************************************************************************)
EXTENDS Integers, FiniteSetsExt, SequencesExt

CONSTANTS
    Top, TopVersion,   \* the approved package
    GraphNodes         \* limits.graphNodes

----------------------------------------------------------------------------
(* Versions and ranges.                                                    *)

Before(v, w) == \E i \in 1..3 : v[i] < w[i] /\ \A j \in 1..(i - 1) : v[j] = w[j]

Compare(v, op, w) ==
    CASE op = "="  -> v = w
      [] op = "<"  -> Before(v, w)
      [] op = "<=" -> ~Before(w, v)
      [] op = ">"  -> Before(w, v)
      [] op = ">=" -> ~Before(v, w)

Increment(v, i) == [j \in 1..3 |-> IF j < i THEN v[j] ELSE IF j = i THEN v[j] + 1 ELSE 0]

\* Mutant of Comparisons: a caret below 1.0.0 reaches up to the next major version.
WideComparisons(atom) ==
    IF atom.op \in {"^", "~"}
    THEN {<<">=", atom.version>>,
          <<"<", Increment(atom.version, IF atom.op = "~" THEN 2 ELSE 1)>>}
    ELSE {<<atom.op, atom.version>>}

\* parseRange(): an atom as comparisons.
Comparisons(atom) ==
    LET v     == atom.version
        place == IF atom.op = "~" THEN 2 ELSE IF v[1] > 0 THEN 1 ELSE IF v[2] > 0 THEN 2 ELSE 3
    IN  IF atom.op \in {"^", "~"}
        THEN {<<">=", v>>, <<"<", Increment(v, place)>>}
        ELSE {<<atom.op, v>>}

ParseRange(specifier) == {UNION {Comparisons(a) : a \in branch} : branch \in specifier}

Satisfies(v, range) == \E branch \in range : \A c \in branch : Compare(v, c[1], c[2])

----------------------------------------------------------------------------
(* Resolution.                                                             *)

None == <<>>   \* no target: the project is never one

\* The path of the nearest package with this name, seen from start: in start itself,
\* then in each directory above it.
ResolveNearest(nodes, start, name) ==
    LET depths == {k \in 0..Len(start) : Append(SubSeq(start, 1, k), name) \in DOMAIN nodes}
    IN  IF depths = {} THEN None ELSE Append(SubSeq(start, 1, Max(depths)), name)

OrdinaryTargets(nodes, p) ==
    {ResolveNearest(nodes, p, name) : name \in DOMAIN nodes[p].dependencies}

\* A peer is looked for beside the package, never in it.
PeerTarget(nodes, p, name) == ResolveNearest(nodes, Front(p), name)

RequiredPeers(nodes, p) == {name \in DOMAIN nodes[p].peers : ~nodes[p].peers[name].optional}

\* closure(), and includeRequired() where stop is what it has seen already: what the
\* ordinary edges reach from a set, not going on from what is in stop.
Closure(nodes, initial, stop) ==
    LET grow[n \in Nat] ==
          IF n = 0 THEN initial
          ELSE grow[n - 1] \cup UNION {OrdinaryTargets(nodes, p) : p \in grow[n - 1] \ stop}
    IN  grow[Cardinality(DOMAIN nodes)]

\* assertOrdinaryDag(): no node of the set reaches itself inside the set.
OrdinaryDag(nodes, set) ==
    LET outside == DOMAIN nodes \ set
    IN  \A p \in set : p \notin Closure(nodes, OrdinaryTargets(nodes, p), outside)

----------------------------------------------------------------------------
(* analyzePeerDependencySemantics().                                       *)

\* Mutant of PeerStep: a required peer comes without its own dependencies.
ShallowPeerStep(nodes, state) ==
    LET node  == CHOOSE p \in state.queue : TRUE
        added == {PeerTarget(nodes, node, name) : name \in RequiredPeers(nodes, node)} \ {None}
    IN  [ required |-> state.required \cup added,
          queue    |-> (state.queue \cup (added \ state.required)) \ {node} ]

\* One turn of the worklist: the peers that a package requires become required,
\* with all that they depend on.
PeerStep(nodes, state) ==
    LET node  == CHOOSE p \in state.queue : TRUE
        peers == {PeerTarget(nodes, node, name) : name \in RequiredPeers(nodes, node)} \ {None}
        added == Closure(nodes, peers, state.required)
    IN  [ required |-> state.required \cup added,
          queue    |-> (state.queue \cup (added \ state.required)) \ {node} ]

Production(nodes) == Closure(nodes, {<<Top>>}, {})

\* The worklist at its end: each turn takes one package off it for good.
Required(nodes) ==
    LET start     == [required |-> Production(nodes), queue |-> Production(nodes)]
        turn[n \in Nat] ==
          IF n = 0 THEN start
          ELSE IF turn[n - 1].queue = {} THEN turn[n - 1] ELSE PeerStep(nodes, turn[n - 1])
    IN  turn[Cardinality(DOMAIN nodes)].required

\* parseNode(), peerMap() and the ranges: what is asked of each node by itself.
NodeFits(nodes, p) ==
    /\ nodes[p].fit
    /\ Front(p) \in DOMAIN nodes \cup {<<>>}
    /\ DOMAIN nodes[p].dependencies \cap DOMAIN nodes[p].peers = {}
    /\ \A name \in DOMAIN nodes[p].dependencies : nodes[p].dependencies[name] # {}
    /\ \A name \in DOMAIN nodes[p].peers : nodes[p].peers[name].range # {}

OrdinaryFits(nodes, p) ==
    \A name \in DOMAIN nodes[p].dependencies :
        LET target == ResolveNearest(nodes, p, name)
        IN  target # None /\ Satisfies(nodes[target].version, ParseRange(nodes[p].dependencies[name]))

PeersFit(nodes, p) ==
    \A name \in DOMAIN nodes[p].peers :
        LET peer   == nodes[p].peers[name]
            target == PeerTarget(nodes, p, name)
        IN  /\ name # Last(p) /\ Append(p, name) \notin DOMAIN nodes
            /\ IF target = None THEN peer.optional
               ELSE target # p /\ Satisfies(nodes[target].version, ParseRange(peer.range))

\* The flag of npm agrees with the role that the graph gives the package.
RoleFits(nodes, p) ==
    nodes[p].peer # "absent" => (nodes[p].peer = "true") = (p \notin Production(nodes))

AnalyzePeerDependencySemantics(root, nodes) ==
    /\ \A p \in DOMAIN nodes : NodeFits(nodes, p)
    /\ \A p \in DOMAIN nodes : OrdinaryFits(nodes, p)
    /\ <<Top>> \in DOMAIN nodes /\ Satisfies(nodes[<<Top>>].version, ParseRange(root[Top]))
    /\ OrdinaryDag(nodes, Production(nodes))
    /\ \A p \in Required(nodes) : PeersFit(nodes, p)
    /\ OrdinaryDag(nodes, Required(nodes))
    /\ Required(nodes) = DOMAIN nodes
    /\ \A p \in DOMAIN nodes : RoleFits(nodes, p)

----------------------------------------------------------------------------
(* The candidates.                                                         *)

Exactly(version) == {{[op |-> "=", version |-> version]}}

\* parseLock(): the project depends on the approved version and on nothing else.
ParsesLock(lock) ==
    /\ DOMAIN lock.root = {Top} /\ lock.root[Top] = Exactly(TopVersion)
    /\ Cardinality(DOMAIN lock.nodes) \in 1..GraphNodes

CompilesV2(lock) ==
    ParsesLock(lock) /\ AnalyzePeerDependencySemantics(lock.root, lock.nodes)

\* compileUnsignedCandidateV2(): the declarations as they are, and what they lead to.
CandidateV2(lock) ==
    [ root  |-> lock.root,
      nodes |-> [ p \in DOMAIN lock.nodes |->
        [ declared     |-> lock.nodes[p],
          edges        |-> [ name \in DOMAIN lock.nodes[p].dependencies |->
                               ResolveNearest(lock.nodes, p, name) ],
          requirements |-> [ name \in DOMAIN lock.nodes[p].peers |->
                               PeerTarget(lock.nodes, p, name) ] ] ] ]

\* validateCandidateV2Payload(): the lock is put together again from the declarations
\* and compiled; nothing derived is taken from the payload.
ValidPayload(candidate) ==
    LET lock == [ root  |-> candidate.root,
                  nodes |-> [p \in DOMAIN candidate.nodes |-> candidate.nodes[p].declared] ]
    IN  CompilesV2(lock) /\ CandidateV2(lock) = candidate

\* compileLockGraph() of the first version, with assertConnectedAcyclic(): no peers,
\* ranges not looked at, all of the lock reached from the approved package.
CompilesV1(lock) ==
    LET nodes == lock.nodes
    IN  /\ ParsesLock(lock)
        /\ \A p \in DOMAIN nodes : nodes[p].fit /\ nodes[p].peer # "true" /\ nodes[p].peers = <<>>
        /\ \A p \in DOMAIN nodes : None \notin OrdinaryTargets(nodes, p)
        /\ <<Top>> \in DOMAIN nodes /\ nodes[<<Top>>].version = TopVersion
        /\ OrdinaryDag(nodes, Production(nodes))
        /\ Production(nodes) = DOMAIN nodes

----------------------------------------------------------------------------
(* What an exact graph is, without an algorithm.                           *)

\* What a program in the package from gets when it asks for name.
Sees(nodes, from, name, to) ==
    LET found == {q \in DOMAIN nodes : Last(q) = name /\ IsPrefix(Front(q), from)}
    IN  to \in found /\ \A q \in found : Len(q) <= Len(to)

\* A caret keeps the components up to the first that is not 0, a tilde keeps two.
Within(v, specifier) ==
    \E branch \in specifier : \A a \in branch :
        CASE a.op = "^" -> /\ ~Before(v, a.version)
                           /\ \A i \in 1..3 : (\A j \in 1..(i - 1) : a.version[j] = 0)
                                                => v[i] = a.version[i]
          [] a.op = "~" -> ~Before(v, a.version) /\ v[1] = a.version[1] /\ v[2] = a.version[2]
          [] OTHER -> Compare(v, a.op, a.version)

Depends(nodes, p, q) == \E name \in DOMAIN nodes[p].dependencies : Sees(nodes, p, name, q)

Needs(nodes, p, q) ==
    \/ Depends(nodes, p, q)
    \/ \E name \in RequiredPeers(nodes, p) : Sees(nodes, Front(p), name, q)

\* The least set of packages with the approved one that is closed under a relation.
Least(nodes, Rel(_, _, _)) ==
    LET Closed(set) == /\ <<Top>> \in set
                       /\ \A p \in set, r \in DOMAIN nodes : Rel(nodes, p, r) => r \in set
    IN  {q \in DOMAIN nodes : \A set \in SUBSET DOMAIN nodes : Closed(set) => q \in set}

WellFounded(nodes) ==
    \A set \in SUBSET DOMAIN nodes \ {{}} :
        \E p \in set : \A q \in set : ~Depends(nodes, p, q)

\* A lock is exact when every package in it is needed, every dependency and every peer
\* finds a version it allows, and no package depends on itself.
ExactLock(lock) ==
    LET nodes == lock.nodes
    IN  /\ ParsesLock(lock) /\ \A p \in DOMAIN nodes : NodeFits(nodes, p)
        /\ <<Top>> \in DOMAIN nodes /\ nodes[<<Top>>].version = TopVersion
        /\ DOMAIN nodes = Least(nodes, Needs) /\ WellFounded(nodes)
        /\ \A p \in DOMAIN nodes :
             /\ \A name \in DOMAIN nodes[p].dependencies :
                  \E q \in DOMAIN nodes :
                    Sees(nodes, p, name, q) /\ Within(nodes[q].version, nodes[p].dependencies[name])
             /\ \A name \in DOMAIN nodes[p].peers :
                  /\ name # Last(p) /\ ~Sees(nodes, p, name, Append(p, name))
                  /\ \/ \E q \in DOMAIN nodes : /\ Sees(nodes, Front(p), name, q)
                                                /\ Within(nodes[q].version, nodes[p].peers[name].range)
                     \/ /\ nodes[p].peers[name].optional
                        /\ \A q \in DOMAIN nodes : ~Sees(nodes, Front(p), name, q)
             /\ nodes[p].peer = "true"  => p \notin Least(nodes, Depends)
             /\ nodes[p].peer = "false" => p \in Least(nodes, Depends)

\* The candidate of a lock says of every dependency and peer what is seen.
ExactCandidate(lock, candidate) ==
    \A p \in DOMAIN lock.nodes :
        /\ \A name \in DOMAIN lock.nodes[p].dependencies :
             Sees(lock.nodes, p, name, candidate.nodes[p].edges[name])
        /\ \A name \in DOMAIN lock.nodes[p].peers :
             LET to == candidate.nodes[p].requirements[name]
             IN  IF to = None THEN \A q \in DOMAIN lock.nodes : ~Sees(lock.nodes, Front(p), name, q)
                 ELSE Sees(lock.nodes, Front(p), name, to)

\* The first version: the same, without peers and without ranges.
ExactLockV1(lock) ==
    LET nodes == lock.nodes
    IN  /\ ParsesLock(lock) /\ <<Top>> \in DOMAIN nodes /\ nodes[<<Top>>].version = TopVersion
        /\ DOMAIN nodes = Least(nodes, Depends) /\ WellFounded(nodes)
        /\ \A p \in DOMAIN nodes :
             /\ nodes[p].fit /\ nodes[p].peer # "true" /\ DOMAIN nodes[p].peers = {}
             /\ \A name \in DOMAIN nodes[p].dependencies : \E q \in DOMAIN nodes : Sees(nodes, p, name, q)
=============================================================================
