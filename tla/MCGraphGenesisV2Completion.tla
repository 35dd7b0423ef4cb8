--------------------- MODULE MCGraphGenesisV2Completion ---------------------
(* The synthetic completion over a family of locks: a top package "t" that needs *)
(* "a", which needs or meets "b" in each way the compilers tell apart.           *)
EXTENDS GraphGenesisV2Completion

Star == {{}}
Atom(op, version) == {{[op |-> op, version |-> version]}}
Empty == [n \in {} |-> Star]

Node(version, dependencies, peers, peer) ==
  [version |-> version, dependencies |-> dependencies, peers |-> peers, peer |-> peer, fit |-> TRUE]
Peer(range, optional) == [range |-> range, optional |-> optional]

MCTopVersion == <<1, 0, 0>>
Root == [t |-> Exactly(MCTopVersion)]

\* "t" and "a": a version that the caret below 1.0.0 allows, one it does not, and a
\* second dependency on "b".
Heads ==
  { [deps |-> [a |-> Atom("^", <<0, 2, 0>>)], version |-> <<0, 2, 1>>],
    [deps |-> [a |-> Atom("^", <<0, 2, 0>>)], version |-> <<0, 3, 0>>],
    [deps |-> [a |-> Atom("~", <<0, 2, 1>>), b |-> Star], version |-> <<0, 2, 1>>] }

\* What "a" asks for.
Asks ==
  { [deps |-> Empty, peers |-> Empty],
    [deps |-> [b |-> Atom(">=", <<1, 0, 0>>)], peers |-> Empty],
    [deps |-> [t |-> Star], peers |-> Empty],
    [deps |-> Empty, peers |-> [b |-> Peer(Atom("^", <<1, 1, 0>>), FALSE)]],
    [deps |-> Empty, peers |-> [b |-> Peer(Atom("^", <<1, 1, 0>>), TRUE)]],
    [deps |-> Empty, peers |-> [t |-> Peer(Star, FALSE)]] }

\* The packages beside "a": "b" of two versions, with each flag, once with a
\* dependency of its own.
C == Node(<<1, 0, 0>>, Empty, Empty, "absent")
B(version, deps, flag) == (<<"b">> :> Node(version, deps, Empty, flag))
Beside ==
  { [n \in {} |-> C], B(<<1, 2, 0>>, Empty, "true"), B(<<1, 2, 0>>, Empty, "false"),
    B(<<1, 2, 0>>, [c |-> Star], "absent") @@ (<<"c">> :> C), B(<<2, 0, 0>>, Empty, "absent") }

\* A nearer "b" in "t" or in "a".
Nested ==
  { [n \in {} |-> C], (<<"t", "b">> :> Node(<<1, 0, 0>>, Empty, Empty, "absent")),
    (<<"a", "b">> :> Node(<<1, 1, 0>>, Empty, Empty, "absent")) }

Family ==
  { [root |-> Root,
     nodes |-> (<<"t">> :> Node(MCTopVersion, h.deps, Empty, "absent"))
               @@ (<<"a">> :> Node(h.version, k.deps, k.peers, "absent")) @@ s @@ n] :
    h \in Heads, k \in Asks, s \in Beside, n \in Nested }

\* Locks that are refused for what one entry is: another root, a package that is
\* prohibited, a specifier outside the grammar, a name that is dependency and peer,
\* a nested package without its parent.
Alone(node) == [root |-> Root, nodes |-> (<<"t">> :> node)]
Odd ==
  { Alone(Node(MCTopVersion, Empty, Empty, "false")),
    [Alone(C) EXCEPT !.root = [t |-> Star]],
    Alone([C EXCEPT !.fit = FALSE]), Alone(Node(<<2, 0, 0>>, Empty, Empty, "absent")),
    [root |-> Root, nodes |-> (<<"t">> :> Node(MCTopVersion, [c |-> {}], Empty, "absent")) @@ (<<"c">> :> C)],
    [root |-> Root, nodes |-> (<<"t">> :> Node(MCTopVersion, [c |-> Star], [c |-> Peer(Star, FALSE)], "absent"))
                              @@ (<<"c">> :> C)],
    [root |-> Root, nodes |-> (<<"t">> :> C) @@ (<<"a", "c">> :> C)] }

MCDocuments == Family \cup Odd
=============================================================================
