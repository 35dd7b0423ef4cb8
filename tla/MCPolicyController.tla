-------------------------- MODULE MCPolicyController --------------------------
(* Bounded instances of PolicyController: two policies whose rules overlap in  *)
(* every way the matcher tells apart, and one with an id used twice.           *)
EXTENDS PolicyController, TLC

ProcessSymmetry == Permutations(Processes)

Rule(id, priority, server, tools, decision, tags) ==
    [ id |-> id, priority |-> priority, server |-> server, tools |-> tools,
      decision |-> decision, tags |-> tags ]

\* A broad permission, exceptions of equal and of higher rank, and two rules that
\* differ only in their id and their tags.
Layered ==
    << Rule(1, 0, "*", {"*"}, "allow", {"local_read"}),
       Rule(2, 0, "files", {"files.*"}, "allow", {"local_read"}),
       Rule(3, 0, "files", {"files.*"}, "deny", {"local_write"}),
       Rule(4, 0, "files", {"files.read", "*"}, "allow", {"local_read"}),
       Rule(5, 0, "files", {"files.read"}, "allow", {"local_write", "broad_target"}),
       Rule(6, 1, "mail", {"mail.send"}, "ask", {"external_side_effect"}) >>

\* A prohibition that a higher priority lifts, and calls no rule names.
Restrictive ==
    << Rule(1, 0, "files", {"*"}, "deny", {}),
       Rule(2, 5, "*", {"files.read"}, "allow", {}),
       Rule(3, 5, "files", {"*"}, "ask", {}) >>

\* Two rules with one id, of which the file's order would choose.
Ambiguous ==
    << Rule(1, 0, "files", {"*"}, "allow", {"local_read"}),
       Rule(1, 0, "files", {"*"}, "allow", {"destructive", "local_write"}) >>

MCRules == ("layered" :> Layered) @@ ("restrictive" :> Restrictive)
                                  @@ ("ambiguous" :> Ambiguous)
MCTexts == DOMAIN MCRules

Tools == {"files.read", "files.delete", "mail.send", "other"}
MCCovers == ("*" :> Tools \cup {"files", "mail"})
              @@ ("files.*" :> {"files.read", "files.delete"})

MCRequests ==
    [ server   : {"files", "mail"}, tool : Tools,
      evidence : {{}, {"open_world"}, {"destructive", "privileged_target"},
                  {"destructive", "credential_access", "broad_target", "open_world"}} ]
=============================================================================
