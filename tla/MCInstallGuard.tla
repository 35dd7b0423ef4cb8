---------------------------- MODULE MCInstallGuard ----------------------------
(* Bounded instances of InstallGuard: what the registry may answer, a response *)
(* for each way the provider tells apart, answers another provider may give,   *)
(* and lockfiles in which the first entry with the version decides.            *)
EXTENDS InstallGuard

Response == [ reached |-> TRUE, code |-> 200, wellFormed |-> TRUE, hasVersion |-> TRUE,
              consistent |-> TRUE, integrity |-> TRUE, scripts |-> FALSE ]

MCResponses ==
    { [Response EXCEPT !.scripts = TRUE], [Response EXCEPT !.integrity = FALSE],
      [Response EXCEPT !.reached = FALSE], [Response EXCEPT !.code = 404],
      [Response EXCEPT !.code = 503], [Response EXCEPT !.wellFormed = FALSE],
      [Response EXCEPT !.hasVersion = FALSE], [Response EXCEPT !.consistent = FALSE] }

Reviewed(named, findings) ==
    [status |-> "resolved", named |-> named, findings |-> findings, installable |-> TRUE]

MCRegistryAnswers ==
    {Policy!ResolveResponse(r) : r \in MCResponses} \cup
    { Reviewed(TRUE, {"new_package", "new_publisher"}),
      Reviewed(TRUE, {"critical_advisory"}), Reviewed(FALSE, {}) }

MCLockfiles ==
    { << "other", "other", "approved", "version" >>, << "other", "version", "other", "other" >> }
=============================================================================
