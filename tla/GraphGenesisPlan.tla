--------------------------- MODULE GraphGenesisPlan ---------------------------
(***************************************************************************)
(* What the person approves when Graph Genesis asks, as the disk has it:   *)
(* the files and trees of the runtime, the private workspace, the audit    *)
(* database and the directory of the output.  The authorities of           *)
(* stage/graph-genesis-hardening.ts capture each of them once and look at  *)
(* it again before it is relied on; db/database.ts does the same for the   *)
(* database and stage/graph-genesis-candidate-artifact.ts for the          *)
(* directory.  Anybody may change one of them between two looks.           *)
(*                                                                         *)
(* A look compares identities and digests, in the runtime times too; what  *)
(* was put back as it was counts as unchanged.  A change while a file is   *)
(* being read makes the capture itself fail: a capture and a look are one  *)
(* step per file or tree, and an await lies between two of them.           *)
(***************************************************************************)
EXTENDS Integers, Sequences, FiniteSets

CONSTANT MaxDrift   \* bound on the changes made by others

VARIABLES
    snapshot,   \* what is known of each subject
    looked      \* captures or looks already made by the running operation

planVars == <<snapshot, looked>>

Files == {"node", "npm_cli", "sandbox_exec", "broker_runtime", "probe_runtime"}
Trees == {"npm_tree", "broker_tree"}
Subjects == Files \cup Trees \cup {"workspace", "protected", "database", "parent"}

\* The order of runExactProductionGraphGenesisLive().  The trees and files that
\* only enter the digest of the runtime manifest are never looked at again.
Captures == << "node", "npm_cli", "npm_tree", "sandbox_exec", "broker_runtime",
               "probe_runtime", "broker_tree" >>

\* Mutant of Pair: the workspace is not looked at.
PairWithoutWorkspace ==
    << "node", "npm_cli", "sandbox_exec", "broker_runtime", "probe_runtime",
       "npm_tree", "broker_tree" >>

\* revalidatePair().
Pair == << "node", "npm_cli", "sandbox_exec", "broker_runtime", "probe_runtime",
           "npm_tree", "broker_tree", "workspace" >>

Bound == Files \cup Trees \cup {"workspace"}

\* Before the versions are probed, and before the containment is.
VersionLooks == << "node", "npm_cli", "npm_tree" >>
ProbeLooks == << "node", "probe_runtime", "sandbox_exec", "workspace" >>

\* Before npm's documents are read and after.
ProtectedLooks == << "protected", "protected" >>

\* Before the artifact is written, before it is linked, and after.
ParentLooks == << "parent", "parent", "parent" >>

\* What each operation of the owner looks at, in its order; the plan is looked at
\* after the approval and before the spawn.
Looks ==
    [ versions     |-> VersionLooks,
      probing      |-> ProbeLooks,
      revalidating |-> Pair,
      starting     |-> Pair,
      inspecting   |-> ProtectedLooks,
      writing      |-> ParentLooks ]

\* The operations after which what they looked at is not looked at again.
LastLooks == {"starting", "inspecting", "writing"}

Known == {"none", "held", "changed", "used"}

TypeOK ==
    /\ snapshot \in [Subjects -> Known]
    /\ looked \in 0..Len(Pair)

Init ==
    /\ snapshot = [s \in Subjects |-> "none"]
    /\ looked = 0

Hold(s) == snapshot' = [snapshot EXCEPT ![s] = "held"]

-----------------------------------------------------------------------------
(* Captures. *)

\* capture() of a regular file: not linked twice, not writable by all, not empty.
CaptureFile ==
    /\ looked < Len(Captures) /\ Captures[looked + 1] \in Files
    /\ Hold(Captures[looked + 1])
    /\ looked' = looked + 1

\* capture() of a tree: every entry is visited and every file is read.
CaptureTree ==
    /\ looked < Len(Captures) /\ Captures[looked + 1] \in Trees
    /\ Hold(Captures[looked + 1])
    /\ looked' = looked + 1

Captured == looked = Len(Captures) /\ looked' = 0 /\ UNCHANGED snapshot

\* prepare(): every piece of evidence is there, and binds the same snapshots.
Prepared == \A s \in Bound : snapshot[s] # "none"

\* initialize(): the directories, the protected files and the tree of both.
InitializeWorkspace ==
    /\ snapshot' = [snapshot EXCEPT !["workspace"] = "held", !["protected"] = "held"]
    /\ UNCHANGED looked

\* openExistingGraphGenesisAuditDatabase().
OpenDatabase == Hold("database") /\ UNCHANGED looked

\* create() of the envelope, with the identity of the parent of the output.
BindEnvelope == Hold("parent") /\ UNCHANGED looked

-----------------------------------------------------------------------------
(* Looks. *)

Subject(op) == Looks[op][looked + 1]

\* revalidate(): captured again, with the same digest.
Unchanged(s) == snapshot[s] = "held"

\* No operation looks at the subject again.
LastLook(op) ==
    /\ op \in LastLooks
    /\ \A i \in looked + 2 .. Len(Looks[op]) : Looks[op][i] # Subject(op)

Look(op) ==
    /\ looked < Len(Looks[op])
    /\ Unchanged(Subject(op))
    /\ looked' = looked + 1
    /\ snapshot' = [snapshot EXCEPT ![Subject(op)] = IF LastLook(op) THEN "used" ELSE @]

\* The look throws, and with it the operation.
Mismatch(op) ==
    /\ looked < Len(Looks[op])
    /\ ~Unchanged(Subject(op))
    /\ looked' = 0
    /\ UNCHANGED snapshot

\* The operation goes on after its last look.
Checked(op) == looked = Len(Looks[op]) /\ looked' = 0 /\ UNCHANGED snapshot

\* revalidatesExistingGraphGenesisAuditDatabase(), inside the transaction that
\* creates the row: nobody has written since the database was opened.
DatabaseIsBound ==
    /\ Unchanged("database")
    /\ snapshot' = [snapshot EXCEPT !["database"] = "used"]
    /\ UNCHANGED looked

DatabaseHasChanged == ~Unchanged("database") /\ UNCHANGED planVars

\* The operation has thrown.
Abandoned == looked' = 0 /\ UNCHANGED snapshot

-----------------------------------------------------------------------------
\* Another process changes a subject that will be looked at again.  Until npm may
\* be running, a change of a protected file is one of the workspace.
Drift(s) ==
    /\ snapshot[s] = "held"
    /\ s = "protected" => snapshot["workspace"] = "used"
    /\ Cardinality({t \in Subjects : snapshot[t] = "changed"}) < MaxDrift
    /\ snapshot' = [snapshot EXCEPT ![s] = "changed"]
    /\ UNCHANGED looked

Intact(S) == \A s \in S : snapshot[s] # "changed"
=============================================================================
