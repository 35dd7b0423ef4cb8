------------------------------ MODULE InstallPlan ------------------------------
(***************************************************************************)
(* What an install plan binds on disk: install/execution-plan.ts captures  *)
(* it before the person is asked, and install/verifier.ts looks at it      *)
(* again before npm is started and at the lockfiles afterwards.  Anybody   *)
(* may change, or restore, any of it between two looks.                    *)
(***************************************************************************)
EXTENDS Integers, Sequences

CONSTANT MaxDrift   \* bound on the changes made by others

VARIABLES
    disk,     \* what is there now: "first", or "other" than at first
    plan,     \* what the plan has captured, "open" for what it has not yet
    looks,    \* looks taken since the start was recorded
    drifts,   \* changes made by others
    late      \* history: subjects changed after their look

planVars == <<disk, plan, looks, drifts, late>>

Subjects == {"directory", "npmrc", "runner", "runtime", "files"}
Contents == {"first", "other"}

\* create(): the working directory, no project .npmrc, npm or npx, node, and
\* package.json with the lockfiles.
Captures == << "directory", "npmrc", "runner", "runtime", "files" >>

\* Mutant of Checks: an .npmrc that has appeared is not noticed.
ChecksWithoutNpmrc == << "directory", "runner", "runtime", "files" >>

\* validateInstallPlanPreconditions(); the plan's own hash is the plan itself.
Checks == << "directory", "runner", "runtime", "files", "npmrc" >>

TypeOK ==
    /\ disk \in [Subjects -> Contents]
    /\ plan \in [Subjects -> Contents \cup {"open"}]
    /\ looks \in 0..Len(Captures)
    /\ drifts \in 0..MaxDrift
    /\ late \subseteq Subjects

\* There is no project .npmrc at first.
Init ==
    /\ disk = [s \in Subjects |-> "first"]
    /\ plan = [s \in Subjects |-> "open"]
    /\ looks = 0
    /\ drifts = 0
    /\ late = {}

Captured(i) == plan[Captures[i]] # "open"

\* The next capture of create().
Capture ==
    /\ \E i \in DOMAIN Captures :
         /\ ~Captured(i)
         /\ \A j \in 1..(i - 1) : Captured(j)
         /\ Captures[i] = "npmrc" => disk["npmrc"] = "first"
         /\ plan' = [plan EXCEPT ![Captures[i]] = disk[Captures[i]]]
    /\ UNCHANGED <<disk, looks, drifts, late>>

Complete == \A i \in DOMAIN Captures : Captured(i)

\* The next look of validateInstallPlanPreconditions().
Look ==
    /\ looks < Len(Checks)
    /\ disk[Checks[looks + 1]] = plan[Checks[looks + 1]]
    /\ looks' = looks + 1
    /\ UNCHANGED <<disk, plan, drifts, late>>

Holds == looks = Len(Checks)

LookedAt(s) == \E i \in 1..looks : Checks[i] = s

\* Somebody else changes a subject, or puts it back.
Drift(s) ==
    /\ drifts < MaxDrift
    /\ drifts' = drifts + 1
    /\ disk' = [disk EXCEPT ![s] = IF @ = "first" THEN "other" ELSE "first"]
    /\ late' = IF LookedAt(s) THEN late \cup {s} ELSE late
    /\ UNCHANGED <<plan, looks>>

\* What is on disk is what was approved, but for what changed after its look.
AsApproved == \A s \in Subjects : disk[s] = plan[s] \/ s \in late

-----------------------------------------------------------------------------
(* The lockfiles after the run. *)

\* A lockfile record is the sequence of the entries of the package, packages and
\* dependencies of npm-shrinkwrap.json, then of package-lock.json: "other" for
\* none or another version, "version" for the exact version, and "approved" for
\* that version with the approved integrity.
Entries == {"other", "version", "approved"}

\* Mutant of InspectLockfileIdentity: the version alone is enough.
InspectLockfileVersion(lock) == \E i \in DOMAIN lock : lock[i] # "other"

\* inspectLockfileIdentity(): the first entry with the version decides.
InspectLockfileIdentity(lock) ==
    \E i \in DOMAIN lock : /\ lock[i] = "approved"
                           /\ \A j \in 1..(i - 1) : lock[j] = "other"
=============================================================================
