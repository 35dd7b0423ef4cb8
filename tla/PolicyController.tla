--------------------------- MODULE PolicyController ---------------------------
(***************************************************************************)
(* The live policy (policy/live-controller.ts) and the dashboard request   *)
(* that saves it (dashboard/server.ts, PUT /api/policy).  Several APG      *)
(* processes may share one policy file, a person may edit it outside APG,  *)
(* a process may die between any two system calls of a save, and the power *)
(* may fail.                                                               *)
(*                                                                         *)
(* A policy text stands for its hash too: a revision is a text.  Only the  *)
(* status of the audit row of the PUT is kept; AuditRecorder has the rest. *)
(* What an active text says of a call is PolicyEvaluation's.               *)
(***************************************************************************)
EXTENDS Integers, Sequences, FiniteSets, PolicyEvaluation

CONSTANTS
    Processes,   \* APG processes that opened the same --policy file
    Texts,       \* policy texts, those parsePolicyYaml rejects included
    Rules,       \* the rules of each text, in the order of the file
    Requests,    \* tool calls a process may be asked to judge
    Torn,        \* what a file may hold if its data never reached the disk
    None,
    MaxPuts,     \* bound on PUT requests
    MaxEdits     \* bound on edits outside APG, clean restarts and power failures

ASSUME PolicyAssumption ==
    /\ DOMAIN Rules = Texts
    /\ \A t \in Texts : Rules[t] \in Seq(PolicyRule)
    /\ Requests \subseteq Call
    /\ Torn \notin Texts
    /\ None \notin Texts \cup {Torn}
    /\ MaxPuts \in Nat
    /\ MaxEdits \in Nat

VARIABLES
    disk,         \* the text the policy path shows
    synced,       \* whether the data of that file has reached the disk
    stable,       \* what the path shows after a power failure, if the
                  \* directory was not written since
    tmp,          \* the temporary file of each process: its text, or None
    tmpSynced,    \* processes whose temporary file was fsynced
    active,       \* this.source (and policy, and revision) of each process;
                  \* None: not running
    step,         \* statement of the PUT handler each process is at
    source,       \* body.source of that PUT
    expected,     \* body.revision of that PUT
    row,          \* status of its tool_calls row; for a failed row, the error code
    reply,        \* what the dashboard was answered
    raced,        \* history: processes whose file was rewritten since they read it
    acked,        \* history: the text of the last save answered with success,
                  \* or None once somebody else has written the file
    weak,         \* history: a directory fsync has failed
    puts, edits   \* bounds

file == <<disk, synced, stable>>
put  == <<step, source, expected, row, reply>>
vars == <<file, tmp, tmpSynced, active, put, raced, acked, weak, puts, edits>>

Steps == {"none", "begin", "forward", "revision", "check", "write", "sync",
          "rename", "dirsync", "assign", "complete", "conflict", "invalid"}

TypeOK ==
    /\ disk \in Texts \cup {Torn}
    /\ synced \in BOOLEAN
    /\ stable \in Texts
    /\ tmp \in [Processes -> Texts \cup {None}]
    /\ tmpSynced \subseteq Processes
    /\ active \in [Processes -> Texts \cup {None}]
    /\ step \in [Processes -> Steps]
    /\ source \in [Processes -> Texts \cup {None}]
    /\ expected \in [Processes -> Texts \cup {None}]
    /\ row \in [Processes -> {"none", "evaluated", "forwarding", "completed",
                              "policy_conflict", "policy_invalid"}]
    /\ reply \in [Processes -> {"none", "saved", "error"}]
    /\ raced \subseteq Processes
    /\ acked \in Texts \cup {None}
    /\ weak \in BOOLEAN
    /\ puts \in 0..MaxPuts
    /\ edits \in 0..MaxEdits

\* Mutant of Valid: duplicate ids are accepted.
ValidSyntax(text) == text \in Texts

\* parsePolicyYaml() accepts the text.
Valid(text) == text \in Texts /\ UniqueIds(Rules[text])

ValidTexts == {t \in Texts : Valid(t)}

Init ==
    /\ \E t \in ValidTexts : disk = t /\ stable = t
    /\ synced = TRUE
    /\ tmp = [p \in Processes |-> None]
    /\ tmpSynced = {}
    /\ active = [p \in Processes |-> disk]
    /\ step = [p \in Processes |-> "none"]
    /\ source = [p \in Processes |-> None]
    /\ expected = [p \in Processes |-> None]
    /\ row = [p \in Processes |-> "none"]
    /\ reply = [p \in Processes |-> "none"]
    /\ raced = {}
    /\ acked = None
    /\ weak = FALSE
    /\ puts = 0
    /\ edits = 0

-----------------------------------------------------------------------------
(* The PUT handler. *)

At(p, s) == active[p] # None /\ step[p] = s

Goto(p, s) == step' = [step EXCEPT ![p] = s]

\* sendJson(): the request is answered and forgotten.
Answer(p, r) ==
    /\ Goto(p, "none")
    /\ reply' = [reply EXCEPT ![p] = r]

SetRow(p, r) == row' = [row EXCEPT ![p] = r]

\* A step that touches neither the files nor the active policy.
OnlyHandler == UNCHANGED <<file, tmp, tmpSynced, active, source, expected, raced,
                           acked, weak, puts, edits>>

\* The body has been read; its revision is one some editor once loaded.
Put(p, text, revision) ==
    /\ At(p, "none")
    /\ puts < MaxPuts
    /\ puts' = puts + 1
    /\ source' = [source EXCEPT ![p] = text]
    /\ expected' = [expected EXCEPT ![p] = revision]
    /\ SetRow(p, "none")
    /\ reply' = [reply EXCEPT ![p] = "none"]
    /\ Goto(p, "begin")
    /\ UNCHANGED <<file, tmp, tmpSynced, active, raced, acked, weak, edits>>

\* audit.begin() and markForwarding(); either may throw, and nothing is saved.
RecordStart(p) ==
    /\ \/ At(p, "begin") /\ SetRow(p, "evaluated") /\ Goto(p, "forward")
       \/ At(p, "forward") /\ SetRow(p, "forwarding") /\ Goto(p, "revision")
    /\ UNCHANGED reply
    /\ OnlyHandler

RecordStartThrows(p) ==
    /\ At(p, "begin") \/ At(p, "forward")
    /\ Answer(p, "error")
    /\ UNCHANGED row
    /\ OnlyHandler

\* update(): the editor's revision against the active one, then the syntax.
CheckRevision(p) ==
    /\ At(p, "revision")
    /\ Goto(p, IF expected[p] # active[p] THEN "conflict"
               ELSE IF ~Valid(source[p]) THEN "invalid" ELSE "check")
    /\ UNCHANGED <<row, reply>>
    /\ OnlyHandler

\* Mutant of CheckDisk: the file is not compared.
SkipDiskCheck(p) ==
    /\ At(p, "check")
    /\ Goto(p, "write")
    /\ raced' = raced \ {p}
    /\ UNCHANGED <<file, tmp, tmpSynced, active, source, expected, row, reply,
                   acked, weak, puts, edits>>

\* update(): the file against the active revision.
CheckDisk(p) ==
    /\ At(p, "check")
    /\ Goto(p, IF disk # active[p] THEN "conflict" ELSE "write")
    /\ raced' = raced \ {p}
    /\ UNCHANGED <<file, tmp, tmpSynced, active, source, expected, row, reply,
                   acked, weak, puts, edits>>

\* update(): a temporary file is created exclusively and written ...
WriteTemporary(p) ==
    /\ At(p, "write")
    /\ tmp' = [tmp EXCEPT ![p] = source[p]]
    /\ tmpSynced' = tmpSynced \ {p}
    /\ Goto(p, "sync")
    /\ UNCHANGED <<file, active, source, expected, row, reply, raced, acked, weak,
                   puts, edits>>

\* Mutant of SyncTemporary: no fsync before the rename.
SkipSync(p) ==
    /\ At(p, "sync")
    /\ Goto(p, "rename")
    /\ UNCHANGED <<file, tmp, tmpSynced, active, source, expected, row, reply, raced,
                   acked, weak, puts, edits>>

\* ... its data is forced to the disk ...
SyncTemporary(p) ==
    /\ At(p, "sync")
    /\ tmpSynced' = tmpSynced \cup {p}
    /\ Goto(p, "rename")
    /\ UNCHANGED <<file, tmp, active, source, expected, row, reply, raced, acked,
                   weak, puts, edits>>

\* ... and it replaces the policy file atomically.
Rename(p) ==
    /\ At(p, "rename")
    /\ disk' = tmp[p]
    /\ synced' = (p \in tmpSynced)
    /\ tmp' = [tmp EXCEPT ![p] = None]
    /\ raced' = Processes \ {p}
    /\ acked' = None
    /\ Goto(p, "dirsync")
    /\ UNCHANGED <<stable, tmpSynced, active, source, expected, row, reply, weak,
                   puts, edits>>

\* Mutant of SyncDirectory: no fsync after the rename.
SkipDirectory(p) ==
    /\ At(p, "dirsync")
    /\ Goto(p, "assign")
    /\ UNCHANGED <<file, tmp, tmpSynced, active, source, expected, row, reply, raced,
                   acked, weak, puts, edits>>

\* The directory is fsynced, best effort: a failure is swallowed.
SyncDirectory(p) ==
    /\ At(p, "dirsync")
    /\ \/ /\ stable' = IF synced THEN disk ELSE stable
          /\ UNCHANGED weak
       \/ /\ weak' = TRUE
          /\ UNCHANGED stable
    /\ Goto(p, "assign")
    /\ UNCHANGED <<disk, synced, tmp, tmpSynced, active, source, expected, row,
                   reply, raced, acked, puts, edits>>

\* Creating, writing, syncing or renaming fails: the temporary file is removed
\* and the handler records policy_invalid.
WriteFails(p) ==
    /\ At(p, "write") \/ At(p, "sync") \/ At(p, "rename")
    /\ tmp' = [tmp EXCEPT ![p] = None]
    /\ Goto(p, "invalid")
    /\ UNCHANGED <<file, tmpSynced, active, source, expected, row, reply, raced,
                   acked, weak, puts, edits>>

\* update(): policy, source and revision are assigned together.
Assign(p) ==
    /\ At(p, "assign")
    /\ active' = [active EXCEPT ![p] = source[p]]
    /\ Goto(p, "complete")
    /\ UNCHANGED <<file, tmp, tmpSynced, source, expected, row, reply, raced,
                   acked, weak, puts, edits>>

\* markCompleted() and the answer; if it throws, the catch block records
\* policy_invalid for a policy that is active already.
RecordSaved(p) ==
    /\ At(p, "complete")
    /\ \/ /\ SetRow(p, "completed")
          /\ Answer(p, "saved")
          /\ acked' = IF p \in raced THEN acked ELSE source[p]
       \/ /\ Goto(p, "invalid")
          /\ UNCHANGED <<row, reply, acked>>
    /\ UNCHANGED <<file, tmp, tmpSynced, active, source, expected, raced, weak,
                   puts, edits>>

\* markFailed(), which may throw in its turn, and an error answer.
RecordFailure(p) ==
    /\ \/ /\ At(p, "conflict")
          /\ SetRow(p, "policy_conflict") \/ UNCHANGED row
       \/ /\ At(p, "invalid")
          /\ SetRow(p, "policy_invalid") \/ UNCHANGED row
    /\ Answer(p, "error")
    /\ OnlyHandler

-----------------------------------------------------------------------------
(* The environment. *)

\* A person saves the file in an editor.
ExternalEdit(text) ==
    /\ edits < MaxEdits
    /\ edits' = edits + 1
    /\ disk' = text
    /\ synced' = TRUE
    /\ stable' = text
    /\ raced' = Processes
    /\ acked' = None
    /\ UNCHANGED <<tmp, tmpSynced, active, put, weak, puts>>

\* A process dies wherever it is; its temporary file stays behind.
Crash(p) ==
    /\ active[p] # None
    /\ active' = [active EXCEPT ![p] = None]
    /\ Goto(p, "none")
    /\ UNCHANGED <<file, tmp, tmpSynced, source, expected, row, reply, raced, acked,
                   weak, puts, edits>>

\* constructor(): reads and parses the file; a new process does not know the
\* temporary file of an earlier one.
Start(p) ==
    /\ active[p] = None
    /\ Valid(disk)
    /\ active' = [active EXCEPT ![p] = disk]
    /\ tmp' = [tmp EXCEPT ![p] = None]
    /\ UNCHANGED <<file, tmpSynced, put, raced, acked, weak, puts, edits>>

\* The power fails: the path shows its old or its new file, and a file whose
\* data was not synced may be torn.
PowerFails ==
    /\ edits < MaxEdits
    /\ edits' = edits + 1
    /\ \/ disk' = stable
       \/ disk # Torn /\ disk' = IF synced THEN disk ELSE Torn
    /\ synced' = TRUE
    /\ stable' = IF disk' = Torn THEN stable ELSE disk'
    /\ active' = [p \in Processes |-> None]
    /\ step' = [p \in Processes |-> "none"]
    /\ UNCHANGED <<tmp, tmpSynced, source, expected, row, reply, raced, acked, weak,
                   puts>>

Next ==
    \/ \E p \in Processes :
         \/ \E text \in Texts, revision \in ValidTexts : Put(p, text, revision)
         \/ RecordStart(p)
         \/ RecordStartThrows(p)
         \/ CheckRevision(p)
         \/ CheckDisk(p)
         \/ WriteTemporary(p)
         \/ SyncTemporary(p)
         \/ Rename(p)
         \/ SyncDirectory(p)
         \/ WriteFails(p)
         \/ Assign(p)
         \/ RecordSaved(p)
         \/ RecordFailure(p)
         \/ Crash(p)
         \/ Start(p)
    \/ \E text \in Texts : ExternalEdit(text)
    \/ PowerFails

Spec == Init /\ [][Next]_vars

-----------------------------------------------------------------------------
\* The step in which p replaces the policy file.
Renames(p) == step[p] = "rename" /\ step'[p] = "dirsync"

\* Wherever a process dies and whenever the power fails, the policy path shows
\* a complete text: a proxy never starts from half a policy.
NeverTorn == disk # Torn

\* A save the dashboard was told has succeeded is still in the file after any
\* crash or power failure, as long as nobody wrote the file since and no
\* directory sync has failed.
AcknowledgedSaveSurvives == acked # None /\ ~weak => disk = acked

\* The file is a complete policy and the one that was acknowledged, whatever dies.
SavedFileSurvives == NeverTorn /\ AcknowledgedSaveSurvives

SoundTexts ==
    {t \in Texts : \A call \in Requests :
        /\ DecidesStrictly(Rules[t], call)
        /\ IgnoresOrder(Rules[t], call)
        /\ HeedsEvidence(Rules[t], call)}

\* Whatever was saved, edited or read at a restart, a process judges calls soundly:
\* among the foremost rules the strictest wins, the order of the file does not
\* matter, an unknown call asks, and more evidence of risk, whoever finds it, never
\* turns a verdict into a milder one.
JudgesSoundly == \A p \in Processes : active[p] # None => active[p] \in SoundTexts

\* A save never undoes an edit it could have seen: it replaces the text the
\* process has loaded, or one that was written after update() read the file;
\* and its start was recorded first.
SavesOnlyOverKnownText ==
    [][\A p \in Processes : Renames(p) =>
         /\ disk = active[p] \/ p \in raced
         /\ row[p] = "forwarding"]_vars

=============================================================================
