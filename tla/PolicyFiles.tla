----------------------------- MODULE PolicyFiles -----------------------------
(***************************************************************************)
(* policy.yaml, its backups and the policy in memory: start-up and reload  *)
(* (app.py), knob updates and restores (config.py).  No route of this      *)
(* repository calls the last two: they hand the policy they loaded to a    *)
(* caller outside it, and leave app.state to that caller.                  *)
(*                                                                         *)
(* One handler runs at a time; `work` holds what it keeps in local         *)
(* variables.  Each of its steps does one thing to the disk, because the   *)
(* process may die between any two and because Path.write_text truncates   *)
(* the file before it writes: an empty file is valid YAML and loads as a   *)
(* policy of nothing but defaults.                                         *)
(***************************************************************************)
EXTENDS Naturals, FiniteSets

CONSTANTS
    Knobs,          \* keys of _POLICY_KNOB_MAP
    Patterns,       \* those of them that are normalised before they are written
    Good,           \* values every load accepts
    Rejected,       \* values that raise PolicyValidationError
    Broken,         \* values that raise something else, such as float("high")
    Slow,           \* regexes near the probe's timeout: rejected or not, by the load
    Source,         \* what the shipped policy file (RAG_POLICY_FILE) says
    Edits,          \* what an operator may make of the file in an editor
    Updates,        \* bodies of knob updates: knob -> value, or Unset
    Keep,           \* RAG_POLICY_BACKUP_KEEP, at least 1
    MaxMade, MaxOps, MaxFaults, MaxCrashes,     \* bounds
    Unset, Absent, Garbled

Values == Good \cup Rejected \cup Broken \cup Slow
Yaml == [Knobs -> Values \cup {Unset}]
Text == Yaml \cup {Garbled}
Empty == [k \in Knobs |-> Unset]

ASSUME KnobAssumption == Patterns \subseteq Knobs /\ Unset \notin Values
ASSUME TextAssumption ==
    Source \in Yaml /\ Edits \subseteq Text /\ Updates \subseteq Yaml
ASSUME SizeAssumption ==
    Keep \in Nat \ {0} /\ {MaxMade, MaxOps, MaxFaults, MaxCrashes} \subseteq Nat
ASSUME SentinelAssumption == Garbled \notin Yaml /\ Absent \notin Text

VARIABLES
    file,       \* the writable policy file
    backups,    \* number -> text of the backup, or Absent; numbered as they are made
    made,       \* backups made so far
    loaded,     \* app.state.policy: the text it was loaded from; Absent without a process
    audit,      \* the text that configure_audit_policy was last given
    returned,   \* the text of the policy that the last update or restore returned, since
                \* app.state last took its own from the file
    work,       \* the handler that runs
    outcome,    \* how the last handler ended
    before,     \* observer: the file when the last handler began
    replaced,   \* observer: what handlers truncated away, with the number of its backup
    authored,   \* observer: texts somebody meant the file to hold
    torn,       \* observer: a write was cut short
    drift,      \* observer: the file was changed and nobody was given what it says
    split,      \* observer: a reload stopped between the policy and the audit policy
    ops, faults, crashes

process == <<loaded, audit, returned, work, outcome>>
observers == <<before, replaced, authored, torn, drift, split>>
budget == <<ops, faults, crashes>>
vars == <<file, backups, made, process, observers, budget>>
-----------------------------------------------------------------------------
\* The loaders of one value: a number or a flag converts or raises ValueError or
\* TypeError, lists and patterns are validated, each pattern against the clock.
ValueOutcomes(v) ==
    CASE v \in Rejected -> {"rejected"}
      [] v \in Broken -> {"broken"}
      [] v \in Slow -> {"ok", "rejected"}
      [] OTHER -> {"ok"}

\* load_policy: the first value that does not load ends it, in whatever order.
LoadOutcomes(t) ==
    IF t = Garbled THEN {"broken"}
    ELSE LET O == {ValueOutcomes(t[k]) : k \in Knobs}
         IN {o \in UNION O : o = "ok" => \A each \in O : "ok" \in each}

\* The normalisers run the loaders on the pattern knobs of the request alone.
NormaliseOutcomes(u) ==
    LoadOutcomes([k \in Knobs |-> IF k \in Patterns THEN u[k] ELSE Unset])

\* A null in the request leaves its knob alone; the other keys are set, in
\* sections that are created when the file has none.
Merge(t, u) == [k \in Knobs |-> IF u[k] = Unset THEN t[k] ELSE u[k]]

Stored(b) == {i \in 1..MaxMade : b[i] # Absent}

\* Mutant: the wrong end of the list, newest first.
Prune_Oldest(b) ==
    [i \in 1..MaxMade |-> IF Cardinality({j \in Stored(b) : j < i}) >= Keep
                          THEN Absent ELSE b[i]]

\* _prune_policy_backups
Prune(b) ==
    [i \in 1..MaxMade |-> IF Cardinality({j \in Stored(b) : j > i}) >= Keep
                          THEN Absent ELSE b[i]]

Rest == [op |-> "none", step |-> "none", text |-> Empty, own |-> 0, from |-> 0, undo |-> FALSE]
Idle == work.op = "none"
Running == loaded # Absent
At(step) == ~Idle /\ work.step = step

Begin(op, step, text, from) ==
    /\ Idle
    /\ ops < MaxOps
    /\ ops' = ops + 1
    /\ work' = [Rest EXCEPT !.op = op, !.step = step, !.text = text, !.from = from]
    /\ before' = file
    /\ UNCHANGED <<file, backups, made, loaded, audit, returned, outcome,
                   replaced, authored, torn, drift, split, faults, crashes>>

End(how) == work' = Rest /\ outcome' = how
-----------------------------------------------------------------------------
(* Backup: backup_policy_file.                                             *)

OpenBackup ==
    /\ At("backup")
    /\ made < MaxMade
    /\ made' = made + 1
    /\ backups' = [backups EXCEPT ![made + 1] = Empty]
    /\ work' = [work EXCEPT !.own = made + 1, !.step = "copy"]
    /\ UNCHANGED <<file, loaded, audit, returned, outcome, observers, budget>>

\* Mutant: the backup is created and never filled.
CopyBackup_Touch ==
    /\ At("copy")
    /\ backups' = Prune(backups)
    /\ work' = [work EXCEPT !.step = "prepare"]
    /\ UNCHANGED <<file, made, loaded, audit, returned, outcome, observers, budget>>

CopyBackup ==
    /\ At("copy")
    /\ backups' = Prune([backups EXCEPT ![work.own] = file])
    /\ work' = [work EXCEPT !.step = "prepare"]
    /\ UNCHANGED <<file, made, loaded, audit, returned, outcome, observers, budget>>

\* The directory or the backup cannot be written: OSError, before the file is touched
\* and before anything is pruned.
BackupFails ==
    /\ At("backup") \/ At("copy")
    /\ faults < MaxFaults
    /\ faults' = faults + 1
    /\ End("unwritten")
    /\ torn' = (torn \/ At("copy"))
    /\ UNCHANGED <<file, backups, made, loaded, audit, returned, before, replaced, authored,
                   drift, split, ops, crashes>>

(* Writing the policy file.                                                *)

\* Path.write_text opens for writing: an unwritable path fails here.
Truncate ==
    /\ At("truncate")
    /\ file' = Empty
    /\ work' = [work EXCEPT !.step = "fill"]
    /\ replaced' = replaced \cup
         (IF work.op \in {"update", "restore"} /\ ~work.undo
          THEN {[id |-> work.own, text |-> file]} ELSE {})
    /\ UNCHANGED <<backups, made, loaded, audit, returned, outcome, before, authored, torn,
                   drift, split, budget>>

Unwritable ==
    /\ At("truncate")
    /\ faults < MaxFaults
    /\ faults' = faults + 1
    /\ End("unwritten")
    /\ drift' = (drift \/ work.undo)
    /\ UNCHANGED <<file, backups, made, loaded, audit, returned, before, replaced,
                   authored, torn, split, ops, crashes>>

\* A full disk: PolicyWriteError, and what was truncated stays truncated.
DiskFull ==
    /\ At("fill")
    /\ faults < MaxFaults
    /\ faults' = faults + 1
    /\ End("unwritten")
    /\ torn' = TRUE
    /\ drift' = TRUE
    /\ UNCHANGED <<file, backups, made, loaded, audit, returned, before, replaced,
                   authored, split, ops, crashes>>

\* The write is followed by load_policy, or, when it undid one, by the error.
Fill ==
    /\ At("fill")
    /\ file' = work.text
    /\ IF work.undo THEN End("refused")
       ELSE work' = [work EXCEPT !.step = "load"] /\ UNCHANGED outcome
    /\ authored' = authored \cup (IF work.op = "update" /\ ~work.undo THEN {work.text} ELSE {})
    /\ UNCHANGED <<backups, made, loaded, audit, returned, before, replaced, torn, drift,
                   split, budget>>
-----------------------------------------------------------------------------
(* Knob updates and restores.                                              *)

BeginUpdate(u) == Running /\ file # Absent /\ Begin("update", "backup", u, 0)
BeginRestore(i) ==
    /\ Running
    /\ file # Absent
    /\ i \in Stored(backups)
    /\ Begin("restore", "backup", Empty, i)

\* The YAML is read again after the backup; a pattern that does not pass ends
\* the request before the file is touched.
PrepareUpdate ==
    /\ At("prepare")
    /\ work.op = "update"
    /\ IF file = Garbled
       THEN End("broken")
       ELSE \E o \in NormaliseOutcomes(work.text) :
              IF o = "ok"
              THEN /\ work' = [work EXCEPT !.text = Merge(file, work.text), !.step = "truncate"]
                   /\ UNCHANGED outcome
              ELSE End(IF o = "rejected" THEN "refused" ELSE "broken")
    /\ UNCHANGED <<file, backups, made, loaded, audit, returned, observers, budget>>

\* Mutant: the text of the backup is taken without looking whether it is there.
PrepareRestore_Unchecked ==
    /\ At("prepare")
    /\ work.op = "restore"
    /\ work' = [work EXCEPT !.text = backups[work.from], !.step = "truncate"]
    /\ UNCHANGED <<file, backups, made, loaded, audit, returned, outcome, observers,
                   budget>>

\* The backup to restore is read after the file was backed up, and with that
\* the backups pruned: FileNotFoundError when it was the oldest one kept.
PrepareRestore ==
    /\ At("prepare")
    /\ work.op = "restore"
    /\ IF backups[work.from] = Absent THEN End("lost")
       ELSE /\ work' = [work EXCEPT !.text = backups[work.from], !.step = "truncate"]
            /\ UNCHANGED outcome
    /\ UNCHANGED <<file, backups, made, loaded, audit, returned, observers, budget>>

\* Mutant: the error is raised without writing the backup back.
LoadWritten_NoRollback ==
    /\ At("load")
    /\ work.op \in {"update", "restore"}
    /\ \E o \in LoadOutcomes(file) :
         /\ returned' = IF o = "ok" THEN file ELSE returned
         /\ End(CASE o = "ok" -> "done"
                  [] o = "rejected" -> "refused"
                  [] o = "broken" -> "broken")
         /\ drift' = IF o = "ok" THEN FALSE ELSE drift \/ o = "broken"
    /\ UNCHANGED <<file, backups, made, loaded, audit, before, replaced, authored, torn,
                   split, budget>>

\* The reloaded policy is returned; what runs is left as it is.  Only
\* PolicyValidationError rolls back, to the backup this handler made.
LoadWritten ==
    /\ At("load")
    /\ work.op \in {"update", "restore"}
    /\ \E o \in LoadOutcomes(file) :
         /\ returned' = IF o = "ok" THEN file ELSE returned
         /\ CASE o = "ok" -> End("done")
              [] o = "broken" -> End("broken")
              [] o = "rejected" /\ backups[work.own] = Absent -> End("refused")
              [] o = "rejected" /\ backups[work.own] # Absent ->
                   /\ work' = [work EXCEPT !.text = backups[work.own], !.undo = TRUE,
                                           !.step = "truncate"]
                   /\ UNCHANGED outcome
         /\ drift' = IF o = "ok" THEN FALSE ELSE drift \/ o = "broken"
    /\ UNCHANGED <<file, backups, made, loaded, audit, before, replaced, authored, torn,
                   split, budget>>
-----------------------------------------------------------------------------
(* Start-up and reload.                                                    *)

BeginStart == ~Running /\ Begin("start", "ensure", Source, 0)
BeginReload == Running /\ Begin("reload", "ensure", Source, 0)

\* ensure_writable_policy_file
Ensure ==
    /\ At("ensure")
    /\ work' = [work EXCEPT !.step = IF file = Absent THEN "truncate" ELSE "load"]
    /\ UNCHANGED <<file, backups, made, loaded, audit, returned, outcome, observers,
                   budget>>

\* lifespan: whatever load_policy raises keeps the process from starting.
LoadAtStart ==
    /\ At("load")
    /\ work.op = "start"
    /\ \E o \in LoadOutcomes(file) :
         IF o = "ok"
         THEN /\ loaded' = file /\ audit' = file /\ returned' = Absent
              /\ drift' = FALSE
              /\ End("done")
         ELSE UNCHANGED <<loaded, audit, returned, drift>> /\ End("refused")
    /\ split' = FALSE
    /\ UNCHANGED <<file, backups, made, before, replaced, authored, torn, budget>>

LoadAtReload ==
    /\ At("load")
    /\ work.op = "reload"
    /\ \E o \in LoadOutcomes(file) :
         IF o = "ok"
         THEN /\ loaded' = file /\ returned' = Absent
              /\ drift' = FALSE
              /\ work' = [work EXCEPT !.step = "tools"]
              /\ UNCHANGED outcome
         ELSE UNCHANGED <<loaded, returned, drift>> /\ End("refused")
    /\ UNCHANGED <<file, backups, made, audit, before, replaced, authored, torn, split,
                   budget>>

\* Mutant: the route swaps app.state.policy and no more.
SyncAudit_Forgotten ==
    /\ At("tools")
    /\ audit' = audit
    /\ split' = FALSE
    /\ End("done")
    /\ UNCHANGED <<file, backups, made, loaded, returned, before, replaced, authored, torn,
                   drift, budget>>

SyncAudit ==
    /\ At("tools")
    /\ audit' = loaded
    /\ split' = FALSE
    /\ End("done")
    /\ UNCHANGED <<file, backups, made, loaded, returned, before, replaced, authored, torn,
                   drift, budget>>

\* load_tool_policy may raise: the route answers 400 with the policy swapped.
ToolsInvalid ==
    /\ At("tools")
    /\ faults < MaxFaults
    /\ faults' = faults + 1
    /\ split' = TRUE
    /\ End("refused")
    /\ UNCHANGED <<file, backups, made, loaded, audit, returned, before, replaced,
                   authored, torn, drift, ops, crashes>>
-----------------------------------------------------------------------------
(* The world.                                                              *)

\* An operator saves another text in an editor, which renames it into place.
EditByHand(t) ==
    /\ Idle
    /\ file # Absent
    /\ t # file
    /\ file' = t
    /\ authored' = authored \cup {t}
    /\ drift' = TRUE
    /\ outcome' = "edited"
    /\ UNCHANGED <<backups, made, loaded, audit, returned, work, before, replaced, torn,
                   split, budget>>

\* The process dies.  In the middle of a write the file may hold a part of it,
\* a backup that was opened stays empty.
Crash ==
    /\ Running \/ ~Idle
    /\ crashes < MaxCrashes
    /\ crashes' = crashes + 1
    /\ file' \in IF At("fill") THEN {file, Garbled} ELSE {file}
    /\ torn' = (torn \/ At("fill") \/ At("copy"))
    /\ loaded' = Absent
    /\ audit' = Absent
    /\ returned' = Absent
    /\ work' = Rest
    /\ outcome' = "crashed"
    /\ split' = FALSE
    /\ drift' = TRUE
    /\ UNCHANGED <<backups, made, before, replaced, authored, ops, faults>>

\* The file is not there until the first start copies the shipped one.
Init ==
    /\ file \in {Absent, Source}
    /\ backups = [i \in 1..MaxMade |-> Absent]
    /\ made = 0
    /\ loaded = Absent
    /\ audit = Absent
    /\ returned = Absent
    /\ work = Rest
    /\ outcome = "none"
    /\ before = file
    /\ replaced = {}
    /\ authored = {Source}
    /\ torn = FALSE
    /\ drift = TRUE
    /\ split = FALSE
    /\ ops = 0
    /\ faults = 0
    /\ crashes = 0

Handler ==
    \/ \E u \in Updates : BeginUpdate(u)
    \/ \E i \in 1..MaxMade : BeginRestore(i)
    \/ BeginStart \/ BeginReload
    \/ OpenBackup \/ CopyBackup \/ PrepareUpdate \/ PrepareRestore
    \/ Truncate \/ Fill \/ LoadWritten
    \/ Ensure \/ LoadAtStart \/ LoadAtReload \/ SyncAudit

World ==
    \/ BackupFails \/ Unwritable \/ DiskFull \/ ToolsInvalid \/ Crash
    \/ \E t \in Edits : EditByHand(t)

Next == Handler \/ World
Spec == Init /\ [][Next]_vars
-----------------------------------------------------------------------------
(* Properties.                                                             *)

Work == [op : {"none", "update", "restore", "start", "reload"},
         step : {"none", "backup", "copy", "prepare", "truncate", "fill", "load", "ensure", "tools"},
         text : Text, own : 0..MaxMade, from : 0..MaxMade, undo : BOOLEAN]

\* Every variable has its type.
TypeOK ==
    /\ file \in Text \cup {Absent}
    /\ backups \in [1..MaxMade -> Text \cup {Absent}]
    /\ made \in 0..MaxMade
    /\ loaded \in Text \cup {Absent}
    /\ audit \in Text \cup {Absent} /\ returned \in Text \cup {Absent}
    /\ work \in Work
    /\ outcome \in {"none", "done", "refused", "broken", "unwritten", "lost", "edited", "crashed"}
    /\ before \in Text \cup {Absent}
    /\ replaced \subseteq [id : 0..MaxMade, text : Text \cup {Absent}]
    /\ authored \subseteq Text
    /\ torn \in BOOLEAN /\ drift \in BOOLEAN /\ split \in BOOLEAN
    /\ ops \in 0..MaxOps /\ faults \in 0..MaxFaults /\ crashes \in 0..MaxCrashes

\* A request that was refused for what it asked, before or after the file was
\* rewritten, leaves the file as it found it (update_policy_knobs,
\* restore_policy_from_backup; a refused start may have made the first copy).
RefusalRestores ==
    Idle /\ outcome = "refused" /\ before # Absent => file = before

\* What a handler overwrites can be restored: it is in the backup the handler
\* made, whole, until Keep newer ones exist, whatever fails or dies in between
\* (backup_policy_file, _prune_policy_backups).
ReplacedTextsAreKept ==
    \A r \in replaced : r.id + Keep > made => backups[r.id] = r.text

\* Between requests the file holds what the process took its policy from, or what the
\* last accepted update or restore handed to its caller: through refused and rolled
\* back ones, and through backups and writes that fail before they begin.  Hand edits,
\* errors other than PolicyValidationError and a full disk are what leaves a text that
\* nobody was given (drift).  The audit rules in force are those of the policy in
\* force, but after a reload that an invalid tool policy stopped (split).
FileIsAccounted ==
    Idle /\ Running => (file \in {loaded, returned} \/ drift) /\ (audit = loaded \/ split)

\* As long as no write was cut short the process runs a text somebody meant the
\* file to hold: never the empty file that write_text leaves for a moment, which
\* would load as a policy with every optional protection off.
RunsWhatWasWritten == Running => loaded \in authored \/ torn

=============================================================================
