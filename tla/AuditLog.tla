------------------------------ MODULE AuditLog ------------------------------
(***************************************************************************)
(* The audit trail of one process: record(), daily rotation, retention,    *)
(* the hash chain, policy reloads and restarts.                            *)
(*                                                                         *)
(* Every caller of record() runs on the event loop, so its handlers do not *)
(* interleave.  `todo` lists the steps the running handler still has to    *)
(* take, each one write to disk at most: a crash may come between any two. *)
(* The clock moves between handlers and under record().                    *)
(*                                                                         *)
(* A hash stands for what it covers: event_hash is the sequence of bodies  *)
(* from the genesis hash, <<>>, up to the event.                           *)
(***************************************************************************)
EXTENDS Naturals, Sequences, FiniteSets

CONSTANTS
    Events,         \* [ev, kind, decision, debug]: events, each recorded once
    Legacy,         \* events an older release left in the file, without chain
    Kinds, Decisions,
    Policies,       \* the audit section of policy.yaml as it may be edited
    DefaultPolicy,  \* _AUDIT_POLICY of a fresh module: no chain
    FallbackDays,   \* 7, in apply_retention
    PruneEvery,     \* 50, in record
    BufferSize,     \* RAG_AUDIT_BUFFER_SIZE
    TicksPerDay,
    Start, MaxTime, MaxCrashes,     \* bounds
    NoDay, NoHash, NoDays

Days == {t \div TicksPerDay : t \in 0..MaxTime}
Ttl == Nat \cup {NoDays}
Policy == [chain : BOOLEAN, keep : Nat \ {0}, days : Nat, by_kind : [Kinds -> Ttl],
           by_decision : [Decisions -> Ttl], debug_ticks : Nat]
Event == [ev : Nat, kind : Kinds, decision : Decisions, debug : BOOLEAN]
BodyRec == [event : Events, at : Nat, debug : BOOLEAN]
Backups == {"day", "pruned"} \X Days

ASSUME EventAssumption == Events \subseteq Event /\ Legacy \subseteq Events
ASSUME PolicyAssumption ==
    Policies \subseteq Policy /\ DefaultPolicy \in Policy /\ ~DefaultPolicy.chain
ASSUME SizeAssumption ==
    /\ {FallbackDays, PruneEvery, BufferSize, TicksPerDay} \subseteq Nat \ {0}
    /\ {Start, MaxTime, MaxCrashes} \subseteq Nat /\ Start <= MaxTime
ASSUME SentinelAssumption == NoDay \notin Nat /\ NoHash \notin Seq(BodyRec) /\ NoDays \notin Nat

VARIABLES
    now,        \* ticks
    active,     \* audit.jsonl
    marker,     \* audit.jsonl.rotation
    backups,    \* audit-backups/: name -> [mtime, rows]; without rows, no file
    filePolicy, \* policy.yaml
    policy,     \* _AUDIT_POLICY
    tip,        \* _last_hash
    buffer,     \* _BUFFER
    since,      \* _RECORDS_SINCE_PRUNE
    line,       \* the payload record() is about to append
    out,        \* what a rewrite of audit.jsonl is about to write
    todo,       \* steps left of the running handler
    cut,        \* observer: rotation came between the chain fields of a record and its
                \* write, or a rewrite ran with the chain off; not mended since
    stamp,      \* observer: the time of each event that was written, or NoDay
    crashes     \* observer

disk == <<active, marker, backups, filePolicy>>
memory == <<policy, tip, buffer, since, line, out>>
observers == <<cut, stamp, crashes>>
vars == <<now, disk, memory, todo, observers>>
-----------------------------------------------------------------------------
Today == now \div TicksPerDay
Elems(s) == {s[k] : k \in DOMAIN s}
Max2(a, b) == IF a >= b THEN a ELSE b
LastN(s, n) == IF Len(s) <= n THEN s ELSE SubSeq(s, Len(s) - n + 1, Len(s))

\* The one sequence that keeps the elements of s at the positions K, in order.
Kept(s, K) ==
    LET Orders == {f \in [1..Cardinality(K) -> K] : \A i, j \in DOMAIN f : i < j => f[i] < f[j]}
    IN {[k \in DOMAIN f |-> s[f[k]]] : f \in Orders}

(* A body is an event with its time; a line adds the chain fields.          *)
Body(l) == [event |-> l.event, at |-> l.at, debug |-> l.debug]
Unchained(b) == [event |-> b.event, at |-> b.at, debug |-> b.debug, prev |-> NoHash, hash |-> NoHash]
Link(b, prev) == [event |-> b.event, at |-> b.at, debug |-> b.debug, prev |-> prev,
                  hash |-> Append(prev, Body(b))]

\* rechain_payloads
Rechain(s) ==
    [k \in DOMAIN s |-> Link(s[k], [j \in 1..k - 1 |-> Body(s[j])])]

\* The hash verify_audit_file expects in prev_hash at line k.
Prior(s, k) ==
    LET J == {j \in 1..k - 1 : s[j].hash # NoHash}
    IN IF J = {} THEN <<>> ELSE s[CHOOSE j \in J : \A i \in J : i <= j].hash

Unlinked(s, k) == s[k].hash # NoHash /\ s[k].prev # Prior(s, k)
Altered(s, k) == s[k].hash # NoHash /\ s[k].hash # Append(s[k].prev, Body(s[k]))
Breaks(s) == {k \in DOMAIN s : Unlinked(s, k) \/ Altered(s, k)}

\* verify_audit_file: broken_at_line (0 when valid), and last_hash.
BrokenAt(s) ==
    IF Breaks(s) = {} THEN 0 ELSE CHOOSE k \in Breaks(s) : \A j \in Breaks(s) : k <= j
LastHash(s) == Prior(s, IF BrokenAt(s) = 0 THEN Len(s) + 1 ELSE BrokenAt(s))
Valid(s) == Breaks(s) = {}

\* load_chain_tip re-anchors a file only when its first line does not follow genesis.
Heals(s) == BrokenAt(s) = 1 /\ Unlinked(s, 1)

(* Retention.                                                              *)
DefaultDays(p) == IF p.days > 0 THEN p.days ELSE FallbackDays

\* retention_days_for_event: the kind's days, raised to the decision's floor.
EffectiveDays(p, e) ==
    LET kind == p.by_kind[e.kind]
        base == IF kind \in Nat \ {0} THEN kind ELSE DefaultDays(p)
    IN IF p.by_decision[e.decision] = NoDays THEN base ELSE Max2(base, p.by_decision[e.decision])

KeepsAll(p) == p.days = 0 /\ \A k \in Kinds : p.by_kind[k] = NoDays
                          /\ \A d \in Decisions : p.by_decision[d] = NoDays
Expired(b) == b.at + EffectiveDays(policy, b.event) * TicksPerDay < now
Fresh(s) == {k \in DOMAIN s : ~Expired(s[k])}
DebugExpired(b) ==
    b.debug /\ policy.debug_ticks > 0 /\ b.at + policy.debug_ticks < now
Stripped(b) == IF DebugExpired(b) THEN [b EXCEPT !.debug = FALSE] ELSE b
-----------------------------------------------------------------------------
(* Handlers: what each one has to do.                                      *)
Retention == <<"rotate", "retain">>
Warm == Retention \o <<"warm">>
Startup == Warm \o <<"rotate">> \o Retention \o <<"sync">> \o Warm

Idle == todo = <<>>
Doing(step) == ~Idle /\ Head(todo) = step
Then(steps) == todo' = steps \o Tail(todo)

\* append_chain_fields
ChainFields(b) ==
    IF policy.chain THEN line' = Link(b, tip) /\ tip' = line'.hash
                    ELSE line' = Unchained(b) /\ tip' = tip

\* record(), for an event that sampling keeps: one that is dropped leaves only
\* counters behind.
Record(e) ==
    /\ Idle
    /\ stamp[e] = NoDay
    /\ LET b == [event |-> e, at |-> now, debug |-> e.debug]
       IN buffer' = LastN(Append(buffer, b), BufferSize) /\ ChainFields(b)
    /\ todo' = <<"rotate", "append">>
    /\ UNCHANGED <<now, disk, policy, since, out, observers>>

\* An export, the statistics and the event list all apply retention, then read.
Read ==
    /\ Idle
    /\ todo' = Retention \o <<"read">>
    /\ UNCHANGED <<now, disk, memory, observers>>

\* reload-policy; an invalid tool policy answers 400 before the audit policy is set.
ReloadPolicy ==
    /\ Idle
    /\ todo' = <<"sync">>
    /\ UNCHANGED <<now, disk, memory, observers>>

\* Only `sync` reads the file: between handlers is as good as any time.
EditPolicy ==
    /\ Idle
    /\ filePolicy' \in Policies
    /\ UNCHANGED <<now, active, marker, backups, memory, todo, observers>>

\* Handlers are short: the one place where it matters that the clock moves under a
\* handler is between the chain fields of a record and its rotation check.
Tick ==
    /\ Idle \/ (todo = <<"rotate", "append">> /\ line.at = now)
    /\ now < MaxTime
    /\ now' = now + 1
    /\ UNCHANGED <<disk, memory, todo, observers>>

FreshMemory(p, t, b, s) == p = DefaultPolicy /\ t = <<>> /\ b = <<>> /\ s = 0

\* The process ends at any point and starts again: configure_audit under the
\* module's own policy, then the policy file, then the buffer.
Restart ==
    /\ crashes < MaxCrashes
    /\ crashes' = crashes + 1
    /\ FreshMemory(policy', tip', buffer', since')
    /\ todo' = Startup
    /\ line' = NoHash /\ out' = <<>>
    /\ UNCHANGED <<now, disk, cut, stamp>>
-----------------------------------------------------------------------------
(* Steps.                                                                  *)

AddRows(name, rows) ==
    backups' = [backups EXCEPT ![name] = [mtime |-> now, rows |-> @.rows \cup rows]]

RotationDue == marker # NoDay /\ marker < Today /\ active # <<>>

\* _maybe_rotate_audit_file: nothing to move, so at most the marker is written.
SkipRotation ==
    /\ Doing("rotate")
    /\ ~RotationDue
    /\ marker' = IF marker # NoDay /\ marker >= Today THEN marker ELSE Today
    /\ Then(<<>>)
    /\ UNCHANGED <<now, active, backups, filePolicy, memory, observers>>

\* The active file is appended to the backup of the marker's day ...
CopyOut ==
    /\ Doing("rotate")
    /\ RotationDue
    /\ AddRows(<<"day", marker>>, {Body(l) : l \in Elems(active)})
    /\ Then(<<"clear", "sweep", "mark">>)
    /\ UNCHANGED <<now, active, marker, filePolicy, memory, observers>>

\* Mutant: rotation leaves the chain tip where it is.
Clear_KeepsTip ==
    /\ Doing("clear")
    /\ active' = <<>>
    /\ Then(<<>>)
    /\ UNCHANGED <<now, marker, backups, filePolicy, memory, observers>>

\* ... then emptied, with a new chain segment ...
Clear ==
    /\ Doing("clear")
    /\ active' = <<>>
    /\ tip' = IF policy.chain THEN <<>> ELSE tip
    /\ cut' = (policy.chain /\ "append" \in Elems(todo))
    /\ Then(<<>>)
    /\ UNCHANGED <<now, marker, backups, filePolicy, policy, buffer, since, line, out,
                   stamp, crashes>>

Stale(name) == backups[name].mtime + policy.keep * TicksPerDay < now

\* _prune_audit_backups
Sweep ==
    /\ Doing("sweep")
    /\ backups' = [n \in Backups |->
                     IF Stale(n) THEN [backups[n] EXCEPT !.rows = {}] ELSE backups[n]]
    /\ Then(<<>>)
    /\ UNCHANGED <<now, active, marker, filePolicy, memory, observers>>

\* ... and the day is marked as done.
Mark ==
    /\ Doing("mark")
    /\ marker' = Today
    /\ Then(<<>>)
    /\ UNCHANGED <<now, active, backups, filePolicy, memory, observers>>

\* Mutant: the counter is not reset.
AppendLine_NoReset ==
    /\ Doing("append")
    /\ active' = Append(active, line)
    /\ stamp' = [stamp EXCEPT ![line.event] = line.at]
    /\ line' = NoHash
    /\ since' = since + 1
    /\ Then(IF since + 1 >= PruneEvery THEN Retention ELSE <<>>)
    /\ UNCHANGED <<now, marker, backups, filePolicy, policy, tip, buffer, out, cut, crashes>>

\* _persist_jsonl, and retention after every PruneEvery records
AppendLine ==
    /\ Doing("append")
    /\ active' = Append(active, line)
    /\ stamp' = [stamp EXCEPT ![line.event] = line.at]
    /\ line' = NoHash
    /\ since' = (since + 1) % PruneEvery
    /\ Then(IF since + 1 >= PruneEvery THEN Retention ELSE <<>>)
    /\ UNCHANGED <<now, marker, backups, filePolicy, policy, tip, buffer, out, cut, crashes>>

\* write_text truncates the file before it writes: two steps.
Rewrite(s) ==
    /\ out' = IF policy.chain THEN Rechain(s) ELSE s
    /\ tip' = IF policy.chain THEN [k \in DOMAIN s |-> Body(s[k])] ELSE tip
    /\ active' = <<>>
    /\ cut' = (~policy.chain /\ (cut \/ \E l \in Elems(s) : l.hash # NoHash))

Fill ==
    /\ Doing("fill")
    /\ active' = out
    /\ out' = <<>>
    /\ Then(<<>>)
    /\ UNCHANGED <<now, marker, backups, filePolicy, policy, tip, buffer, since, line,
                   observers>>

\* Mutant: expired lines are dropped without a backup.
Retain_Discards ==
    /\ Doing("retain")
    /\ Then(<<"prune", "fill", "trim", "strip_memory", "strip", "sweep">>)
    /\ UNCHANGED <<now, disk, memory, observers>>

\* apply_retention: what has expired goes to a backup first.
Retain ==
    /\ Doing("retain")
    /\ IF KeepsAll(policy)
       THEN backups' = backups /\ Then(<<"strip_memory", "strip">>)
       ELSE LET old == {b \in {Body(l) : l \in Elems(active)} : Expired(b)}
            IN IF old = {}
               THEN backups' = backups /\ Then(<<"trim", "strip_memory", "strip", "sweep">>)
               ELSE /\ AddRows(<<"pruned", Today>>, old)
                    /\ Then(<<"prune", "fill", "trim", "strip_memory", "strip", "sweep">>)
    /\ UNCHANGED <<now, active, marker, filePolicy, memory, observers>>

Prune ==
    /\ Doing("prune")
    /\ \E kept \in Kept(active, Fresh(active)) : Rewrite(kept)
    /\ Then(<<>>)
    /\ UNCHANGED <<now, marker, backups, filePolicy, policy, buffer, since, line,
                   stamp, crashes>>

\* Mutant: only the file loses what has expired.
Trim_Nothing ==
    /\ Doing("trim")
    /\ Then(<<>>)
    /\ UNCHANGED <<now, disk, memory, observers>>

Trim ==
    /\ Doing("trim")
    /\ buffer' \in Kept(buffer, Fresh(buffer))
    /\ Then(<<>>)
    /\ UNCHANGED <<now, disk, policy, tip, since, line, out, observers>>

\* strip_expired_debug_previews: the buffer, then the file
StripMemory ==
    /\ Doing("strip_memory")
    /\ buffer' = [k \in DOMAIN buffer |-> Stripped(buffer[k])]
    /\ Then(<<>>)
    /\ UNCHANGED <<now, disk, policy, tip, since, line, out, observers>>

Strip ==
    /\ Doing("strip")
    /\ IF \E l \in Elems(active) : DebugExpired(l)
       THEN Rewrite([k \in DOMAIN active |-> Stripped(active[k])]) /\ Then(<<"fill">>)
       ELSE UNCHANGED <<active, tip, out, cut>> /\ Then(<<>>)
    /\ UNCHANGED <<now, marker, backups, filePolicy, policy, buffer, since, line,
                   stamp, crashes>>

\* Mutant: the oldest lines are loaded.
WarmBuffer_Oldest ==
    /\ Doing("warm")
    /\ buffer' = [k \in 1..(IF Len(active) <= BufferSize THEN Len(active) ELSE BufferSize)
                    |-> Body(active[k])]
    /\ Then(<<>>)
    /\ UNCHANGED <<now, disk, policy, tip, since, line, out, observers>>

\* warm_buffer_from_file clears the buffer before iter_event_dicts applies
\* retention, which leaves an empty buffer alone.
WarmBuffer ==
    /\ Doing("warm")
    /\ buffer' = LastN([k \in DOMAIN active |-> Body(active[k])], BufferSize)
    /\ Then(<<>>)
    /\ UNCHANGED <<now, disk, policy, tip, since, line, out, observers>>

\* configure_audit_policy and load_chain_tip
Sync ==
    /\ Doing("sync")
    /\ policy' = filePolicy
    /\ IF filePolicy.chain /\ Heals(active)
       THEN /\ out' = Rechain(active)
            /\ tip' = [k \in DOMAIN active |-> Body(active[k])]
            /\ active' = <<>>
            /\ Then(<<"fill">>)
       ELSE /\ tip' = IF filePolicy.chain THEN LastHash(active) ELSE <<>>
            /\ UNCHANGED <<active, out>>
            /\ Then(<<>>)
    /\ cut' = (cut /\ ~(filePolicy.chain /\ (Valid(active) \/ Heals(active))))
    /\ UNCHANGED <<now, marker, backups, filePolicy, buffer, since, line, stamp, crashes>>

Answer ==
    /\ Doing("read")
    /\ Then(<<>>)
    /\ UNCHANGED <<now, disk, memory, observers>>
-----------------------------------------------------------------------------
\* Any of these events, in any order.
Shuffles(E) ==
    {s \in UNION {[1..n -> E] : n \in 0..Cardinality(E)} :
        \A j, k \in DOMAIN s : j # k => s[j] # s[k]}

Init ==
    /\ now = Start
    /\ active \in {[k \in DOMAIN s |-> Unchained([event |-> s[k], at |-> 0, debug |-> s[k].debug])]
                     : s \in Shuffles(Legacy)}
    /\ marker = NoDay
    /\ backups = [n \in Backups |-> [mtime |-> 0, rows |-> {}]]
    /\ filePolicy \in Policies
    /\ FreshMemory(policy, tip, buffer, since)
    /\ line = NoHash
    /\ out = <<>>
    /\ todo = Startup
    /\ cut = FALSE
    /\ stamp = [e \in Events |-> IF \E l \in Elems(active) : l.event = e THEN 0 ELSE NoDay]
    /\ crashes = 0

Step ==
    \/ SkipRotation \/ CopyOut \/ Clear \/ Sweep \/ Mark
    \/ AppendLine \/ Fill
    \/ Retain \/ Prune \/ Trim \/ StripMemory \/ Strip
    \/ WarmBuffer \/ Sync \/ Answer

Next ==
    \/ \E e \in Events : Record(e)
    \/ Read \/ ReloadPolicy \/ EditPolicy \/ Tick \/ Restart
    \/ Step

Spec == Init /\ [][Next]_vars
-----------------------------------------------------------------------------
(* Properties.                                                             *)

Hash == Seq(BodyRec) \cup {NoHash}
Line == [event : Events, at : Nat, debug : BOOLEAN, prev : Hash, hash : Hash]
Steps == {"rotate", "clear", "sweep", "mark", "append", "fill", "retain", "prune", "trim",
          "strip_memory", "strip", "warm", "sync", "read"}

\* Every variable has its type.
TypeOK ==
    /\ now \in 0..MaxTime
    /\ active \in Seq(Line) /\ out \in Seq(Line)
    /\ marker \in Days \cup {NoDay}
    /\ backups \in [Backups -> [mtime : Nat, rows : SUBSET BodyRec]]
    /\ filePolicy \in Policies /\ policy \in Policies \cup {DefaultPolicy}
    /\ tip \in Seq(BodyRec)
    /\ buffer \in Seq(BodyRec) /\ Len(buffer) <= BufferSize
    /\ since \in 0..(PruneEvery - 1)
    /\ line \in Line \cup {NoHash}
    /\ todo \in Seq(Steps)
    /\ cut \in BOOLEAN
    /\ stamp \in [Events -> Nat \cup {NoDay}]
    /\ crashes \in 0..MaxCrashes

\* The events in the log, in a backup, or in a rewrite that is under way.
Stored ==
    {b.event : b \in Elems(active) \cup Elems(out) \cup UNION {backups[n].rows : n \in Backups}}

\* The process has not read the policy file yet: start-up rotates and prunes first.
Starting == policy = DefaultPolicy /\ "sync" \in Elems(todo)
KeptFor(e, p) == stamp[e] + p.keep * TicksPerDay >= now

\* Wherever the process stops, an event leaves the disk only in a backup older than
\* the backup_keep_days of the policy file last loaded.  Two gaps: until start-up has
\* read that file its pruning follows the built-in days, however many the file says;
\* and a stop between the truncation of audit.jsonl and the write that follows.
EventsLeaveByAge ==
    [][\A e \in Stored \ Stored' :
        \/ policy \in Policies /\ ~KeptFor(e, policy)
        \/ Starting /\ ~KeptFor(e, DefaultPolicy)
        \/ crashes' # crashes /\ Doing("fill")]_vars

\* Through rotation, pruning, stripping, reload and restart, the file verifies and
\* the tip in memory is the hash of its last line, so that the next record extends
\* it - unless midnight fell between the chain fields of a record and its write, or
\* lines were rewritten while the chain was off.
ChainSound ==
    Idle /\ policy.chain /\ ~cut => Valid(active) /\ tip = LastHash(active)

\* An export, in memory or on file, shows no event past its TTL and no debug
\* preview past its own.
ExportsAreFresh ==
    Doing("read") => \A b \in Elems(buffer) \cup Elems(active) :
        ~DebugExpired(b) /\ (KeepsAll(policy) \/ ~Expired(b))

\* The recent-events view misses nothing: an event of the file that is not in the
\* buffer was displaced by as many later ones as the buffer holds, also when a
\* restart filled the buffer from the file or retention thinned either of them.
RecentCoversFile ==
    Idle => \A l \in Elems(active) :
        \/ \E b \in Elems(buffer) : b.event = l.event
        \/ Cardinality({e \in Events : stamp[e] # NoDay /\ stamp[e] >= l.at}) > BufferSize

\* audit.py, when rotation resets the chain: "New day = new chain segment rooted at
\* genesis (verify expects GENESIS)."
ChainVerifies == Idle /\ policy.chain => Valid(active)

=============================================================================
