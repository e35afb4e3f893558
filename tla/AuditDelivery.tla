---------------------------- MODULE AuditDelivery ----------------------------
(***************************************************************************)
(* What becomes of an audit event after record() was called (audit.py):    *)
(* sampling, and one daemon thread per event that posts it to the webhook. *)
(*                                                                         *)
(* The threads run beside the event loop and beside each other.  How       *)
(* events are kept on disk is the subject of AuditLog, how they are read   *)
(* and charted that of AuditViews.                                         *)
(***************************************************************************)
EXTENDS Naturals, SequencesExt, FiniteSetsExt

CONSTANTS
    Shapes,         \* [kind, decision, notable]: events as their callers build them
    Kinds,
    Policies,       \* sample_by_kind of policy.yaml: a rule or NoRule for each kind
    Attempts,       \* RAG_AUDIT_WEBHOOK_RETRIES, at least 1
    DeadLetters,    \* whether RAG_AUDIT_DEAD_LETTER_FILE is set
    MaxEvents, MaxReloads, MaxCrashes,      \* bounds
    NoRule

Decisions == {"allow", "challenge", "block"}
Rule == [when : SUBSET Decisions, every : Nat]
Ids == 1..MaxEvents

ASSUME ShapeAssumption ==
    Shapes \subseteq [kind : Kinds, decision : Decisions, notable : BOOLEAN]
ASSUME PolicyAssumption ==
    Policies \subseteq [Kinds -> Rule \cup {NoRule}]
ASSUME SizeAssumption ==
    /\ DeadLetters \in BOOLEAN
    /\ Attempts \in Nat \ {0}
    /\ {MaxEvents, MaxReloads, MaxCrashes} \subseteq Nat

VARIABLES
    rules,      \* _AUDIT_POLICY["sample_by_kind"]
    counter,    \* _SAMPLE_COUNTERS
    calls,      \* record() calls so far, and the id of the last one
    threads,    \* id -> [state, tries] of the thread that posts the event
    received,   \* id -> how often the receiver got it
    dead,       \* ids in the dead letter file
    lost,       \* observer: ids whose events sampling dropped
    gap,        \* observer: events of a kind dropped in a row under one policy
    reloads, crashes

sampling == <<counter, lost, gap>>
delivery == <<threads, received, dead>>
vars == <<rules, sampling, calls, delivery, reloads, crashes>>
-----------------------------------------------------------------------------
(* Recording.                                                              *)

RuleOf(e) == rules[e.kind]

\* Decisions outside the rule and connector events worth keeping are never sampled.
Routine(e) ==
    /\ RuleOf(e) # NoRule
    /\ RuleOf(e).when = {} \/ e.decision \in RuleOf(e).when
    /\ ~e.notable

Counted(e) == Routine(e) /\ RuleOf(e).every > 0

\* Mutant: the counter starts over with the event that is kept, not after it.
Dropped_OffByOne(e) ==
    Routine(e) /\ (RuleOf(e).every = 0 \/ counter[e.kind] % (RuleOf(e).every + 1) # 0)

\* should_record_event
Dropped(e) ==
    Routine(e) /\ (RuleOf(e).every = 0 \/ (counter[e.kind] + 1) % RuleOf(e).every # 0)

Thread(state, tries) == [state |-> state, tries |-> tries]

Record(e) ==
    LET id == calls + 1
    IN /\ calls < MaxEvents
       /\ calls' = id
       /\ counter' = [counter EXCEPT ![e.kind] = IF Counted(e) THEN @ + 1 ELSE @]
       /\ IF Dropped(e)
          THEN /\ lost' = lost \cup {id}
               /\ gap' = [gap EXCEPT ![e.kind] = IF Counted(e) THEN @ + 1 ELSE @]
               /\ UNCHANGED threads
          ELSE /\ threads' = [threads EXCEPT ![id] = Thread("posting", 0)]
               /\ gap' = [gap EXCEPT ![e.kind] = IF Counted(e) THEN 0 ELSE @]
               /\ UNCHANGED lost
       /\ UNCHANGED <<rules, received, dead, reloads, crashes>>
-----------------------------------------------------------------------------
(* Delivery: _post_webhook, the loop of one thread.                        *)

\* Mutant: after the last attempt the count starts over.
Post_Endless(id) ==
    LET t == threads[id]
    IN /\ t.state = "posting"
       /\ \E arrived, answered \in BOOLEAN :
            /\ answered => arrived
            /\ received' = [received EXCEPT ![id] = IF answered THEN @ + 1 ELSE @]
            /\ threads' = [threads EXCEPT ![id] =
                 Thread(IF answered THEN "done" ELSE "posting", (t.tries + 1) % Attempts)]
       /\ UNCHANGED <<rules, sampling, calls, dead, reloads, crashes>>

\* A request may be lost, or arrive and its answer be lost or be an error.
Post(id) ==
    LET t == threads[id]
    IN /\ t.state = "posting"
       /\ \E arrived, answered \in BOOLEAN :
            /\ answered => arrived
            /\ received' = [received EXCEPT ![id] = IF arrived THEN @ + 1 ELSE @]
            /\ threads' = [threads EXCEPT ![id] =
                 Thread(IF answered THEN "done"
                        ELSE IF t.tries + 1 = Attempts THEN "failed" ELSE "posting",
                        t.tries + 1)]
       /\ UNCHANGED <<rules, sampling, calls, dead, reloads, crashes>>

\* _write_dead_letter
DeadLetter(id) ==
    /\ threads[id].state = "failed"
    /\ threads' = [threads EXCEPT ![id].state = "dead"]
    /\ dead' = IF DeadLetters THEN dead \cup {id} ELSE dead
    /\ UNCHANGED <<rules, sampling, calls, received, reloads, crashes>>
-----------------------------------------------------------------------------
(* The world.                                                              *)

\* configure_audit_policy; the counters go on.
Reload(p) ==
    /\ p # rules
    /\ reloads < MaxReloads
    /\ reloads' = reloads + 1
    /\ rules' = p
    /\ gap' = [k \in Kinds |-> 0]
    /\ UNCHANGED <<counter, lost, calls, delivery, crashes>>

\* The threads are daemons: they end with the process, also with an orderly stop.
Restart ==
    /\ crashes < MaxCrashes
    /\ crashes' = crashes + 1
    /\ threads' = [id \in Ids |-> IF threads[id].state \in {"posting", "failed"}
                                  THEN [threads[id] EXCEPT !.state = "killed"] ELSE threads[id]]
    /\ counter' = [k \in Kinds |-> 0]
    /\ gap' = [k \in Kinds |-> 0]
    /\ UNCHANGED <<rules, lost, calls, received, dead, reloads>>

Init ==
    /\ rules \in Policies
    /\ counter = [k \in Kinds |-> 0]
    /\ calls = 0
    /\ threads = [id \in Ids |-> Thread("none", 0)]
    /\ received = [id \in Ids |-> 0]
    /\ dead = {}
    /\ lost = {}
    /\ gap = [k \in Kinds |-> 0]
    /\ reloads = 0
    /\ crashes = 0

Next ==
    \/ \E e \in Shapes : Record(e)
    \/ \E id \in Ids : Post(id) \/ DeadLetter(id)
    \/ Restart
    \/ \E p \in Policies : Reload(p)

Spec == Init /\ [][Next]_vars

\* A thread that can go on does: an attempt ends by its timeout at the latest.
Fairness == \A id \in Ids : WF_vars(Post(id)) /\ WF_vars(DeadLetter(id))
FairSpec == Spec /\ Fairness
-----------------------------------------------------------------------------
(* Properties.                                                             *)

Arrived(id) == received[id] > 0
Underway(id) == threads[id].state \in {"posting", "failed"}

Settled(id) ==
    \/ Arrived(id)
    \/ id \in dead /\ threads[id].tries = Attempts
    \/ threads[id].state = "dead" /\ ~DeadLetters
    \/ threads[id].state = "killed" /\ crashes > 0

\* Of keep_every routine events in a row at least one is kept, whatever else is
\* recorded in between, also over a restart (should_record_event).
SamplesGoOn ==
    \A k \in Kinds : rules[k] # NoRule /\ rules[k].every > 0 => gap[k] < rules[k].every

\* No event goes missing silently: each is dropped by its sampling rule, or it is
\* underway to the receiver, got there, is in the dead letter file after all its
\* attempts, or a restart cut its thread off.  Retries repeat a delivery Attempts
\* times at most, and a dropped event never leaves (_post_webhook,
\* _write_dead_letter).
EventsAccountedFor ==
    /\ SamplesGoOn
    /\ \A id \in 1..calls :
         /\ id \in lost \/ Underway(id) \/ Settled(id)
         /\ received[id] <= Attempts
         /\ id \in lost => ~Arrived(id)

\* The thread of an event that was recorded ends, by a delivery, in the dead letter
\* file or with the process: no attempt waits forever and none is repeated forever.
EventuallySettled == \A id \in Ids : Underway(id) ~> Settled(id) /\ ~Underway(id)
==============================================================================
