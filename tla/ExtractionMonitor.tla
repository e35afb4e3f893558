-------------------------- MODULE ExtractionMonitor --------------------------
(***************************************************************************)
(* The corpus-extraction monitor (guardrails/extraction.py): a window of   *)
(* recent retrievals for each subject of each tenant, scored at every      *)
(* query under the tenant's rules and at every look of an operator under   *)
(* the global ones.                                                        *)
(*                                                                         *)
(* observe and watch hold the monitor's lock from end to end, so each is   *)
(* one step.  Ratios are compared by cross-multiplication, with thresholds *)
(* in percent.                                                             *)
(***************************************************************************)
EXTENDS Naturals, FiniteSets, SequencesExt

CONSTANTS
    Tenants, Users,
    Retrievals,     \* sets of documents that one query may retrieve
    RuleSets,       \* extraction sections of the policy files
    Files,          \* what the tenants' policy files may say at first
    Corpora,        \* how many documents a tenant may have
    MaxLen,         \* entries a window keeps at most, 1000 in the code
    MaxTime, MaxQueries, MaxChanges,    \* bounds
    NoFile          \* a tenant without a policy file of its own

Subjects == [tenant : Tenants, user : Users]
Rules == [enabled : BOOLEAN, window : Nat, full : Nat \ {0}, corpus : Nat,
          elevated : Nat \ {0}, severe : Nat \ {0}, breadth : Nat \ {0}, novelty : Nat \ {0},
          action : {"alert", "challenge", "throttle"}]

ASSUME RulesAssumption ==
    RuleSets \subseteq Rules /\ Files \subseteq [Tenants -> RuleSets \cup {NoFile}]
ASSUME BoundsAssumption ==
    Corpora \subseteq Nat /\ {MaxLen, MaxTime, MaxQueries, MaxChanges} \subseteq Nat /\ MaxLen > 0

VARIABLES
    windows,    \* Subjects -> sequence of [ts, docs], oldest first
    global,     \* the rules of app.state.policy
    own,        \* the rules of the tenants' policy files, read at every query
    corpus,     \* documents per tenant
    now,
    answer,     \* what the last call of the monitor returned
    past,       \* observer: all retrievals since the process started
    floor,      \* observer: what is older than this was dropped from the window
    queries,    \* how many there were
    changes     \* of the corpus, the policies and the process, how many there were

config == <<global, own, corpus>>
vars == <<windows, config, now, answer, past, floor, queries, changes>>
-----------------------------------------------------------------------------
\* policy_for_tenant
RulesOf(t) == IF own[t] = NoFile THEN global ELSE own[t]

\* Mutant: the subjects of all tenants share a window by name.
Key_User(s) == [s EXCEPT !.tenant = CHOOSE t \in Tenants : TRUE]
Key(s) == s

Fresh(e, seconds) == e.ts + seconds >= now

\* Mutant: prune looks at the age alone.
Prune_Age(w, seconds) == SelectSeq(w, LAMBDA e : Fresh(e, seconds))

\* WindowState.prune: old entries leave from the left until one is fresh, then
\* the oldest of those that are too many.
Prune(w, seconds) ==
    LET stale == {i \in 1..Len(w) : \A j \in 1..i : ~Fresh(w[j], seconds)}
        kept == SubSeq(w, Cardinality(stale) + 1, Len(w))
    IN IF Len(kept) > MaxLen THEN SubSeq(kept, Len(kept) - MaxLen + 1, Len(kept)) ELSE kept

DocsIn(w, n) == UNION {w[i].docs : i \in 1..n}
Novel(w) == {i \in 1..Len(w) : ~(w[i].docs \subseteq DocsIn(w, i - 1))}
AtLeast(part, whole, percent) == part * 100 >= percent * whole

\* score_window
Severity(w, size, r) ==
    LET seen == Cardinality(DocsIn(w, Len(w)))
        covers(percent) == size >= r.corpus /\ size > 0 /\ AtLeast(seen, size, percent)
        severe == covers(r.severe) \/ AtLeast(seen, Len(w), r.breadth)
        elevated == covers(r.elevated) \/ AtLeast(Cardinality(Novel(w)), Len(w), r.novelty)
    IN IF Len(w) < r.full \/ ~(severe \/ elevated) THEN "none"
       ELSE IF severe THEN "severe" ELSE "elevated"

Answer(call, scope, who, severity, paused) ==
    [call |-> call, scope |-> scope, who |-> who, severity |-> severity, paused |-> paused]
Later(a, b) == IF a > b THEN a ELSE b
Cutoff(seconds) == IF now > seconds THEN now - seconds ELSE 0
-----------------------------------------------------------------------------
(* The query pipeline calls observe_query for what the ACL let through.    *)
Observe(s, docs) ==
    LET r == RulesOf(s.tenant)
        k == Key(s)
        w == Prune(Append(windows[k], [ts |-> now, docs |-> docs]), r.window)
        verdict == Severity(w, corpus[s.tenant], r)
    IN /\ r.enabled
       /\ queries < MaxQueries
       /\ queries' = queries + 1
       /\ windows' = [windows EXCEPT ![k] = w]
       /\ answer' = Answer("observe", {s.tenant}, {s}, verdict,
                           verdict = "severe" /\ r.action # "alert")
       /\ past' = [past EXCEPT ![s] = Append(@, [ts |-> now, docs |-> docs])]
       /\ floor' = [floor EXCEPT ![k] = Later(@, Cutoff(r.window))]
       /\ UNCHANGED <<config, now, changes>>

\* Who is at elevated or severe under the global rules.
Offenders(ws) ==
    {s \in Subjects : /\ ws[s] # << >>
                      /\ Severity(ws[s], corpus[s.tenant], global) # "none"}

\* Mutant: watch scores the windows as the last queries left them.
Watch_Unpruned(scope) ==
    /\ answer' = Answer("watch", scope, {s \in Offenders(windows) : s.tenant \in scope},
                        "none", FALSE)
    /\ UNCHANGED <<windows, config, now, past, floor, queries, changes>>

\* GET /admin/extraction/watch: every window is pruned under the global rules,
\* whether or not they are enabled, and the answer then cut to the tenants that
\* the operator may see.
Watch(scope) ==
    LET pruned == [s \in Subjects |-> Prune(windows[s], global.window)]
    IN /\ windows' = pruned
       /\ answer' = Answer("watch", scope, {s \in Offenders(pruned) : s.tenant \in scope},
                           "none", FALSE)
       /\ floor' = [s \in Subjects |-> Later(floor[s], Cutoff(global.window))]
       /\ UNCHANGED <<config, now, past, queries, changes>>

(* The world: time, documents, policies, restarts.                         *)
Nothing == Answer("none", {}, {}, "none", FALSE)
Quiet == answer' = Nothing
Change == changes < MaxChanges /\ changes' = changes + 1 /\ Quiet

Tick ==
    /\ now < MaxTime
    /\ now' = now + 1
    /\ Quiet
    /\ UNCHANGED <<windows, config, past, floor, queries, changes>>

ChangeCorpus(t, n) ==
    /\ n # corpus[t]
    /\ corpus' = [corpus EXCEPT ![t] = n]
    /\ Change
    /\ UNCHANGED <<windows, global, own, now, past, floor, queries>>

Reload(g) ==
    /\ global' = g
    /\ Change
    /\ UNCHANGED <<windows, own, corpus, now, past, floor, queries>>

\* A tenant's policy file is edited: the next query reads it.
EditFile(t, r) ==
    /\ r # own[t]
    /\ own' = [own EXCEPT ![t] = r]
    /\ Change
    /\ UNCHANGED <<windows, global, corpus, now, past, floor, queries>>

Restart ==
    /\ windows' = [s \in Subjects |-> << >>]
    /\ past' = [s \in Subjects |-> << >>]
    /\ floor' = [s \in Subjects |-> 0]
    /\ Change
    /\ UNCHANGED <<config, now, queries>>

Init ==
    /\ windows = [s \in Subjects |-> << >>]
    /\ global \in RuleSets
    /\ own \in Files
    /\ corpus \in {[t \in Tenants |-> n] : n \in Corpora}
    /\ now = 0
    /\ answer = Nothing
    /\ past = [s \in Subjects |-> << >>]
    /\ floor = [s \in Subjects |-> 0]
    /\ queries = 0
    /\ changes = 0

World ==
    \/ Tick
    \/ \E t \in Tenants, n \in Corpora : ChangeCorpus(t, n)
    \/ \E t \in Tenants, r \in RuleSets \cup {NoFile} : EditFile(t, r)

Next ==
    \/ \E s \in Subjects, docs \in Retrievals : Observe(s, docs)
    \/ \E scope \in SUBSET Tenants : Watch(scope)
    \/ \E g \in RuleSets : Reload(g)
    \/ Restart
    \/ World

Spec == Init /\ [][Next]_vars
-----------------------------------------------------------------------------
(* Properties.                                                             *)

Entries == [ts : 0..MaxTime, docs : Retrievals]

\* Every variable has its type; the entries of a window are in the order of time.
TypeOK ==
    /\ windows \in [Subjects -> Seq(Entries)]
    /\ past \in [Subjects -> Seq(Entries)]
    /\ \A s \in Subjects : /\ Len(windows[s]) <= MaxLen
                           /\ \A i, j \in 1..Len(windows[s]) :
                                i <= j => windows[s][i].ts <= windows[s][j].ts
    /\ global \in RuleSets
    /\ own \in [Tenants -> RuleSets \cup {NoFile}]
    /\ corpus \in [Tenants -> Corpora]
    /\ now \in 0..MaxTime
    /\ floor \in [Subjects -> 0..MaxTime]
    /\ queries \in 0..MaxQueries
    /\ changes \in 0..MaxChanges

\* What the subject itself retrieved in the last `seconds`, the newest MaxLen of it.
FreshIn(s, seconds) == {i \in 1..Len(past[s]) : Fresh(past[s][i], seconds)}
Recent(s, seconds) ==
    LET n == Cardinality(FreshIn(s, seconds))
        newest == IF n > MaxLen THEN MaxLen ELSE n
    IN SubSeq(past[s], Len(past[s]) - newest + 1, Len(past[s]))

Intact(s, seconds) == floor[s] <= Cutoff(seconds)

\* A query is judged by what its own subject, in its own tenant, retrieved in
\* the last window_seconds, and by nothing else (observe): whatever was reloaded
\* or looked at since, unless a shorter window has already dropped a part of it.
\* Whoever was quiet for that time is not paused, however often they were before.
JudgedByRecent ==
    answer.call = "observe" =>
      \A s \in answer.who :
        LET r == RulesOf(s.tenant)
        IN /\ Intact(s, r.window) =>
                answer.severity = Severity(Recent(s, r.window), corpus[s.tenant], r)
           /\ answer.paused => Cardinality(FreshIn(s, r.window)) >= r.full

\* The watch list names exactly those subjects of the operator's tenants whose
\* retrievals of the last window score under the global rules (watch and the
\* filter of its route): nobody stays on it by not asking any more.
WatchListIsRecent ==
    answer.call = "watch" /\ (\A s \in Subjects : Intact(s, global.window)) =>
      answer.who = {s \in Subjects :
                      /\ s.tenant \in answer.scope
                      /\ Recent(s, global.window) # << >>
                      /\ Severity(Recent(s, global.window), corpus[s.tenant], global) # "none"}
==============================================================================
