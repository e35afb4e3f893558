---------------------------- MODULE ToolGateway ----------------------------
(***************************************************************************)
(* The tool gateway of one process and one tenant: POST /v1/tools/invoke,  *)
(* the queue of invocations held for an operator, and the approve and deny *)
(* routes.                                                                 *)
(*                                                                         *)
(* These handlers never await: while one runs - the backend call included -*)
(* no other handler does, so `work` holds at most one of them.  What can   *)
(* come between two of its steps is the end of the process.  The queue and *)
(* the audit trail are files and survive it; the policies are read again.  *)
(* An MCP server does not wait for anyone: a call that its handler gave up *)
(* on may still run there, after the answer and after a restart.           *)
(***************************************************************************)
EXTENDS Naturals, FiniteSets

CONSTANTS
    Ids,            \* invocations, each one slot; also their challenge ids
    Calls,          \* [tool, groups, fits, size, marks, risk]: request and caller
    Tools,
    Groups,
    Backends,       \* keys of BACKEND_HANDLERS and BACKEND_ARG_MODELS
    Remote,         \* those that reach an MCP server
    Marks,          \* what a blocked pattern or domain can match in arguments
    Tells,          \* what a description can hold that an injection rule catches
    ToolPolicies,   \* tool_policy.yaml as it may be edited
    Rags,           \* injection rules of policy.yaml: sets of Tells
    MaxApprovals, MaxCrashes,   \* bounds
    NoTool, NoCall, NoRag, Idle

Call == [tool : Tools, groups : SUBSET Groups, fits : SUBSET Backends,
         size : Nat, marks : SUBSET Marks, risk : Nat]
\* A backend name outside Backends is a typo in the policy file.
Entry == [groups : SUBSET Groups, backend : Backends \cup {"other"}, max_args : Nat,
          patterns : SUBSET Marks, domains : SUBSET Marks, tells : SUBSET Tells]
ToolPolicy == [challenge : Nat, block : Nat, mode : {"allow", "block", "audit_only"},
               tools : [Tools -> Entry \cup {NoTool}]]
Ops == {"hold", "invoke", "approve", "deny"}
Steps == {"call", "wait", "ran", "allow", "block", "raise", "record", "remove"}
Kinds == {"challenge", "allow", "block", "approved", "denied"}

ASSUME CallAssumption == Calls \subseteq Call /\ NoCall \notin Call
ASSUME BackendAssumption == Remote \subseteq Backends
ASSUME PolicyAssumption == ToolPolicies \subseteq ToolPolicy /\ NoTool \notin Entry
ASSUME RagAssumption == Rags \subseteq SUBSET Tells /\ NoRag \notin Rags
ASSUME BoundAssumption == MaxApprovals \in Nat /\ MaxCrashes \in Nat
ASSUME IdleAssumption == Idle \notin [id : Ids, op : Ops, step : Steps]

VARIABLES
    toolPolicy,     \* app.state.tool_policy
    rag,            \* app.state.policy
    tenantRag,      \* the tenant's own policy file, or NoRag
    req,            \* the request of each invocation; a queue row copies it
    pending,        \* tool_challenges.json
    work,           \* the handler that runs, and how far it is
    sent,           \* how often a call of an invocation was handed to its backend
    runs,           \* how often the backend did the work of an invocation
    late,           \* calls at a server that nobody waits for and that may yet run
    trail,          \* audit events of an invocation, counted by kind
    held,           \* observer: invocations that were ever enqueued
    crashes         \* observer: restarts so far

policies == <<toolPolicy, rag, tenantRag>>
calls == <<sent, runs, late>>
vars == <<toolPolicy, rag, tenantRag, req, pending, work, sent, runs, late, trail, held, crashes>>
-----------------------------------------------------------------------------
(* Checks.                                                                 *)

EntryOf(c) == toolPolicy.tools[c.tool]

\* policy_for_tenant: the tenant's file when it has one
TenantRag == IF tenantRag = NoRag THEN rag ELSE tenantRag

\* build_registry flags a description that the injection rules find something in.
Flagged(e, rules) == e.tells \cap rules # {}

\* Mutant: only the registry is consulted.
Admissible_AnyCaller(c, rules) == EntryOf(c) # NoTool /\ ~Flagged(EntryOf(c), rules)

CallerAllowed(c) == c.groups \cap EntryOf(c).groups # {}

\* What invoke and approve both require, in this order: a known tool, a clean
\* description, a caller in one of its groups.
Admissible(c, rules) == EntryOf(c) # NoTool /\ ~Flagged(EntryOf(c), rules) /\ CallerAllowed(c)

\* args_byte_size, find_blocked_patterns, find_blocked_domains
Oversized(c) == c.size > EntryOf(c).max_args
BlockedArguments(c) == c.marks \cap (EntryOf(c).patterns \cup EntryOf(c).domains) # {}

\* Schema, size, patterns and domains, which only invoke looks at.
ArgumentsPass(c) == EntryOf(c).backend \in c.fits /\ ~Oversized(c) /\ ~BlockedArguments(c)

Decide(risk) ==
    IF risk >= toolPolicy.block THEN "block"
    ELSE IF risk >= toolPolicy.challenge THEN "challenge" ELSE "allow"

\* decide and apply_challenge_mode, then the branches of invoke_tool: audit_only
\* does not let a challenge through here, as it does for a query.
Verdict(c) ==
    IF ~Admissible(c, TenantRag) \/ ~ArgumentsPass(c) THEN "block"
    ELSE IF Decide(c.risk) = "challenge"
         THEN IF toolPolicy.mode = "allow" THEN "hold" ELSE "block"
         ELSE Decide(c.risk)
-----------------------------------------------------------------------------
(* Handlers.                                                               *)

\* Mutant: an event kind outside the vocabulary.
Record_Invoke(i, kind) ==
    trail' = [trail EXCEPT ![i] = [k \in DOMAIN @ \cup {"tool_invoke"} |->
        IF k = "tool_invoke" THEN 1 ELSE @[k]]]

Record(i, kind) == trail' = [trail EXCEPT ![i][kind] = @ + 1]
Handler(i, op, step) == [id |-> i, op |-> op, step |-> step]

\* ToolChallengeQueue: load, change, write a temporary file, rename it.
Push(i) == pending' = pending \cup {i} /\ held' = held \cup {i}
Pull(i) == pending' = pending \ {i}

\* invoke_tool refuses: one tool_invoke event.
Refuse(i, c) ==
    /\ work = Idle
    /\ req[i] = NoCall
    /\ Verdict(c) = "block"
    /\ req' = [req EXCEPT ![i] = c]
    /\ Record(i, "block")
    /\ UNCHANGED <<policies, pending, work, calls, held, crashes>>

\* Mutant: the challenge id is made from the request, so that a repeated request
\* has the id of a row that was decided before.
Enqueue_SameId(i, c) ==
    /\ work = Idle
    /\ req[i] \in {NoCall, c}
    /\ Verdict(c) = "hold"
    /\ req' = [req EXCEPT ![i] = c]
    /\ Push(i)
    /\ work' = Handler(i, "hold", "record")
    /\ UNCHANGED <<policies, calls, trail, crashes>>

\* invoke_tool writes the row first and its tool_invoke event afterwards.
Enqueue(i, c) ==
    /\ work = Idle
    /\ req[i] = NoCall
    /\ Verdict(c) = "hold"
    /\ req' = [req EXCEPT ![i] = c]
    /\ Push(i)
    /\ work' = Handler(i, "hold", "record")
    /\ UNCHANGED <<policies, calls, trail, crashes>>

Allow(i, c) ==
    /\ work = Idle
    /\ req[i] = NoCall
    /\ Verdict(c) = "allow"
    /\ req' = [req EXCEPT ![i] = c]
    /\ work' = Handler(i, "invoke", "call")
    /\ UNCHANGED <<policies, pending, calls, trail, held, crashes>>

\* Mutant: the row is removed before the backend runs.
Approve_RemovesFirst(i) ==
    /\ work = Idle
    /\ i \in pending
    /\ Admissible(req[i], rag)
    /\ trail[i]["approved"] < MaxApprovals
    /\ Record(i, "approved")
    /\ Pull(i)
    /\ work' = Handler(i, "approve", "call")
    /\ UNCHANGED <<policies, req, calls, held, crashes>>

\* approve_tool_challenge validates the caller frozen in the row against the
\* policies of now - app.state.policy, whatever file the tenant has.
Approve(i) ==
    /\ work = Idle
    /\ i \in pending
    /\ Admissible(req[i], rag)
    /\ trail[i]["approved"] < MaxApprovals
    /\ Record(i, "approved")
    /\ work' = Handler(i, "approve", "call")
    /\ UNCHANGED <<policies, req, pending, calls, held, crashes>>

\* It drops a row that no longer passes: 409 and no audit event.
DropStale(i) ==
    /\ work = Idle
    /\ i \in pending
    /\ ~Admissible(req[i], rag)
    /\ Pull(i)
    /\ UNCHANGED <<policies, req, work, calls, trail, held, crashes>>

\* Mutant: deny records and leaves the row.
Deny_KeepsRow(i) ==
    /\ work = Idle
    /\ i \in pending
    /\ work' = Handler(i, "deny", "record")
    /\ UNCHANGED <<policies, req, pending, calls, trail, held, crashes>>

\* deny_tool_challenge removes the row, then records.
Deny(i) ==
    /\ work = Idle
    /\ i \in pending
    /\ Pull(i)
    /\ work' = Handler(i, "deny", "record")
    /\ UNCHANGED <<policies, req, calls, trail, held, crashes>>

\* The handler that runs is at this step.
At(step) == work # Idle /\ work.step = step
GoTo(step) == work' = [work EXCEPT !.step = step]
More(f) == [f EXCEPT ![work.id] = @ + 1]
WorkBackend == EntryOf(req[work.id]).backend

\* _execute_backend with a local handler, which validates its arguments and runs;
\* a backend that does not exist fits nothing.
ExecuteLocal ==
    /\ At("call")
    /\ WorkBackend \notin Remote
    /\ IF WorkBackend \in req[work.id].fits
       THEN sent' = More(sent) /\ runs' = More(runs) /\ GoTo("allow")
       ELSE UNCHANGED <<sent, runs>> /\ GoTo("block")
    /\ UNCHANGED <<policies, req, pending, late, trail, held, crashes>>

\* With an MCP backend: no tools/call leaves the gateway, because the arguments, the
\* endpoint or the handshake fail ...
FailBeforeCall ==
    /\ At("call")
    /\ WorkBackend \in Remote
    /\ \E step \in {"block", "raise"} : GoTo(step)
    /\ UNCHANGED <<policies, req, pending, calls, trail, held, crashes>>

\* ... or it is posted, and the handler waits.
SendCall ==
    /\ At("call")
    /\ WorkBackend \in Remote
    /\ sent' = More(sent)
    /\ GoTo("wait")
    /\ UNCHANGED <<policies, req, pending, runs, late, trail, held, crashes>>

\* The server runs the tool while the gateway waits.
RunTool ==
    /\ At("wait")
    /\ runs' = More(runs)
    /\ GoTo("ran")
    /\ UNCHANGED <<policies, req, pending, sent, late, trail, held, crashes>>

\* The server refuses the call (McpShimError), or answers what json.loads raises on,
\* which nothing catches.
RefuseCall ==
    /\ At("wait")
    /\ \E step \in {"block", "raise"} : GoTo(step)
    /\ UNCHANGED <<policies, req, pending, calls, trail, held, crashes>>

\* Mutant: a call that timed out is sent once more.
TimeOut_SendsAgain ==
    /\ At("wait")
    /\ sent' = More(sent)
    /\ late' = More(late)
    /\ GoTo("wait")
    /\ UNCHANGED <<policies, req, pending, runs, trail, held, crashes>>

\* The post times out or loses its connection (McpShimError): nobody tells the server.
TimeOut ==
    /\ At("wait")
    /\ late' = More(late)
    /\ GoTo("block")
    /\ UNCHANGED <<policies, req, pending, sent, runs, trail, held, crashes>>

\* What the gateway makes of a call that ran: its result, a lost or unusable reply.
EndCall ==
    /\ At("ran")
    /\ \E step \in {"allow", "block", "raise"} : GoTo(step)
    /\ UNCHANGED <<policies, req, pending, calls, trail, held, crashes>>

\* The server gets to a call that nobody waits for.
LateRun(i) ==
    /\ late[i] > 0
    /\ late' = [late EXCEPT ![i] = @ - 1]
    /\ runs' = [runs EXCEPT ![i] = @ + 1]
    /\ UNCHANGED <<policies, req, pending, work, sent, trail, held, crashes>>

\* _finalize records the result; approve goes on to remove the row.
Finalize ==
    /\ work # Idle
    /\ work.step \in {"allow", "block"}
    /\ Record(work.id, work.step)
    /\ work' = IF work.op = "approve" THEN [work EXCEPT !.step = "remove"] ELSE Idle
    /\ UNCHANGED <<policies, req, pending, calls, held, crashes>>

RemoveRow ==
    /\ work # Idle
    /\ work.step = "remove"
    /\ Pull(work.id)
    /\ work' = Idle
    /\ UNCHANGED <<policies, req, calls, trail, held, crashes>>

\* The last event of a held or a denied invocation.
RecordLast ==
    /\ work # Idle
    /\ work.step = "record"
    /\ Record(work.id, IF work.op = "hold" THEN "challenge" ELSE "denied")
    /\ work' = Idle
    /\ UNCHANGED <<policies, req, pending, calls, held, crashes>>

\* The exception leaves the handler: 500 to a caller, 409 to an operator.
Raise ==
    /\ work # Idle
    /\ work.step = "raise"
    /\ work' = Idle
    /\ UNCHANGED <<policies, req, pending, calls, trail, held, crashes>>

\* reload-policy sets the policy first; the tool policy follows unless its file
\* is not valid, which answers 400 with the policy already swapped.
ReloadPolicy ==
    /\ work = Idle
    /\ rag' \in Rags
    /\ toolPolicy' \in ToolPolicies
    /\ UNCHANGED <<tenantRag, req, pending, work, calls, trail, held, crashes>>

\* The tenant's file is read at every use: no reload.
EditTenantPolicy ==
    /\ tenantRag' \in Rags \cup {NoRag}
    /\ UNCHANGED <<toolPolicy, rag, req, pending, work, calls, trail, held, crashes>>

\* The process ends, and with it whoever waits for a server, and is started again.
Restart ==
    /\ crashes < MaxCrashes
    /\ crashes' = crashes + 1
    /\ work' = Idle
    /\ late' = IF At("wait") THEN More(late) ELSE late
    /\ rag' \in Rags
    /\ toolPolicy' \in ToolPolicies
    /\ UNCHANGED <<tenantRag, req, pending, sent, runs, trail, held>>
-----------------------------------------------------------------------------
Init ==
    /\ toolPolicy \in ToolPolicies
    /\ rag \in Rags
    /\ tenantRag \in Rags \cup {NoRag}
    /\ req = [i \in Ids |-> NoCall]
    /\ pending = {}
    /\ work = Idle
    /\ sent = [i \in Ids |-> 0]
    /\ runs = [i \in Ids |-> 0]
    /\ late = [i \in Ids |-> 0]
    /\ trail = [i \in Ids |-> [k \in Kinds |-> 0]]
    /\ held = {}
    /\ crashes = 0

Next ==
    \/ \E i \in Ids, c \in Calls : Refuse(i, c) \/ Enqueue(i, c) \/ Allow(i, c)
    \/ \E i \in Ids : Approve(i) \/ DropStale(i) \/ Deny(i)
    \/ ExecuteLocal \/ FailBeforeCall \/ SendCall
    \/ RunTool \/ RefuseCall \/ TimeOut \/ EndCall
    \/ \E i \in Ids : LateRun(i)
    \/ Finalize \/ RemoveRow \/ RecordLast \/ Raise
    \/ ReloadPolicy \/ EditTenantPolicy \/ Restart

Spec == Init /\ [][Next]_vars
-----------------------------------------------------------------------------
(* Properties.                                                             *)

\* Every variable has its type.
TypeOK ==
    /\ toolPolicy \in ToolPolicies
    /\ rag \in Rags
    /\ tenantRag \in Rags \cup {NoRag}
    /\ req \in [Ids -> Calls \cup {NoCall}]
    /\ pending \subseteq Ids
    /\ work \in [id : Ids, op : Ops, step : Steps] \cup {Idle}
    /\ sent \in [Ids -> Nat]
    /\ runs \in [Ids -> Nat]
    /\ late \in [Ids -> Nat]
    /\ trail \in [Ids -> [Kinds -> Nat]]
    /\ held \subseteq Ids
    /\ crashes \in 0..MaxCrashes

\* The backend does the work of a held invocation at most once per recorded approval,
\* and that of one that was not held at most once - across crashes, retries, reloads
\* and servers that run late.  With the next one a part of ImplementsTickets, which
\* the run checks; both are theorems.
RunsAreApproved ==
    \A i \in Ids : runs[i] <= IF i \in held THEN trail[i]["approved"] ELSE 1

\* Once an invocation has left the queue - denied, dropped or approved - no later
\* step hands it to a backend, whatever an operator does and wherever the process
\* stops.  A server that already has it may still run it.
ResolvedIsNotSent ==
    [][\A i \in held \ pending : sent'[i] = sent[i]]_vars

\* When a call goes to a backend, the tool policy in force names the tool and lists a
\* group of the caller; a call that no operator saw passed the argument checks too.
CallsAreAuthorised ==
    [][\A i \in Ids : sent'[i] # sent[i] =>
        /\ EntryOf(req[i]) # NoTool
        /\ req[i].groups \cap EntryOf(req[i]).groups # {}
        /\ i \notin held => ArgumentsPass(req[i]) /\ req[i].risk < toolPolicy.challenge]_vars

\* A row leaves the queue because it was denied, because its run was reported, or
\* because the caller may no longer use the tool.
RowsLeaveDecided ==
    [][\A i \in pending \ pending' :
        \/ work' # Idle /\ work'.op = "deny"
        \/ work # Idle /\ trail[i]["approved"] > 0 /\ trail[i]["allow"] + trail[i]["block"] > 0
        \/ ~Admissible(req[i], rag)]_vars

\* Between requests the queue holds only undecided invocations: a row was not
\* denied and, unless the process died in the middle of an approval, not reported.
QueueMatchesTrail ==
    work = Idle => \A i \in pending :
        /\ req[i] # NoCall /\ trail[i]["denied"] = 0
        /\ crashes = 0 => trail[i]["allow"] = 0 /\ trail[i]["block"] = 0

\* Where an invocation stands, for those who wait for it or decide about it.
TicketOf(i) ==
    IF req[i] = NoCall THEN "new"
    ELSE IF i \in pending THEN "held"
    ELSE IF i \notin held /\ work # Idle /\ work.id = i THEN "running"
    ELSE "closed"

Tickets == INSTANCE ToolTickets WITH
    state <- [i \in Ids |-> TicketOf(i)],
    approvals <- [i \in Ids |-> trail[i]["approved"]]

\* Step by step, through handlers that stop anywhere, restarts, reloads and servers
\* that run late, an invocation goes the way that ToolTickets allows: it is asked for
\* once, a refused, answered, cut-off or decided one is closed and not sent again, and
\* every run is of a call that was sent, each of them on an approval of its own.
ImplementsTickets == Tickets!TicketSpec

\* challenge_queue.py: "Approve (run backend once)"; stated of a process that is
\* never restarted.
BackendRunsOnce == crashes = 0 => \A i \in Ids : runs[i] <= 1

=============================================================================
