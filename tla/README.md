# RAG protection proxy: a TLA+ model of its core

The proxy (`src/rag-protection-proxy/rag_protection_proxy/`) stands between the
users of a retrieval-augmented assistant and its documents, its LLM endpoints
and its tools. These modules model what decides which text leaves the company
and what is remembered about it: the query pipeline over the document stores,
who a token stands for, the extraction monitor, the tool gateway with its
approval queue and its MCP client, the policy file, and the audit log from the
call that records an event to the page an operator reads. TLC checks them on
small instances, TLAPS proves nearly all of their invariants for every value of the
constants.

Paths below are relative to that package unless they start with `src/`.

## 1. Inventory

One FastAPI process runs all of it. Every route handler that matters here runs
on one event loop; FastAPI moves only synchronous dependencies (authentication)
and synchronous routes to worker threads. A handler therefore is atomic between
two `await`s, and what makes the system hard is narrower than "concurrency":

- `await llm.chat(...)` in the middle of a query, the one suspension point of
  the pipeline, and the worker thread that resolves the caller before it;
- process death between two writes to disk;
- replies of other programs (LLM, MCP server, Qdrant, webhook receivers);
- policy files that change under a request, and the clock.

| Component | State | Operations | Hard behaviour |
|---|---|---|---|
| Query pipeline (`pipeline.py`, `app.py`) | none of its own; private copies of groups, policy, chunks and endpoint while it waits | `POST /v1/query`; ten ways to end | everything it captured can be stale after the await; every exit owes the trail a cause and one `query_completed` |
| SQLite document store (`store.py`) | tables `documents`, `chunks` | ingest, delete, search, `set_document_status`, `update_document_acl` | two tables joined at search; a re-ingest with fewer chunks |
| ACL resolution (`acl.py`) | `app.state.acl`, the SCIM cache | groups and tenant of a caller, `user_can_access_document` | an empty list denies, public groups admit everybody; three kinds of tokens, two sources of groups |
| Admin authorization (`admin_auth.py`) | none | roles and tenant scope of an operator, three tenant checks | the routes ask the same question in three ways |
| Risk scoring, scan pipelines (`guardrails/`) | none | scan a query, a chunk, a document, an answer; threshold and challenge mode | eight scanners in an order of their own for inputs and outputs; a rounded sum of floats against a threshold; PII may raise to a challenge and never blocks |
| Canary tripwire (`guardrails/canary.py`) | rows with a token; the hit of the query | seed, retire, inspect, contain, backstop | which later stages know of a canary |
| LLM routing (`llm_routing.py`, `llm.py`) | none | rank labels, choose an endpoint, call it | fail-closed paths; a reply that is not JSON |
| Extraction monitor (`guardrails/extraction.py`) | sliding window per tenant and user | observe, classify, watch | ratios, a window and a corpus that all move; operators prune the windows too |
| Tool gateway (`tools_gateway/router.py`, `registry.py`, `policy.py`) | `app.state.tool_policy` | invoke, hold, approve, deny | decisions are taken again, later, on a frozen request |
| Challenge queue (`tools_gateway/challenge_queue.py`) | `tool_challenges.json` | enqueue, remove, list | outlives the process; removed after the backend ran |
| Tool backends, MCP client (`tools_gateway/backends/`) | `_session_id`, `_initialized` | handshake, run a tool | ran or not or not yet, and told so or not; a handshake in two requests |
| Audit log (`audit.py`) | active file, rotation marker, backups, buffer, counters | record, rotate, retain, strip, warm start, export | several files, several writes, one clock |
| Hash chain (`audit_integrity.py`) | tip in memory, hashes in the lines | append, rechain, verify, re-anchor | every rewrite of the file has to move the tip |
| Policy configuration (`config.py`) | `policy.yaml`, backups | load, reload; knob update and restore, which no route here calls | the file, its backup and the loaded copy differ |
| Tenant stores (`tenant_store.py`) | one store per tenant | build, seed samples | seeding again at every start, and not after a failure |
| Vector and hybrid store (`vector_store.py`, `store.py`) | a Qdrant collection shared by replicas | delete + upsert, scroll + write back | multi-request updates |
| Webhooks, sampling (`audit.py`) | daemon threads, dead letters, counters | drop, deliver, retry, give up | reordering, duplication, process exit |
| Audit views (`audit.py`) | none | pages, chart, counters | a list that is built anew for each page and shrinks meanwhile |
| Offline writer (`src/tools/acl_backfill`) | plan and listing of one run | list, plan, list again, update | a second writer of the collection with an outdated listing |

How they interact. The routes call the pipeline and the store directly; the
pipeline calls the scanners, the tripwire, the extraction monitor, the router
and the LLM client in a fixed order and records audit events after each
decision. The tool gateway reads the same policy for its injection rules and
records to the same audit log. `reload-policy` swaps policy, ACL, tool policy
and audit policy one after another, and stops at the first that is invalid.
The audit log never calls back.

What makes each component correct:

- **Query**: a chunk is in a prompt only if it passed access, quarantine,
  tripwire and scan of the policy the handler captured; an answer goes out only
  after citation and output scan; the endpoint fits the most sensitive chunk;
  the trail agrees with the response.
- **Store**: a row never joins another version's metadata; an ingested version
  does not vanish without a trace unless it was ingested as a canary; a canary
  leaves through its own route.
- **Scoring**: a finding only hardens what earlier ones came to; what blocks has a
  cause among the findings that may block.
- **Tools**: no call is sent without authority in force at that moment, no held
  one without an approval, none after a decision; a run is of a call that was
  sent, though a server may run one late that timed out; no row lost.
- **Access**: groups come from the token, the file or the directory, and from
  inheritance, from nowhere else; the tenant checks agree.
- **Extraction**: a subject is judged by its own recent retrievals, not by those of
  other subjects, as far back as the rules of its tenant and a look of an operator
  under a shorter window have left them.
- **MCP client**: a call runs at most once, ends, and travels only in a session
  that is ready.
- **Policy file**: a refusal restores, what is overwritten can be restored, the
  file holds a policy that somebody was given, and no half-written file becomes
  the policy unnoticed.
- **Audit**: nothing leaves the disk before the time that the loaded policy file
  gives it, through any crash but one in the middle of a rewrite; the
  chain in memory extends the file; exports hold nothing expired; the
  recent-events view covers the file's tail; each event is sampled out,
  delivered, dead-lettered or cut off with the process; a walk over the pages
  misses nothing that stayed; charts add up.

Everything here that is hard to test is listed line by line under `hazards` in
`PROJECT.json`.

## 2. Modules

| Module | Models | Composed with |
|---|---|---|
| `RiskScoring` | `aggregate_risk` and the decisions of `scan_input`, `scan_output` | used by `QueryGateway`, whose constant `Profiles` is what it gives |
| `QueryGateway` | pipeline, SQLite store, tripwire, routing, document routes | |
| `ToolTickets` | what the gateway promises of an invocation: the abstract specification | |
| `ToolGateway` | tool routes, challenge queue, backend calls and the servers that run them, late ones included | implements `ToolTickets`: `Tickets == INSTANCE ToolTickets WITH ...`; `McpSession` has the client and its session in detail |
| `BackendCall` | what the gateway may rely on of a call: the abstract specification | |
| `McpSession` | the MCP client over HTTP and an external server | implements `BackendCall`: `Backend == INSTANCE BackendCall WITH ...` |
| `AuditLog` | record, rotation, retention, chain, reload, restart | |
| `AuditDelivery` | sampling, webhook threads, dead letters | |
| `AuditViews` | pages, chart and counters of the audit routes | |
| `PolicyFiles` | `policy.yaml`: start, reload, knob updates, backups, restores | |
| `DocumentStores` | Qdrant and hybrid store, searches, listings, traces, seeding, `acl_backfill` | |
| `ExtractionMonitor` | windows, score, watch list | |
| `Access` | tokens: callers, operators, guards, ACL file | |
| `OperatorViews` | the routes that feed and read the monitor | `Access` in front of `ExtractionMonitor` |
| `MC*` | small instances for TLC | |
| `*Proofs` | theorems, one module per component with a `Spec` of its own, one for `AuditDelivery` and `AuditViews` | section 5 |

### QueryGateway

`documents` and `chunks` are the two SQLite tables; `gen` numbers every write so
that each version of a document can be told apart. A query slot goes through
`pc`: `idle`, `authenticated` (`Authenticate`: the dependency ran in its worker
thread), `awaiting` (`CallLLM`), `done` or `failed`. Each early return of
`run_query` is an action of its own (`RateLimited`, `QueryBlocked`,
`ExtractionStop`, `NothingFound`, `AllChunksBlocked`, `RouteBlocked`), and
`Finish` is everything after the await. `auth`, `pol`, `context`, `hit` and
`route` are the handler's local variables, which is the point: `StoreNext` and
`ReloadPolicy` go on underneath.

Abstracted: text. A body is a record of what the scanners would find in it
(`hard`: injection, secrets, URLs; `all`: PII as well), its class, and for each
chunk its profile and the canary tokens it quotes. `search` may return any set
of at most `TopK` visible chunks; the ranking matters to no property. The
extraction monitor may report any severity the policy can produce. The LLM may
say anything, and may repeat tokens it saw. `Policies` and `Acls` are sets of
whole files; `ReloadPolicy` picks one, as an operator who edits the file and
reloads does. A tenant with a `policy_file` reads it again at every request,
which the same action covers.

`Ingest` may flag its document as a canary, because the metadata of the request
is stored as it is (`app.py:339`-`353`). Retrieval then trips on it, a delete is
refused, and `RetireCanary` removes it without an event; `RemovalsAccounted` names
that exception, and it holds of one process: the samples that a new process
ingests again are `DocumentStores`' subject.

Not in it: a token that the metadata of an ingest may bring along (no text
quotes one that was not minted), the read-only routes, and more than one query in
the run (queries share no state but the extraction window, which is already
arbitrary).

### RiskScoring

Operators only. A text is the sequence of what the scanners find in it; `Texts` are
the texts of an instance. Severities and thresholds are in thousandths.
`aggregate_risk` rounds a sum of floats to two decimals, and sums that are equal on
paper round apart: 0.705 + 0.1 gives 0.8, 0.805 gives 0.81. `HalvesUp` holds the
pairs that go up; the instance has those that Python's floats make, the theorems
hold for any.

What `QueryGateway` assumes of its profiles, `hard` at most `all`, is the theorem
`ProfilesFit`; the profiles of its instance are those of three texts.

### ToolGateway

The handlers are synchronous, backend call included, so at most one runs:
`work` says which and how far. What comes between two of its steps is
`Restart`. `pending` is the queue file (a save renames a temporary file over it,
one step), `req` the frozen request, `trail` counts audit events per kind,
`sent` the calls handed to a backend, `runs` how often the backend did the work.

A local backend validates its arguments and runs (`ExecuteLocal`). With an MCP
backend nothing may leave the gateway (`FailBeforeCall`: arguments, endpoint,
handshake), or `SendCall` posts `tools/call` and the handler waits. Then the server
refuses (`RefuseCall`) or runs the tool (`RunTool`), and the handler makes of the
reply what it can (`EndCall`: a result, an error, something `json.loads` raises on),
or gives up (`TimeOut`). Nobody tells the server about the last, nor about a restart
of the gateway: the call is `late`, and `LateRun` may run it at any later time, after
its row was removed too. What the gateway can promise is therefore said of `sent`,
and of `runs` only that each is of a call that was sent.

`ToolTickets` knows nothing of handlers, rows or events: an invocation is new,
running, held or closed, and counts its approvals, the calls sent and their runs.
`Send` needs a running invocation that was not sent, or a held one with an approval
that is not used up; `Run` needs only a call that was sent and has not run.
`TicketOf` maps to it: an invocation without a request is new, one with a row is
held, one without a row whose direct call is under way is running, any other is
closed; its approvals are the `tool_challenge_approved` events. So whatever handlers,
restarts, reloads and late servers do, the gateway takes the ticket along a step that
`ToolTickets` has.

Kept from the code because they surprise: approval checks the registry, the
description and the group again, and not the patterns, domains and size; it uses
the global policy where `invoke` uses the tenant's; a stale row is dropped with
409 and no audit event; `audit_only` blocks a challenge here.

Not in it: a queue file damaged by hand (it reads as empty), the read-only list
of tools, the console's editor.

### AuditLog

`todo` is the list of steps the running handler still has to take, each with at
most one write to disk; `Restart` may come between any two. `active` is
`audit.jsonl`, `marker` the `.rotation` file, `backups` the two families of
backup files, `tip` and `buffer` what memory holds. A hash is modelled by what
it covers, the sequence of bodies since the genesis hash, so that two hashes
are equal exactly when the histories are. `Rewrite` truncates and `Fill`
writes: `write_text` is not atomic.

Start-up is spelled out (`Startup`): `configure_audit` runs rotation, retention
and warm start under the module's built-in policy, then the policy file is
synced, then the buffer is filled again. `Starting` is that time. `EventsLeaveByAge`
judges a backup by the days of the policy file last loaded, and names start-up as a
gap, because the pruning there knows seven days only.

Observers: `stamp` (when an event was written), `cut` (a rotation came between
the chain fields of a record and its write, or lines were rewritten with the
chain off; cleared by the reload that mends it), `crashes`.

Not in it: sampling and webhooks (`AuditDelivery`), what the routes make of the
events (`AuditViews`), failed writes (`OSError`), the `.chain` side file (never read
by the program),
`RAG_AUDIT_BACKUP_KEEP`, tampering with the files, and a clock that moves
inside a handler except under `record()`, where it matters.

### DocumentStores

`points` is the Qdrant collection of one tenant, `rows` the SQLite store in
front of it (`Hybrid`). A write is a `Job` of its worker, a proxy process or a
run of `acl_backfill`, and each request to Qdrant is an action: `Clear` and
`Upsert` for an ingest, `Scroll` and `WritePage`, page by page, for the others.
The handlers are synchronous, so a process has one job; several processes and
tools interleave request by request. A request may be lost, or done and its
answer lost (`Raise`): the handler ends there. `seed` holds the samples a
process has still to ingest before the store is in use; a failure empties it,
because `for_tenant` has registered the store by then. `Restart` fills it again.

A version is a number (`gen`; 0 is the sample), and a point says of which
version it is, its groups, and its status twice: searches filter on
`payload.status`, listings and traces on the metadata. A run of `acl_backfill`
lists the documents, plans (`PlanBackfill`), lists them again (`ListBackfill`)
and updates one after the other (`SkipUnchanged`, `Backfill`); `listed` is what
it remembers meanwhile. `Patched` keeps what surprises in it: it writes the
metadata of the first point of a page over all of it, and over that the status
of its listing, however old.

Searches, traces and listings change nothing and are operators over the state:
`Found`, `Outcome`, `ListDocuments`, `ListQuarantined`. Every chunk matches a
query and `top_k` holds them all, so a property of what is found speaks of every
query at once. A listing is read as one request.

Observers: `want` is what the last answered writes promised. A write takes its
field back when it begins and promises it when it ends, unless another write of
the same document ran at the same time. `open` and `granted` say which versions
somebody made searchable, and under which groups somebody put them; an update
under way when a version is created may reach it, and counts.

Not in it: a request that Qdrant carries out after the client gave up on it, the
creation of collection and indexes, embeddings and the ranking of a search, and
the rule that a canary is deleted by its own route (that is `QueryGateway`'s).
`set_document_status` and `update_document_acl` are called by the enterprise
package and are here as operations the store offers to any process.

### PolicyFiles

A text is what each knob holds; `Empty` is the file that `write_text` leaves
between truncating and writing, and a valid policy. One handler runs at a time
(`work`), and each of its steps does one thing to the disk: `OpenBackup`,
`CopyBackup` (with the pruning), `PrepareUpdate` or `PrepareRestore`, `Truncate`,
`Fill`, `LoadWritten`. Start and reload are routes of this repository.
`update_policy_knobs` and `restore_policy_from_backup` are not called by any: they are
offered to the enterprise package (without it the route that would update answers 404,
`src/rag-protection-proxy/tests/test_ce_ee_seams.py:90`). The functions are
modelled as far as they go: they write the file and return the policy they
loaded from it (`returned`); what their caller does with it is not assumed, and
`LoadWritten` leaves `loaded` and `audit` alone.

A value loads, raises `PolicyValidationError`, raises
something else (`float("high")`), or, for a pattern near the time limit of the
probe, either of the first two at each load. Only `PolicyValidationError` rolls
back. `Crash` may come between any two steps, `BackupFails`, `Unwritable` and
`DiskFull` fail a write, `EditByHand` replaces the file, `ToolsInvalid` stops a
reload between the policy and the audit policy.

Observers: `replaced` (what handlers truncated away, and in which backup it
is), `authored` (texts somebody meant), `torn` (a write was cut short), `drift`
(the file was changed and nobody was given what it says) and `split` (a reload
stopped between the policy and the audit policy).

What the model shows and no property forbids: an error other than
`PolicyValidationError` is not rolled back, so the file holds a value that the
next start refuses; a crash or a full disk in the middle of a write leaves an
empty file that loads as a policy of defaults; `ensure_writable_policy_file`
copies the shipped file in the same way; restoring the oldest backup prunes that
backup first and then answers that there is none; a reload with an invalid tool
policy has swapped the policy already.

### ExtractionMonitor, Access, OperatorViews

`windows` holds the retrievals of each subject, oldest first. `Observe` appends,
prunes and scores under the rules of the tenant, `Watch` prunes all windows
under the global rules and lists the offenders; both hold the monitor's lock and
are one step. `Access` translates the resolution of tokens: `ResolveAuth`,
`ResolveAdmin`, the guard `MayAct`, the three tenant checks, `LoadAcl`. Whether
a signature verifies is part of the token record. `OperatorViews` puts the
tokens in front of the monitor: `Query`, `Look`, `ReloadPolicy`, `PollScim`.

Observers: `past` (all retrievals) and `floor` (how far back a window was
pruned): a look of an operator under a shorter global window does drop entries
that a tenant's longer window would still count, and the properties claim the
score only for what no shorter window has dropped.

### McpSession, BackendCall

`client` is what a process remembers of its session, `current` the request it
waits for, `net` the requests on their way: one that was given up may still
arrive. `Invoke` sends `tools/call` or begins the handshake (`OpenSession`,
`CompleteHandshake`); `TimeOut` and `Refuse` end the call and leave the client
as it is, but for the session that an unusable answer to `initialize` names. The server is external: it opens sessions, runs calls in those whose
handshake is complete, forgets all of them when it restarts. The client is not
initialised again then, so calls fail until the gateway restarts.
`BackendCall` is the promise the tool gateway builds on: a call runs at most
once, one that returned has run, every call ends. `Backend` substitutes the
client's `state` and `ran` for its variables and forgets sessions, requests and
answers. `CallSafety` is its safety half, which is proved, and `CallSpec` adds
the fairness.

### AuditDelivery, AuditViews

`AuditDelivery` follows an event by its id: `Record` counts and drops it or
starts its thread, `Post` is one attempt (lost, arrived, arrived and answered),
`DeadLetter` the end after the last one. The threads are daemons: `Restart`, an
orderly stop included, ends them without a trace.

`AuditViews` has the trail as a sequence and applies the retention of each kind
at every read, as the routes do. A client walks the pages (`OpenPages`,
`ReadPage`, `ClosePages`) while queries record their cause and their end
(`Refuse`, `Complete`) and time goes on. `Series` and `QueriesBlocked` are the
chart and the counter of refused queries.

## 3. Runs

All runs use `CHECK_DEADLOCK FALSE`: with every bounded slot used up the
modelled process rests.

| Run | Instance | Shows |
|---|---|---|
| `query_gateway` | 1 query, 2 documents, 1 canary, 2 users, 2 ACLs, a strict and a lax policy, `MaxGen` 2, `TopK` 2; documents symmetric; 1.2 M states | `OneVersion`, `ContextGated`, `NoRetiredEvidence`, `AnswerGated`, `RoutedByMostSensitive`, `AuditMatchesOutcome`, `RemovalsAccounted`; over the 91 texts of up to 2 of 9 findings, `FindingsOnlyHarden` and `BlocksHaveCause` |
| `tool_gateway` | 2 invocations of 4 kinds, 2 tools, 3 tool policies, 2 rule sets, 2 approvals each, 1 crash, calls that run late; invocations symmetric; 1.3 M states | `CallsAreAuthorised`, `RowsLeaveDecided`, `QueueMatchesTrail`, `ImplementsTickets` (and with it `RunsAreApproved` and `ResolvedIsNotSent`) |
| `audit_log` | 3 events, two of which may come from an older release in any order, ticks of half a day over two days, retention every 2 records, 1 crash, 2 policies; 2.3 M states | `EventsLeaveByAge`, `ChainSound`, `ExportsAreFresh`, `RecentCoversFile` |
| `hybrid_store` | SQLite and Qdrant, 1 process, 1 run of `acl_backfill`, 1 document that is also a sample, 2 ACLs, up to 2 chunks in pages of 1, 1 version, 1 fault, 1 restart; 1.2 M states | `PromisesKept` |
| `vector_store` | Qdrant alone, 2 processes, the same document, no faults, fairness; 320 k states | `ReachIsGranted`, `WritesEnd` |
| `policy_files` | 3 knobs, one of them a pattern, 5 kinds of updates, 2 hand edits, 2 of 3 backups kept, 5 operations, 1 fault, 1 crash; 1.8 M states | `RefusalRestores`, `ReplacedTextsAreKept`, `FileIsAccounted`, `RunsWhatWasWritten` |
| `operator_views` | 2 tenants, 2 users, 4 tokens of the 3 kinds, 2 ACL files, 2 rule sets, windows of 2, 3 queries over 3 ticks, 1 change of the world; 415 k states | `JudgedByRecent`, `WatchListIsRecent`, `TenantChecksAgree`, `GroupsAreInherited` |
| `audit_delivery` | 3 events of 4 shapes, 3 rule sets, 2 attempts, 1 reload, 1 restart, fairness; 58 k states | `EventsAccountedFor`, `EventuallySettled` |
| `audit_views` | 3 queries of 2 tenants over 3 ticks, pages of 2, bars of 2 ticks, a cap of 3 events, one kind kept a tick longer; tenants symmetric; 631 k states | `PagesMissNothing`, `ChartsAddUp` |
| `mcp_session` | 3 invocations, 1 restart of each side, fairness; 78 k states | `CallsAreInReadySessions`, `ImplementsBackendCall` |
| `backend_runs_once` | as `tool_gateway`, no crash | an approved row may run twice (finding) |
| `chain_verifies` | one chained policy, no crash | the first line of a new day breaks the chain (finding) |

Why the bounds are enough. *Query*: two document writes let a version be
replaced or a canary and an ordinary document coexist, and `TopK` 2 lets both
reach one query; two policies and two ACLs suffice for every captured value to
differ from the current one. *Tools*: two approvals show a repeated one, the
crash may cut off either of them, both calls may run late, and two invocations show
that a handler touches no row but its own; the theorems hold for any numbers. *Audit*: `PruneEvery` and `BufferSize` 2 make both
limits bite with three events; three days let an event be rotated, pruned and
swept. *Stores*: pages of one point make a document of two chunks a multi-page
one, and the order of the points is not that of the chunks; two writers are what
a race takes, and two versions let a shorter one replace a longer one under a
scroll. Two documents would show nothing more: no request names points of
another document. Each run has two writers, which is what a race takes: a process
and the tool with its outdated listing, or two processes; the theorems
`ReachGranted` and `AnsweredWritesHold` cover any number of both, with faults and
restarts. *Policy file*:
two kept backups of three made let one be pruned while it is being restored; five
operations let an update, its restore, a reload and a restart follow each other,
with one failure and one crash anywhere between. *Extraction*: two entries per
window make the limit bite with three queries, three ticks make entries expire
under the short rules and not under the long ones. *Views*: a cap of three cuts events off, and with pages
of two it is not a multiple of the page, so that cap and offset do not shift
alike when something expires; with two ticks to a bar a window can begin and end
inside of one. *Scoring*: two texts of two findings
make four, enough for both steps of the bump, and for a text whose findings may or
may not block; the severities include two sums of 0.805 that round apart and a
threshold between them. *Delivery*: two attempts
allow every mix of lost requests and lost answers, three events a rule that
keeps one of three. *MCP*: the first call makes the handshake, the second uses the
session, the third meets what a restart left.

The findings, with the lines they quote, are in `PROJECT.json`: a malformed MCP
reply leaves the approved row in the queue (`tools_gateway/router.py:321`), and the
chain fields of a record are computed before the rotation that should precede them
(`audit.py:245`).

### Divergences seen, not kept as runs

The models show these too: the behaviour is in them, without a run that ends in
a violation.

- A score is rounded before it meets the threshold
  (`guardrails/risk_scoring.py:24`), so that a finding of 0.796 blocks at 0.8; the
  formula in `src/docs/ce/security/DETECTION_OVERVIEW.md` has no rounding.
- The output backstop knows only the token of the canary that its own query
  retrieved (`pipeline.py:548`); `config.py:367` says "Also scan the final
  answer for registered canary tokens".
- An ingest may carry the canary flag in its metadata (`app.py:339`-`353`); the trail
  has it as an ordinary `ingest_completed`, and `POST /admin/canary/retire` removes the
  document without an event (`app.py:668`-`683`).
- A `tools/call` that timed out is reported as blocked and its row is removed
  (`tools_gateway/backends/mcp_shim.py:62`, `tools_gateway/router.py:330`), and the
  server may still run it then.
- A direct call whose MCP reply is not JSON ends without its event
  (`tools_gateway/router.py:389`); `src/docs/ce/features/07-tool-gateway.md:74`
  says "Every step writes one `tool_invoke` audit event (including blocks)."
- Start-up prunes the audit backups under the built-in seven days before it has
  read `backup_keep_days` (`app.py:120`);
  `src/docs/ce/security/P2_PERSISTENT_AUDIT.md:89` promises N days.
  `EventsLeaveByAge` names this as a gap.
- Every process ingests the samples again, whatever the store holds
  (`tenant_store.py:37`); `src/docs/shared/architecture.md:322` says "loaded
  only when DB is empty".
- The watch route prunes every tenant's windows for good under the global
  `window_seconds` (`guardrails/extraction.py`), so that a look can shorten what
  a tenant with a longer window is judged by.
- `acl_backfill` writes the metadata of its listing back with the groups
  (`src/tools/acl_backfill/backfill.py:277`), so a status that changed since the
  listing is undone in the listings and not in the searches, whereas its README
  speaks of patching the payload only (`src/tools/acl_backfill/README.md:73`).

## 4. Fairness

Safety properties need none. `WritesEnd` assumes weak fairness of
`Request(w)`, for each worker: the handler calls the client synchronously and
does nothing else, and every call returns or raises, since the client library
has a timeout. Nothing is assumed of beginning a write, of failures or of
restarts. `EventuallySettled` assumes weak fairness of each thread's attempt and
of its dead letter: a thread runs until it ends, and `httpx` gives each attempt
five seconds. `ImplementsBackendCall` assumes it of `TimeOut` alone: the client
gives up by itself, whatever the network and the server do; nothing is assumed of
them. In the other components nothing waits for another actor, except a query
for its LLM, whose timeout is the client library's.

## 5. Proofs

TLAPS checks, for every value of the constants that meets the named
assumptions of the modules:

- `QueryGatewayProofs`: `TypeCorrect`, `VersionsConsistent`, `ContextIsGated`,
  `EvidenceIsFresh`, `AnswerIsGated`, `RouteFollowsSensitivity`. `OneVersion` is
  inductive together with `TypeOK`, which bounds every row's `gen` by the
  counter. For a query the invariant says, per program point, what its captured
  context, evidence, answer and route already satisfy of the policy it captured.
  `NoRetiredEvidence` needs that versions never come back: `goneAt` only grows,
  because `gen` does.
  `CanariesAreNotDeleted`, `RemovalsAreAccounted`, `TrailMatchesOutcome` are about
  the trail. The invariant of the store's trail: an ingested version
  is a canary only if its ingest said so, a canary id that was not minted has no row,
  and events name versions up to `gen`. That of a query's: its log is the events it
  has passed so far, and once it has ended, the events that explain its outcome and
  `query_completed`.
  `FindingsHarden` and `BlocksAreCaused` say of every policy a reload may put in force
  what `PoliciesHarden` and `PoliciesAccount` show of the operators of `RiskScoring`.
  `ScoreGrows` says that a score is monotone in severity and bump although equal
  sums may round apart: they are equal and not the same only if one summand is
  less. From it and from the worst of a set of findings (`WorstIs`) follows that a
  score grows with the findings (`RiskGrows`), and from how near a score is to its
  sum (`ScoreIsNear`) that a score has a cause (`RiskHasCause`).
- `ToolGatewayProofs`: `TypeCorrect`, `ApprovalsBoundRuns`, `QueueIsUndecided`,
  `ResolutionIsFinal`, `CallsHaveAuthority`, `RowsAreNeverLost`. The invariant
  `ToolInv` adds to the properties what the running handler may assume
  (`HandlerOK`): its request is there, an approval's row is still queued, its
  approval is already on the trail and, until its call is sent, the policy it was
  admitted under is still in force, because no other handler runs before it ends; and
  that every call sent had leave of its own (`SendsOK`). `RunsOK` says that runs and
  late calls together are no more than were sent, one less while a handler waits.
  `InvocationsAreTickets` states `ImplementsTickets`, the refinement: a step takes
  one ticket along a step of `ToolTickets` or leaves all of them as they are. It has
  a lemma per kind of step (`RequestsAsk`, `OperatorDecides`, `BackendMovesTicket`,
  `LateRunsTicket`, `HandlerEnds`, `HandlerMoves`), and needs `ToolInv` to know that a
  running handler's row is still there and that an approval was counted before its call.
- `AuditLogProofs`: `TypeCorrect`, with `Plan`, the shape of the list of steps:
  `append` is its last and has a line, `fill` comes first or right after
  `prune`. `EventsAreKept` and `ReadersSeeFresh` come from `Filling`
  (lines are out of the file only between truncation and write), `Stamps` (a
  backup is as young as its youngest row), `Copies` (what `clear` and `prune`
  are about to drop is in a backup), `Origin` (the policy in force was read from the
  policy file, or start-up is about to read it), and `Reads` (what a reader's list of steps
  has left to do tells what is already fresh). For `ChainIsSound` the lemmas say
  what a hash is a hash of:
  rechaining any lines gives a valid chain, appending a line that extends a
  valid chain keeps it valid. The invariant `Chain` follows the tip through a
  record, where it belongs to a line not written yet, and through a rewrite,
  where it belongs to lines not in the file yet. `RecentMissesNothing` states
  `RecentCoversFile`: `Times` says that file and buffer are in the order of time
  and agree on when an event happened, `Covers` that outside of a restart a line is
  buffered or more events than the buffer holds are as late, the one of a record
  under way included, and `Trims` that the buffer is trimmed only when the file
  holds nothing expired, under the same clock and policy. The work is in
  `LastCovers`: what the last n of an ordered sequence leave out is followed by n
  different events.
- `DocumentStoresProofs`: `TypeCorrect`, `ReachGranted` and `AnsweredWritesHold`,
  which states `PromisesKept`. `ReachInv` says of
  everything that may still be written, a page in a worker's hands or the value
  of its job, what `ReachIsGranted` says of what is stored, and that a job under
  way may do what it does to every version there is (`Allowed`). `Grow` is why
  races do no harm to it: open and granted only grow, and a new version inherits
  what is under way. `KeptInv` is about promises: a write takes back what it is
  about to change when it begins (`TakenBack`); as soon as two writers are at a
  document neither promises anything; the one writer of a document knows of every
  point that it has written it or still comes to it (`Undisturbed`, `Written`,
  `Ahead`), so that at its end the stores hold its value; and what stays promised
  meanwhile survives, because a page written back differs from what is there in
  the field of the write alone (`RewrittenFields`).
- `PolicyFilesProofs`: `TypesHold`, `RefusalsRestore`, `BackupsHoldReplaced`,
  `FilesAreAccounted`, `NothingHalfWrittenRuns`. The invariant says, for each step
  of a handler, what it knows of the file by then (`Control`): the file as the
  request found it until it is truncated, and from the copy on the backup with
  the same text. From that the rollback restores. `Shelf` follows the pruning:
  the `Keep` newest numbers survive it (`PruneKeeps`). `Same` says that the file, or the
  one that the running handler found, is what was loaded or returned, unless drift was
  seen. `Meant` says that the file
  and every backup hold texts somebody meant, except the one that is open.
- `McpSessionProofs`: `CallsAreReady`, and `CallsAreBackendCalls`, the safety half
  of the refinement, one lemma per action: `Invoke` is `Call`, a tool that runs is
  `Run`, `Return` is `Return`, whatever ends a call otherwise is `Fail`, the rest
  stutters. The invariant: `Turn` (the request that is waited for belongs to the
  one call that is open, and so does its answer), `Handshake` (a client that is
  initialised, and every `tools/call` on its way, names a session that is ready,
  or was until a restart; session numbers do not come back), `Once` (what is on
  its way has not run, and there is one such request per call at most).
- `OperatorViewsProofs`: `RoutesFeedMonitor` says that the composition implements
  the monitor's own `Spec`, so the rest can be shown of the monitor:
  `WindowsAreOrdered`, `QueriesJudgedByRecent`, `WatchListJudgedByRecent`. The
  invariant `Remembered` says that a window is the tail of its subject's past and
  holds everything since `floor`; `Judged` and `Watched` say that an answer was
  computed from windows that held fresh entries only. The work is in `Prune`, which
  counts the stale entries on the left: of a sequence in the order of time that
  leaves a tail, and the fresh part of the past is a tail too, so that two tails
  of the same length are equal. `TenantsAgree` and `CallersInheritGroups` are about
  operators of `Access` over any ACL file that loads and any directory.
- `AuditEventsProofs`: `NothingGoesMissing`, about `AuditDelivery`. `Attempted`
  says what each state of a thread tells of its attempts, `Started` that the events
  without a thread are those that were dropped or are still to come, and `Spaced`
  that since the policy was read no more was dropped in a row than the counter is
  past a multiple of `keep_every`. `WalksMissWhatExpired` and `ChartsAreExact`, about `AuditViews`:
  `PassedByExpiry` says of a walk under way that the rows before its offset that
  it was to see and has not seen are no more than have expired since it began, and
  that each of them is older than one that has. It is kept
  because a row that expires lets one row at most move across the offset, and one
  at most across the cap, but never both (`PassedShift`), and because what is
  recorded only pushes rows back (`PassedGrow`). `OncePerQuery` says that
  a query has one event that names why it was refused and one that says it ended.
  For the charts `BarsComeTo` shows that the sum over the bars is a count.
  `MapThenSumSet` is a fold, a function that satisfies an equation over finite
  sets; the count satisfies the same equation, and no two functions do, because
  the smallest set on which they differed would have a smaller one.

The assumptions are those the code gives: the constants have the shapes their
records say, `hard` never exceeds `all` in a profile, sentinels are not values,
point ids are distinct numbers, the module's built-in audit policy has the chain
off, the ACL file and the directory speak of users, groups and tenants that
exist.

Only model-checked: `WritesEnd`, `EventuallySettled` and the fairness in
`ImplementsBackendCall`. Liveness under fairness and `ENABLED` are out of the
prover's reach. So are the library's induction theorems, which take an operator
as a parameter; where an induction was needed (`BarsComeTo`) the proof takes a
least counterexample instead.

A proof that failed changed the model once. `PagesMissNothing` used to count only
expired events of the kind the walk filters by. With `PageSize` 2 and `ScanCap` 3
TLC refutes that: `query_audit_events` caps before it filters
(`audit.py:516`-`521`), so the expiry of any event of the tenant can bring an older
one within the cap, at a place that the walk has passed.

## 6. Plan

In this order:

1. Abstract specifications with refinements: answers released only through a
   gate (`QueryGateway`), a log that only grows and ages (`AuditLog`).
2. A pure algorithm against a reference definition: rank fusion.

## 7. Not modelled

Scanners (regular expressions and a classifier over text; what they may find is a
constant), data models (declarations), the operator console (a view of the
routes), telemetry (no decision depends on it), and the enterprise package,
which is not in the repository and appears only as the hooks this code offers.
Of the offline tools only the Qdrant writer and the run of `acl_backfill`: the
others read files or call public routes and keep no state, and the corpus
generators and diagram renderers are scripts. Of the modelled parts: the order
of hits and their fusion, the order and the switches of the scanners, the
disposition that the scan route answers (it passes a challenged text that was
redacted, `guardrails/scan.py:38`, where ingest quarantines it), the wording of prompts and responses, what each key
of the YAML files means, the scrubbing of texts in audit events, the creation of
a collection in Qdrant, and the verification of signatures, which a library does.
