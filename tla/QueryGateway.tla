---------------------------- MODULE QueryGateway ----------------------------
(***************************************************************************)
(* POST /v1/query against the SQLite document store, with the operations   *)
(* that change the corpus or the policy while a query is in flight.        *)
(*                                                                         *)
(* Every route handler runs on one event loop and suspends only where it   *)
(* awaits.  A query therefore takes three steps: its bearer token is       *)
(* resolved in a worker thread (Authenticate), the handler runs up to      *)
(* `await llm.chat(messages)` (one of the RunQuery disjuncts), and, when   *)
(* the reply is there, it runs to its end (Finish).  Everything it read    *)
(* before the await - groups, policy, chunks, endpoint - is a private copy *)
(* that the rest of the world may have made stale.                         *)
(***************************************************************************)
EXTENDS RiskScoring

CONSTANTS
    Queries,        \* requests, each one slot
    Users,
    Groups,
    Public,         \* the groups "public" and "all-staff" of acl.py
    GroupLists,     \* the allowed_groups lists an operator may give a document
    Docs,           \* document ids an ingest may use
    CanaryIds,      \* ids new_document_id may give a canary
    Contents,       \* document bodies: [scan, class, parts]
    Profiles,       \* scores of what the scanners find in a text: [hard, all]
    Replies,        \* what the LLM may say: [scan, grounded]
    Policies,       \* policy.yaml as it may be edited, then reloaded
    Acls,           \* acl_policy.yaml: user -> groups after _expand_groups
    Classes, NoClass,
    Endpoints,      \* LLM endpoint ids
    Default,        \* the endpoint id "default"
    TopK,           \* top_k of a request
    MaxGen,         \* bound: documents written in one behaviour
    NoDoc, NoPolicy, NoReply

AllIds == Docs \cup CanaryIds

\* A document body has a risk profile of its own and parts (chunks), each with
\* the profile of its sanitized text and the canary tokens it quotes.
Part == [scan : Profiles, quotes : SUBSET CanaryIds]
PolicyRec ==
    [challenge : Nat, block : Nat, mode : Modes,
     out_challenge : Nat, out_block : Nat, out_mode : Modes,
     canary : BOOLEAN, backstop : BOOLEAN,
     auditor_groups : SUBSET Groups, auditor_subjects : SUBSET Users,
     extraction : BOOLEAN, action : {"alert", "challenge", "throttle"},
     routing : BOOLEAN, fail_closed : BOOLEAN, rank : [Classes -> Nat],
     mapped : SUBSET Classes, route : [Classes -> Endpoints],
     endpoints : SUBSET Endpoints, default_endpoint : Endpoints]

\* A row of the table documents.
Row == [gen : Nat, groups : SUBSET Groups, quarantined : BOOLEAN, canary : BOOLEAN,
        class : Classes \cup {NoClass}]

ASSUME ProfileAssumption ==
    /\ Profiles \subseteq [hard : Nat, all : Nat]
    /\ \A f \in Profiles : f.hard <= f.all
ASSUME ContentAssumption ==
    Contents \subseteq [scan : Profiles, class : Classes \cup {NoClass}, parts : Seq(Part)]
ASSUME ReplyAssumption == Replies \subseteq [scan : Nat, grounded : BOOLEAN]
ASSUME PolicyAssumption == Policies # {} /\ Policies \subseteq PolicyRec
ASSUME AclAssumption == Acls # {} /\ Acls \subseteq [Users -> SUBSET Groups]
ASSUME GroupAssumption == Public \subseteq Groups /\ GroupLists \subseteq SUBSET Groups
ASSUME UserAssumption == Users # {}
ASSUME BoundAssumption == TopK \in Nat /\ MaxGen \in Nat
ASSUME SentinelAssumption ==
    /\ NoDoc \notin Row /\ NoPolicy \notin Policies /\ NoClass \notin Classes
    /\ Default \in Endpoints /\ "blocked" \notin Endpoints /\ Docs \cap CanaryIds = {}

VARIABLES
    documents,  \* table documents: id -> row, or NoDoc
    chunks,     \* table chunks
    gen,        \* how many times a document was written; names each version
    minted,     \* canary ids, and with them tokens, generated so far
    trail,      \* audit events of the document routes
    policy,     \* app.state.policy
    acl,        \* app.state.acl
    pc,         \* where each query is
    auth,       \* AuthContext captured at authentication
    goneAt,     \* observer: versions already out of the corpus at authentication
    pol,        \* policy captured at the start of the handler
    context,    \* context_blocks: the chunks given to the LLM
    hit,        \* canary_hit: the canaries whose token the backstop knows
    route,      \* endpoint the LLM call went to
    reply,      \* raw_answer, with the canary tokens it repeats
    outcome,    \* block_reason of the response, or how it ended otherwise
    log         \* audit events of each query, in order

store == <<documents, chunks, gen, minted, trail>>
config == <<policy, acl>>
flight == <<pc, auth, goneAt, pol, context, hit, route, reply, outcome, log>>
vars == <<store, config, flight>>
-----------------------------------------------------------------------------
(* The corpus.                                                             *)

Live == {documents[d].gen : d \in {e \in AllIds : documents[e] # NoDoc}}
Gone == (1..gen) \ Live

\* user_can_access_document: an empty list denies everyone.
CanAccess(groups, allowed) ==
    allowed # {} /\ (allowed \cap Public # {} \/ groups \cap allowed # {})

\* StoredChunk: the join of a chunk row with the row of its document.
Joined(c) == [doc |-> c.doc, idx |-> c.idx, gen |-> c.gen, scan |-> c.scan,
              quotes |-> c.quotes, groups |-> documents[c.doc].groups,
              quarantined |-> documents[c.doc].quarantined,
              canary |-> documents[c.doc].canary, class |-> documents[c.doc].class]

Searchable(groups) ==
    {Joined(c) : c \in {r \in chunks :
        /\ documents[r.doc] # NoDoc
        /\ ~documents[r.doc].quarantined
        /\ CanAccess(groups, documents[r.doc].groups)}}

\* search keeps the chunks that share a token with the query, best top_k first:
\* any small enough selection, as far as the properties can tell.
Search(groups) == {H \in SUBSET Searchable(groups) : Cardinality(H) <= TopK}

ChunkRows(d, g, parts) ==
    {[doc |-> d, idx |-> k, gen |-> g, scan |-> parts[k].scan, quotes |-> parts[k].quotes]
        : k \in DOMAIN parts}

\* Mutant: rows are replaced by chunk id, without the DELETE before them.
Write_MergesChunks(d, row, parts) ==
    /\ gen < MaxGen
    /\ gen' = gen + 1
    /\ documents' = [documents EXCEPT ![d] = row]
    /\ chunks' = {c \in chunks : c.doc # d \/ c.idx \notin DOMAIN parts}
                    \cup ChunkRows(d, gen + 1, parts)

\* ingest of the store: both tables lose the old version before the new rows.
Write(d, row, parts) ==
    /\ gen < MaxGen
    /\ gen' = gen + 1
    /\ documents' = [documents EXCEPT ![d] = row]
    /\ chunks' = {c \in chunks : c.doc # d} \cup ChunkRows(d, gen + 1, parts)

Drop(d) ==
    /\ documents' = [documents EXCEPT ![d] = NoDoc]
    /\ chunks' = {c \in chunks : c.doc # d}
    /\ UNCHANGED <<gen, minted>>
-----------------------------------------------------------------------------
(* Document and policy routes; each handler is one step of the event loop. *)

\* evaluate_ingest_scan, the case that does not reject
Quarantines(f, p) == ScanInput(f, p) = "challenge" /\ p.mode = "allow"

\* Canary ids and tokens are random: nobody names one before it is minted.  The
\* metadata of the request is stored as it is, so an ingest may flag its document as a
\* canary (is_metadata_canary); no text quotes the token of such a one.
Ingest(d, content, groups, canary) ==
    /\ d \in Docs \cup minted
    /\ \A k \in DOMAIN content.parts : content.parts[k].quotes \subseteq minted
    /\ ~BlocksInput(content.scan, policy)
    /\ Write(d, [gen |-> gen + 1, groups |-> groups, canary |-> canary,
                 quarantined |-> Quarantines(content.scan, policy),
                 class |-> content.class], content.parts)
    /\ trail' = trail \cup
        {[kind |-> "ingest_completed", doc |-> d, gen |-> gen + 1, canary |-> canary]}
    /\ UNCHANGED <<minted, config, flight>>

\* DELETE /v1/documents/{id}: 404 without a row, 409 for a canary
DeleteDocument(d) ==
    /\ documents[d] # NoDoc
    /\ ~documents[d].canary
    /\ Drop(d)
    /\ trail' = trail \cup
        {[kind |-> "document_deleted", doc |-> d, gen |-> documents[d].gen, canary |-> FALSE]}
    /\ UNCHANGED <<config, flight>>

\* set_document_status (the review workflow of the enterprise package calls it)
SetStatus(d, q) ==
    /\ documents[d] # NoDoc
    /\ documents[d].quarantined # q
    /\ documents' = [documents EXCEPT ![d].quarantined = q]
    /\ UNCHANGED <<chunks, gen, minted, trail, config, flight>>

\* update_document_acl (connector sync of the enterprise package)
UpdateAcl(d, groups) ==
    /\ documents[d] # NoDoc
    /\ documents[d].groups # groups
    /\ documents' = [documents EXCEPT ![d].groups = groups]
    /\ UNCHANGED <<chunks, gen, minted, trail, config, flight>>

\* seed_canary: unscanned, under a fresh id, its body quoting its own token
SeedCanary(d, groups) ==
    /\ d \notin minted
    /\ minted' = minted \cup {d}
    /\ \E f \in Profiles :
         Write(d, [gen |-> gen + 1, groups |-> groups, canary |-> TRUE,
                   quarantined |-> FALSE, class |-> NoClass],
               <<[scan |-> f, quotes |-> {d}]>>)
    /\ UNCHANGED <<trail, config, flight>>

\* Mutant: retires whatever has the id.
RetireCanary_AnyDocument(d) ==
    /\ documents[d] # NoDoc
    /\ Drop(d)
    /\ UNCHANGED <<trail, config, flight>>

\* canary_retire: whatever carries the flag, and no audit event
RetireCanary(d) ==
    /\ documents[d] # NoDoc
    /\ documents[d].canary
    /\ Drop(d)
    /\ UNCHANGED <<trail, config, flight>>

\* reload-policy swaps the policy and the ACL that an operator edited
ReloadPolicy ==
    /\ policy' \in Policies
    /\ acl' \in Acls
    /\ UNCHANGED <<store, flight>>
-----------------------------------------------------------------------------
(* The life of a query.                                                    *)

IsAuditor(a, p) == a.user \in p.auditor_subjects \/ a.groups \cap p.auditor_groups # {}

\* Mutant: the tripwire alarms and does not contain.
Kept_AlarmOnly(a, p, H) == H

\* inspect_candidates and filter_canaries
Tripped(a, p, H) == p.canary /\ ~IsAuditor(a, p) /\ \E c \in H : c.canary
Kept(a, p, H) == IF Tripped(a, p, H) THEN {c \in H : ~c.canary} ELSE H

\* The chunks that pass the input scan become the context.
ContextOf(K, p) == {c \in K : ~BlocksInput(c.scan, p)}

\* Mutant: the rank index read the other way round.
Winning_LeastSensitive(C, p) ==
    LET labels == {c.class : c \in C} \ {NoClass}
    IN IF labels = {} THEN {NoClass}
       ELSE {w \in labels : \A v \in labels : p.rank[w] >= p.rank[v]}

\* highest_classification: the best ranked label; unranked ones tie.
Winning(C, p) ==
    LET labels == {c.class : c \in C} \ {NoClass}
    IN IF labels = {} THEN {NoClass}
       ELSE {w \in labels : \A v \in labels : p.rank[w] <= p.rank[v]}

\* resolve_llm_route: an endpoint id, or "blocked".
ResolveRoute(p, w) ==
    LET mapped == w # NoClass /\ w \in p.mapped
        e == IF mapped THEN p.route[w] ELSE p.default_endpoint
    IN IF ~p.routing THEN Default
       ELSE IF p.fail_closed /\ w # NoClass /\ ~mapped THEN "blocked"
       ELSE IF e \in p.endpoints \cup {Default} THEN e
       ELSE IF p.fail_closed THEN "blocked"
       ELSE p.default_endpoint

\* POST /v1/query resolves the bearer token first, in a worker thread.
Authenticate(i, u) ==
    /\ pc[i] = "idle"
    /\ pc' = [pc EXCEPT ![i] = "authenticated"]
    /\ auth' = [auth EXCEPT ![i] = [user |-> u, groups |-> acl[u]]]
    /\ goneAt' = [goneAt EXCEPT ![i] = Gone]
    /\ UNCHANGED <<store, config, pol, context, hit, route, reply, outcome, log>>

\* Mutant: an early return that bypasses _record_query_completed.
Respond_NoCompletion(i, why, events) ==
    /\ pc' = [pc EXCEPT ![i] = "done"]
    /\ outcome' = [outcome EXCEPT ![i] = why]
    /\ log' = [log EXCEPT ![i] = log[i] \o events]
    /\ UNCHANGED <<store, config, auth, goneAt, reply>>

\* The handler ends without an LLM call: query_completed closes the log.
Respond(i, why, events) ==
    /\ pc' = [pc EXCEPT ![i] = "done"]
    /\ outcome' = [outcome EXCEPT ![i] = why]
    /\ log' = [log EXCEPT ![i] = log[i] \o Append(events, "query_completed")]
    /\ UNCHANGED <<store, config, auth, goneAt, reply>>

Starts(i) == pc[i] = "authenticated" /\ pol' = [pol EXCEPT ![i] = policy]

\* The enterprise rate limiter refuses before the store is touched: 429.
RateLimited(i) ==
    /\ Starts(i)
    /\ Respond(i, "rate_limited", <<"rate_limited">>)
    /\ UNCHANGED <<context, hit, route>>

QueryBlocked(i) ==
    /\ Starts(i)
    /\ \E f \in Profiles : BlocksInput(f, policy)
    /\ Respond(i, "query_guardrail_blocked", <<"query_blocked">>)
    /\ UNCHANGED <<context, hit, route>>

\* What the retrieval stage records: the tripwire, then the extraction monitor.
RetrievalEvents(i, H, severity) ==
    (IF Tripped(auth[i], policy, H) THEN <<"canary_triggered">> ELSE <<>>)
        \o (IF severity = "none" THEN <<>> ELSE <<"extraction_suspected">>)

\* observe_query scores a window this module does not keep: any severity.
Severities == IF policy.extraction THEN {"none", "elevated", "severe"} ELSE {"none"}
Throttles(severity) == severity = "severe" /\ policy.action \in {"challenge", "throttle"}

\* The query passes the input scan: retrieval runs.
Admitted(i) == Starts(i) /\ \E f \in Profiles : ~BlocksInput(f, policy)

ExtractionStop(i) ==
    /\ Admitted(i)
    /\ \E H \in Search(auth[i].groups), severity \in Severities :
         /\ Throttles(severity)
         /\ Respond(i, "extraction_suspected", RetrievalEvents(i, H, severity))
    /\ UNCHANGED <<context, hit, route>>

NothingFound(i) ==
    /\ Admitted(i)
    /\ \E H \in Search(auth[i].groups), severity \in Severities :
         /\ ~Throttles(severity)
         /\ Kept(auth[i], policy, H) = {}
         /\ Respond(i, "no_documents", RetrievalEvents(i, H, severity))
    /\ UNCHANGED <<context, hit, route>>

AllChunksBlocked(i) ==
    /\ Admitted(i)
    /\ \E H \in Search(auth[i].groups), severity \in Severities :
         /\ ~Throttles(severity)
         /\ Kept(auth[i], policy, H) # {}
         /\ ContextOf(Kept(auth[i], policy, H), policy) = {}
         /\ Respond(i, "all_chunks_blocked",
                    Append(RetrievalEvents(i, H, severity), "query_blocked"))
    /\ UNCHANGED <<context, hit, route>>

RoutedEvents(p) == IF p.routing THEN <<"llm_routed">> ELSE <<>>

RouteBlocked(i) ==
    /\ Admitted(i)
    /\ \E H \in Search(auth[i].groups), severity \in Severities :
         LET C == ContextOf(Kept(auth[i], policy, H), policy)
         IN /\ ~Throttles(severity)
            /\ C # {}
            /\ \E w \in Winning(C, policy) : ResolveRoute(policy, w) = "blocked"
            /\ Respond(i, "llm_routing_blocked",
                       RetrievalEvents(i, H, severity) \o RoutedEvents(policy))
    /\ UNCHANGED <<context, hit, route>>

\* build_messages, then the handler suspends in `await llm.chat(messages)`.
CallLLM(i) ==
    /\ Admitted(i)
    /\ \E H \in Search(auth[i].groups), severity \in Severities :
         LET C == ContextOf(Kept(auth[i], policy, H), policy)
         IN /\ ~Throttles(severity)
            /\ C # {}
            /\ context' = [context EXCEPT ![i] = C]
            /\ \E w \in Winning(C, policy) :
                 /\ ResolveRoute(policy, w) # "blocked"
                 /\ route' = [route EXCEPT ![i] = ResolveRoute(policy, w)]
            /\ \E t \in {c.doc : c \in {k \in H : k.canary}} \cup {NoDoc} :
                 /\ (t # NoDoc) <=> Tripped(auth[i], policy, H)
                 /\ hit' = [hit EXCEPT ![i] = {t} \ {NoDoc}]
            /\ log' = [log EXCEPT ![i] = RetrievalEvents(i, H, severity)
                                            \o RoutedEvents(policy)]
    /\ pc' = [pc EXCEPT ![i] = "awaiting"]
    /\ UNCHANGED <<store, config, auth, goneAt, reply, outcome>>

RunQuery(i) ==
    \/ RateLimited(i) \/ QueryBlocked(i) \/ ExtractionStop(i) \/ NothingFound(i)
    \/ AllChunksBlocked(i) \/ RouteBlocked(i) \/ CallLLM(i)

\* Mutant: the output gate reads app.state.policy again after the await.
Verdict_RereadsPolicy(i, r, p) ==
    IF ~r.grounded THEN "citation_failed"
    ELSE IF BlocksOutput(r.scan, policy) THEN "output_guardrail_blocked"
    ELSE IF p.canary /\ p.backstop /\ r.tokens \cap hit[i] # {}
    THEN "canary_token_in_output" ELSE "answered"

\* The gates after the await, in their order; p is the captured policy.
Verdict(i, r, p) ==
    IF ~r.grounded THEN "citation_failed"
    ELSE IF BlocksOutput(r.scan, p) THEN "output_guardrail_blocked"
    ELSE IF p.canary /\ p.backstop /\ r.tokens \cap hit[i] # {}
    THEN "canary_token_in_output" ELSE "answered"

\* Mutant: the outcome is recorded under a kind no reader of the log knows.
VerdictEvents_Outcome(v) == IF v = "answered" THEN <<>> ELSE <<v>>

VerdictEvents(v) ==
    CASE v = "citation_failed" -> <<"citation_failed">>
      [] v = "output_guardrail_blocked" -> <<"query_blocked">>
      [] v = "canary_token_in_output" -> <<"canary_triggered">>
      [] v = "answered" -> <<>>

\* The LLM answers, or fails in a way `chat` turns into a fallback answer.  It
\* can repeat a canary token it found in the context.
Finish(i) ==
    /\ pc[i] = "awaiting"
    /\ \E r \in Replies, echo \in SUBSET CanaryIds :
         LET said == [scan |-> r.scan, grounded |-> r.grounded, tokens |-> echo]
             v == Verdict(i, said, pol[i])
         IN /\ echo \subseteq UNION {c.quotes : c \in context[i]}
            /\ reply' = [reply EXCEPT ![i] = said]
            /\ outcome' = [outcome EXCEPT ![i] = v]
            /\ log' = [log EXCEPT ![i] = log[i] \o Append(VerdictEvents(v), "query_completed")]
    /\ pc' = [pc EXCEPT ![i] = "done"]
    /\ UNCHANGED <<store, config, auth, goneAt, pol, context, hit, route>>

\* A reply that is not JSON raises past `except httpx.HTTPError`: a plain 500.
MalformedReply(i) ==
    /\ pc[i] = "awaiting"
    /\ pc' = [pc EXCEPT ![i] = "failed"]
    /\ UNCHANGED <<store, config, auth, goneAt, pol, context, hit, route, reply, outcome, log>>
-----------------------------------------------------------------------------
Init ==
    /\ documents = [d \in AllIds |-> NoDoc]
    /\ chunks = {}
    /\ gen = 0
    /\ minted = {}
    /\ trail = {}
    /\ policy \in Policies
    /\ acl \in Acls
    /\ pc = [i \in Queries |-> "idle"]
    /\ auth = [i \in Queries |-> [user |-> CHOOSE u \in Users : TRUE, groups |-> {}]]
    /\ goneAt = [i \in Queries |-> {}]
    /\ pol = [i \in Queries |-> NoPolicy]
    /\ context = [i \in Queries |-> {}]
    /\ hit = [i \in Queries |-> {}]
    /\ route = [i \in Queries |-> Default]
    /\ reply = [i \in Queries |-> NoReply]
    /\ outcome = [i \in Queries |-> "none"]
    /\ log = [i \in Queries |-> <<>>]

StoreNext ==
    \/ \E d \in AllIds, k \in Contents, g \in GroupLists, c \in BOOLEAN : Ingest(d, k, g, c)
    \/ \E d \in AllIds : DeleteDocument(d) \/ RetireCanary(d)
    \/ \E d \in AllIds, q \in BOOLEAN : SetStatus(d, q)
    \/ \E d \in AllIds, g \in GroupLists : UpdateAcl(d, g)
    \/ \E d \in CanaryIds, g \in GroupLists : SeedCanary(d, g)

QueryNext(i) ==
    \/ \E u \in Users : Authenticate(i, u)
    \/ RunQuery(i)
    \/ Finish(i)
    \/ MalformedReply(i)

Next == StoreNext \/ ReloadPolicy \/ \E i \in Queries : QueryNext(i)

Spec == Init /\ [][Next]_vars
-----------------------------------------------------------------------------
(* Properties.                                                             *)

Outcomes ==
    {"none", "rate_limited", "query_guardrail_blocked", "extraction_suspected",
     "no_documents", "all_chunks_blocked", "llm_routing_blocked", "citation_failed",
     "output_guardrail_blocked", "canary_token_in_output", "answered"}

ChunkRow == [doc : AllIds, idx : Nat, gen : Nat, scan : Profiles, quotes : SUBSET CanaryIds]
StoredChunk ==
    [doc : AllIds, idx : Nat, gen : Nat, scan : Profiles, quotes : SUBSET CanaryIds,
     groups : SUBSET Groups, quarantined : BOOLEAN, canary : BOOLEAN,
     class : Classes \cup {NoClass}]
Event == {"query_completed", "query_blocked", "rate_limited", "canary_triggered",
          "extraction_suspected", "llm_routed", "citation_failed"}

\* Every variable has its type.
TypeOK ==
    /\ documents \in [AllIds -> Row \cup {NoDoc}]
    /\ chunks \subseteq ChunkRow
    /\ gen \in 0..MaxGen
    /\ minted \subseteq CanaryIds
    /\ trail \subseteq [kind : {"ingest_completed", "document_deleted"}, doc : AllIds, gen : Nat,
                       canary : BOOLEAN]
    /\ policy \in Policies
    /\ acl \in Acls
    /\ pc \in [Queries -> {"idle", "authenticated", "awaiting", "done", "failed"}]
    /\ auth \in [Queries -> [user : Users, groups : SUBSET Groups]]
    /\ goneAt \in [Queries -> SUBSET Nat]
    /\ pol \in [Queries -> Policies \cup {NoPolicy}]
    /\ context \in [Queries -> SUBSET StoredChunk]
    /\ hit \in [Queries -> SUBSET AllIds]
    /\ route \in [Queries -> Endpoints]
    /\ reply \in [Queries -> [scan : Nat, grounded : BOOLEAN, tokens : SUBSET CanaryIds]
                                \cup {NoReply}]
    /\ outcome \in [Queries -> Outcomes]
    /\ log \in [Queries -> Seq(Event)]

\* The join of search never mixes two versions of a document: every chunk row
\* belongs to the version its document row describes, also after a re-ingest
\* with fewer chunks, a delete or a retired canary (store.py ingest/delete).
OneVersion == \A c \in chunks : documents[c.doc] # NoDoc /\ documents[c.doc].gen = c.gen

\* Once a query is past the await point, each chunk the LLM was given passed
\* every gate of the policy the handler captured: it was readable by the groups
\* resolved at authentication, not quarantined, not a canary (unless the tripwire
\* is off or the caller an auditor) and not blocked by the input scan - whatever
\* reloads, re-ingests, ACL updates and status changes came in between.
ContextGated ==
    \A i \in Queries : \A c \in context[i] :
        /\ pol[i] # NoPolicy
        /\ CanAccess(auth[i].groups, c.groups)
        /\ ~c.quarantined
        /\ ~BlocksInput(c.scan, pol[i])
        /\ c.canary => ~pol[i].canary \/ IsAuditor(auth[i], pol[i])

\* A version that was deleted or replaced before the caller authenticated is in
\* no prompt: stale text is bounded by the query's own duration.
NoRetiredEvidence ==
    \A i \in Queries : \A c \in context[i] : c.gen \notin goneAt[i]

\* An answer reaches the caller only if the citation check, the output scan and the
\* canary backstop of the captured policy passed, over a context that was not empty.
\* The backstop knows the canary that tripped the query, and no other.
AnswerGated ==
    \A i \in Queries : outcome[i] = "answered" =>
        /\ context[i] # {}
        /\ reply[i].grounded
        /\ ~BlocksOutput(reply[i].scan, pol[i])
        /\ pol[i].canary /\ pol[i].backstop => reply[i].tokens \cap hit[i] = {}

\* With routing on, the endpoint that saw the prompt is the one mapped for some
\* chunk in it, and no chunk whose own mapping differs ranks strictly higher:
\* a sensitive chunk decides where its less sensitive neighbours go.
RoutedByMostSensitive ==
    \A i \in Queries : pc[i] \in {"awaiting", "done", "failed"} /\ context[i] # {} =>
        LET p == pol[i]
        IN p.routing /\ p.fail_closed =>
             \A c \in context[i] : c.class # NoClass /\ p.route[c.class] # route[i] =>
                \E d \in context[i] : /\ d.class \in p.mapped
                                      /\ p.route[d.class] = route[i]
                                      /\ p.rank[d.class] <= p.rank[c.class]

Count(s, e) == Cardinality({k \in DOMAIN s : s[k] = e})
Cause == [o \in Outcomes |->
    CASE o = "rate_limited" -> "rate_limited"
      [] o \in {"query_guardrail_blocked", "all_chunks_blocked", "output_guardrail_blocked"} ->
           "query_blocked"
      [] o = "extraction_suspected" -> "extraction_suspected"
      [] o = "llm_routing_blocked" -> "llm_routed"
      [] o = "citation_failed" -> "citation_failed"
      [] o = "canary_token_in_output" -> "canary_triggered"
      [] OTHER -> "query_completed"]

\* A response and the audit trail agree: a query that got a response has one
\* query_completed, as its last event, a blocked one also the event that says
\* why, an answered one no blocking event; a query without response has none.
AuditMatchesOutcome ==
    \A i \in Queries :
        IF pc[i] = "done"
        THEN /\ Count(log[i], "query_completed") = 1
             /\ log[i][Len(log[i])] = "query_completed"
             /\ \E k \in DOMAIN log[i] : log[i][k] = Cause[outcome[i]]
             /\ outcome[i] \in {"answered", "no_documents"} =>
                  \A k \in DOMAIN log[i] :
                    log[i][k] \notin {"query_blocked", "citation_failed", "rate_limited"}
        ELSE Count(log[i], "query_completed") = 0

\* Every version an operator ingested is in the corpus, or the trail names what took
\* it out - its deletion or a later ingest of the same id - or it was ingested as a
\* canary, which alone canary_retire removes without an event.  Of one process: the
\* sample documents that for_tenant ingests when a tenant is first used come before it.
RemovalsAccounted ==
    \A e \in trail : e.kind = "ingest_completed" =>
        \/ documents[e.doc] # NoDoc /\ documents[e.doc].gen = e.gen
        \/ \E f \in trail : /\ f.doc = e.doc
                            /\ \/ f.kind = "document_deleted" /\ f.gen = e.gen
                               \/ f.kind = "ingest_completed" /\ f.gen > e.gen
        \/ e.canary

\* A canary leaves the corpus through /admin/canary/retire (or by an ingest under
\* its id), never through DELETE /v1/documents, whose role is the weaker one.
CanaryDeleteRefused ==
    [][\A d \in AllIds :
        (documents[d] # NoDoc /\ documents[d].canary /\ documents'[d] = NoDoc)
            => trail' = trail]_vars

Strength == [allow |-> 0, challenge |-> 1, block |-> 2]

\* The policies under which what is added to any text only counts against it, and
\* those under which every blocked text has a cause among its findings.
Hardening ==
    {p \in Policies : \A t, more \in Texts :
        LET f == Profile(t)
            g == Profile(t \o more)
        IN /\ f.all <= g.all
           /\ Strength[ScanInput(f, p)] <= Strength[ScanInput(g, p)]
           /\ Strength[ScanOutput(f.all, p)] <= Strength[ScanOutput(g.all, p)]}

Accountable ==
    {p \in Policies : \A t \in Texts : p.block > 0 /\ ScanInput(Profile(t), p) = "block" =>
        LET C == {k \in DOMAIN t : t[k].scanner \notin RedactAndPass}
        IN \E k \in C :
             \/ t[k].severity + 5 >= p.block
             \/ /\ t[k].severity >= High /\ t[k].severity + 155 >= p.block
                /\ \E j \in C \ {k} : t[j].severity >= High}

\* Under the policy in force, what is found in a text besides can only count against
\* it: it may raise the score and harden the decision, in scan_input and in
\* scan_output, and do neither the other way round - in spite of the bump, the cap,
\* the scanners that cannot block and a rounding that takes equal sums in different
\* directions (aggregate_risk).
FindingsOnlyHarden == policy \in Hardening

\* Under the policy in force, a blocked input has a cause among its injection, secret
\* and URL findings: one that comes within the rounding of the threshold, or two high
\* ones, one of which comes within the bump of it.  What is redacted never tips the
\* scale, however much of it there is (REDACT_AND_PASS_SCANNERS).
BlocksHaveCause == policy \in Accountable

=============================================================================
