-------------------------- MODULE QueryGatewayProofs --------------------------
(* Theorems of QueryGateway: what an answer is made of and what of it is gated, *)
(* and what the audit trail says of documents that left the corpus and of how   *)
(* each query ended, for any documents, policies and number of queries; and     *)
(* what scores and decisions owe to the findings of a text.                     *)
EXTENDS QueryGateway, FiniteSetTheorems, WellFoundedInduction, TLAPS

-----------------------------------------------------------------------------
(* What the operators of a query return.                                   *)

\* The join of a chunk row with its document row is a StoredChunk.
LEMMA JoinedType ==
    ASSUME TypeOK, NEW c \in chunks, documents[c.doc] # NoDoc
    PROVE  Joined(c) \in StoredChunk
<1>1. c \in ChunkRow
    BY DEF TypeOK
<1>2. documents[c.doc] \in Row
    BY <1>1 DEF TypeOK, ChunkRow
<1> QED
    BY <1>1, <1>2 DEF Joined, StoredChunk, ChunkRow, Row

\* Search returns StoredChunks that the caller may read.
LEMMA SearchGated ==
    ASSUME TypeOK, NEW groups \in SUBSET Groups, NEW H \in Search(groups), NEW x \in H
    PROVE  /\ x \in StoredChunk
           /\ CanAccess(groups, x.groups)
           /\ ~x.quarantined
           /\ \E c \in chunks : x = Joined(c) /\ documents[c.doc] # NoDoc
<1>1. PICK c \in chunks : /\ x = Joined(c)
                          /\ documents[c.doc] # NoDoc
                          /\ ~documents[c.doc].quarantined
                          /\ CanAccess(groups, documents[c.doc].groups)
    BY DEF Search, Searchable
<1>2. x.groups = documents[c.doc].groups /\ x.quarantined = documents[c.doc].quarantined
    BY <1>1 DEF Joined
<1> QED
    BY <1>1, <1>2, JoinedType

\* The tripwire and the chunk scan only remove chunks.
LEMMA ContextShrinks ==
    ASSUME NEW a, NEW p, NEW H
    PROVE  ContextOf(Kept(a, p, H), p) \subseteq H
BY DEF ContextOf, Kept

\* What is left after them was let through by both.
LEMMA ContextPasses ==
    ASSUME NEW a, NEW p, NEW H, NEW x \in ContextOf(Kept(a, p, H), p)
    PROVE  /\ ~BlocksInput(x.scan, p)
           /\ x.canary => ~p.canary \/ IsAuditor(a, p)
BY DEF ContextOf, Kept, Tripped

\* A routing decision is an endpoint id or a refusal.
LEMMA ResolveRouteType ==
    ASSUME NEW p \in Policies, NEW w \in Classes \cup {NoClass}
    PROVE  ResolveRoute(p, w) \in Endpoints \cup {"blocked"}
<1>1. p \in PolicyRec
    BY PolicyAssumption
<1>2. /\ p.default_endpoint \in Endpoints
      /\ p.endpoints \subseteq Endpoints
      /\ p.routing \in BOOLEAN /\ p.fail_closed \in BOOLEAN
      /\ p.route \in [Classes -> Endpoints]
    BY <1>1 DEF PolicyRec
<1>3. w \in p.mapped /\ w # NoClass => p.route[w] \in Endpoints
    BY <1>2
<1> QED
    BY <1>2, <1>3, SentinelAssumption DEF ResolveRoute

LEMMA WinningType ==
    ASSUME NEW C \in SUBSET StoredChunk, NEW p, NEW w \in Winning(C, p)
    PROVE  w \in Classes \cup {NoClass}
<1>1. \A c \in C : c.class \in Classes \cup {NoClass}
    BY DEF StoredChunk
<1> QED
    BY <1>1 DEF Winning

LEMMA RetrievalEventsType ==
    ASSUME NEW i \in Queries, NEW H, NEW severity
    PROVE  RetrievalEvents(i, H, severity) \in Seq(Event)
<1> DEFINE a == IF Tripped(auth[i], policy, H) THEN <<"canary_triggered">> ELSE <<>>
           b == IF severity = "none" THEN <<>> ELSE <<"extraction_suspected">>
<1>1. "canary_triggered" \in Event /\ "extraction_suspected" \in Event
    BY DEF Event
<1>2. <<"canary_triggered">> \in Seq(Event) /\ <<"extraction_suspected">> \in Seq(Event)
    BY <1>1
<1>3. a \in Seq(Event) /\ b \in Seq(Event)
    BY <1>2
<1>4. a \o b \in Seq(Event)
    BY <1>3
<1> QED
    BY <1>4 DEF RetrievalEvents

LEMMA RoutedEventsType == ASSUME NEW p PROVE RoutedEvents(p) \in Seq(Event)
<1>1. "llm_routed" \in Event
    BY DEF Event
<1>2. <<"llm_routed">> \in Seq(Event) /\ <<>> \in Seq(Event)
    BY <1>1
<1> QED
    BY <1>2 DEF RoutedEvents

\* The rows of a version are chunk rows.
LEMMA ChunkRowsType ==
    ASSUME NEW d \in AllIds, NEW g \in Nat, NEW parts \in Seq(Part)
    PROVE  ChunkRows(d, g, parts) \subseteq ChunkRow
<1>1. \A k \in DOMAIN parts : k \in Nat /\ parts[k] \in Part
    OBVIOUS
<1> QED
    BY <1>1 DEF ChunkRows, ChunkRow, Part

LEMMA VerdictType ==
    ASSUME NEW i, NEW r, NEW p
    PROVE  /\ Verdict(i, r, p) \in Outcomes
           /\ VerdictEvents(Verdict(i, r, p)) \in Seq(Event)
<1>1. Verdict(i, r, p) \in {"citation_failed", "output_guardrail_blocked",
                            "canary_token_in_output", "answered"}
    BY DEF Verdict
<1>2. /\ <<"citation_failed">> \in Seq(Event) /\ <<"query_blocked">> \in Seq(Event)
      /\ <<"canary_triggered">> \in Seq(Event) /\ <<>> \in Seq(Event)
    <2>1. /\ "citation_failed" \in Event /\ "query_blocked" \in Event
          /\ "canary_triggered" \in Event
        BY DEF Event
    <2> QED
        BY <2>1
<1>3. VerdictEvents(Verdict(i, r, p)) \in Seq(Event)
    BY <1>1, <1>2 DEF VerdictEvents
<1> QED
    BY <1>1, <1>3 DEF Outcomes
-----------------------------------------------------------------------------
(* Type correctness.                                                       *)

LEMMA WriteType ==
    ASSUME TypeOK, NEW d \in AllIds, NEW row \in Row, NEW parts \in Seq(Part),
           Write(d, row, parts)
    PROVE  /\ documents' \in [AllIds -> Row \cup {NoDoc}]
           /\ chunks' \subseteq ChunkRow
           /\ gen' \in 0..MaxGen
<1>1. gen + 1 \in Nat /\ gen' \in 0..MaxGen
    BY BoundAssumption DEF TypeOK, Write
<1>2. documents' \in [AllIds -> Row \cup {NoDoc}]
    BY DEF TypeOK, Write
<1>3. chunks' \subseteq ChunkRow
    BY <1>1, ChunkRowsType DEF TypeOK, Write
<1> QED
    BY <1>1, <1>2, <1>3

LEMMA DropType ==
    ASSUME TypeOK, NEW d \in AllIds, Drop(d)
    PROVE  /\ documents' \in [AllIds -> Row \cup {NoDoc}]
           /\ chunks' \subseteq ChunkRow
           /\ gen' \in 0..MaxGen
           /\ minted' = minted
BY DEF TypeOK, Drop

\* Steps of the document routes leave queries alone and keep the corpus typed.
LEMMA StoreType ==
    ASSUME TypeOK, StoreNext
    PROVE  TypeOK' /\ UNCHANGED <<config, flight>>
<1> USE DEF config, flight
<1>1. ASSUME NEW d \in AllIds, NEW k \in Contents, NEW g \in GroupLists,
             NEW b \in BOOLEAN, Ingest(d, k, g, b)
      PROVE  TypeOK' /\ UNCHANGED <<config, flight>>
    <2>1. k.class \in Classes \cup {NoClass} /\ k.parts \in Seq(Part)
        BY ContentAssumption
    <2>2. g \in SUBSET Groups /\ gen + 1 \in Nat
        BY GroupAssumption DEF TypeOK
    <2>3. [gen |-> gen + 1, groups |-> g, canary |-> b,
           quarantined |-> Quarantines(k.scan, policy), class |-> k.class] \in Row
        BY <2>1, <2>2 DEF Row, Quarantines
    <2>4. /\ documents' \in [AllIds -> Row \cup {NoDoc}]
          /\ chunks' \subseteq ChunkRow
          /\ gen' \in 0..MaxGen
        BY <1>1, <2>1, <2>3, WriteType DEF Ingest
    <2>5. trail' \subseteq [kind : {"ingest_completed", "document_deleted"},
                           doc : AllIds, gen : Nat, canary : BOOLEAN]
        <3>1. [kind |-> "ingest_completed", doc |-> d, gen |-> gen + 1, canary |-> b]
                \in [kind : {"ingest_completed", "document_deleted"},
                     doc : AllIds, gen : Nat, canary : BOOLEAN]
            BY <2>2
        <3>2. trail' = trail \cup
                {[kind |-> "ingest_completed", doc |-> d, gen |-> gen + 1, canary |-> b]}
            BY <1>1 DEF Ingest
        <3>3. trail \subseteq [kind : {"ingest_completed", "document_deleted"},
                              doc : AllIds, gen : Nat, canary : BOOLEAN]
            BY DEF TypeOK
        <3> QED
            BY <3>1, <3>2, <3>3
    <2> QED
        BY <1>1, <2>4, <2>5 DEF Ingest, TypeOK
<1>2. ASSUME NEW d \in AllIds, DeleteDocument(d)
      PROVE  TypeOK' /\ UNCHANGED <<config, flight>>
    <2>1. documents[d].gen \in Nat
        BY <1>2 DEF DeleteDocument, TypeOK, Row
    <2>2. trail' \subseteq [kind : {"ingest_completed", "document_deleted"},
                           doc : AllIds, gen : Nat, canary : BOOLEAN]
        <3>1. [kind |-> "document_deleted", doc |-> d, gen |-> documents[d].gen,
               canary |-> FALSE] \in [kind : {"ingest_completed", "document_deleted"},
                                     doc : AllIds, gen : Nat, canary : BOOLEAN]
            BY <2>1
        <3>2. trail' = trail \cup
                {[kind |-> "document_deleted", doc |-> d, gen |-> documents[d].gen,
                  canary |-> FALSE]}
            BY <1>2 DEF DeleteDocument
        <3>3. trail \subseteq [kind : {"ingest_completed", "document_deleted"},
                              doc : AllIds, gen : Nat, canary : BOOLEAN]
            BY DEF TypeOK
        <3> QED
            BY <3>1, <3>2, <3>3
    <2> QED
        BY <1>2, <2>2, DropType DEF DeleteDocument, TypeOK
<1>3. ASSUME NEW d \in AllIds, RetireCanary(d)
      PROVE  TypeOK' /\ UNCHANGED <<config, flight>>
    BY <1>3, DropType DEF RetireCanary, TypeOK
<1>4. ASSUME NEW d \in AllIds, NEW q \in BOOLEAN, SetStatus(d, q)
      PROVE  TypeOK' /\ UNCHANGED <<config, flight>>
    <2>1. documents[d] \in Row
        BY <1>4 DEF SetStatus, TypeOK
    <2>2. [documents[d] EXCEPT !.quarantined = q] \in Row
        BY <2>1 DEF Row
    <2>3. documents' \in [AllIds -> Row \cup {NoDoc}]
        BY <1>4, <2>2 DEF SetStatus, TypeOK
    <2> QED
        BY <1>4, <2>3 DEF SetStatus, TypeOK
<1>5. ASSUME NEW d \in AllIds, NEW g \in GroupLists, UpdateAcl(d, g)
      PROVE  TypeOK' /\ UNCHANGED <<config, flight>>
    <2>1. documents[d] \in Row /\ g \in SUBSET Groups
        BY <1>5, GroupAssumption DEF UpdateAcl, TypeOK
    <2>2. [documents[d] EXCEPT !.groups = g] \in Row
        BY <2>1 DEF Row
    <2>3. documents' \in [AllIds -> Row \cup {NoDoc}]
        BY <1>5, <2>2 DEF UpdateAcl, TypeOK
    <2> QED
        BY <1>5, <2>3 DEF UpdateAcl, TypeOK
<1>6. ASSUME NEW d \in CanaryIds, NEW g \in GroupLists, SeedCanary(d, g)
      PROVE  TypeOK' /\ UNCHANGED <<config, flight>>
    <2> DEFINE row == [gen |-> gen + 1, groups |-> g, canary |-> TRUE,
                       quarantined |-> FALSE, class |-> NoClass]
    <2>1. row \in Row /\ d \in AllIds
        BY GroupAssumption DEF Row, TypeOK, AllIds
    <2>2. PICK f \in Profiles : Write(d, row, <<[scan |-> f, quotes |-> {d}]>>)
        BY <1>6 DEF SeedCanary
    <2>3. <<[scan |-> f, quotes |-> {d}]>> \in Seq(Part)
        BY DEF Part
    <2>4. /\ documents' \in [AllIds -> Row \cup {NoDoc}]
          /\ chunks' \subseteq ChunkRow
          /\ gen' \in 0..MaxGen
        BY <2>1, <2>2, <2>3, WriteType
    <2> QED
        BY <1>6, <2>4 DEF SeedCanary, TypeOK
<1> QED
    BY <1>1, <1>2, <1>3, <1>4, <1>5, <1>6 DEF StoreNext

\* A response without an LLM call keeps every type.
LEMMA RespondType ==
    ASSUME TypeOK, NEW i \in Queries, NEW why \in Outcomes, NEW events \in Seq(Event),
           Starts(i), Respond(i, why, events), UNCHANGED <<context, hit, route>>
    PROVE  TypeOK'
<1>1. "query_completed" \in Event
    BY DEF Event
<1>2. log[i] \o Append(events, "query_completed") \in Seq(Event)
    BY <1>1 DEF TypeOK
<1>3. log' \in [Queries -> Seq(Event)]
    BY <1>2 DEF TypeOK, Respond
<1> QED
    BY <1>3 DEF TypeOK, Respond, Starts, store, config

\* The chunks of a context are StoredChunks.
LEMMA ContextType ==
    ASSUME TypeOK, NEW i \in Queries, NEW H \in Search(auth[i].groups)
    PROVE  /\ H \subseteq StoredChunk
           /\ ContextOf(Kept(auth[i], policy, H), policy) \subseteq StoredChunk
<1>1. auth[i].groups \in SUBSET Groups
    BY DEF TypeOK
<1>2. H \subseteq StoredChunk
    BY <1>1, SearchGated
<1> QED
    BY <1>2, ContextShrinks

LEMMA CallLLMType ==
    ASSUME TypeOK, NEW i \in Queries, CallLLM(i)
    PROVE  TypeOK'
<1> DEFINE C(H) == ContextOf(Kept(auth[i], policy, H), policy)
<1>1. PICK H \in Search(auth[i].groups), severity \in Severities :
        /\ context' = [context EXCEPT ![i] = C(H)]
        /\ \E w \in Winning(C(H), policy) :
             /\ ResolveRoute(policy, w) # "blocked"
             /\ route' = [route EXCEPT ![i] = ResolveRoute(policy, w)]
        /\ \E t \in {c.doc : c \in {k \in H : k.canary}} \cup {NoDoc} :
             hit' = [hit EXCEPT ![i] = {t} \ {NoDoc}]
        /\ log' = [log EXCEPT ![i] = RetrievalEvents(i, H, severity) \o RoutedEvents(policy)]
    BY DEF CallLLM
<1>2. H \subseteq StoredChunk /\ C(H) \subseteq StoredChunk
    BY ContextType
<1>3. context' \in [Queries -> SUBSET StoredChunk]
    BY <1>1, <1>2 DEF TypeOK
<1>4. route' \in [Queries -> Endpoints]
    <2>1. PICK w \in Winning(C(H), policy) :
            /\ ResolveRoute(policy, w) # "blocked"
            /\ route' = [route EXCEPT ![i] = ResolveRoute(policy, w)]
        BY <1>1
    <2>2. w \in Classes \cup {NoClass}
        BY <1>2, WinningType
    <2>3. ResolveRoute(policy, w) \in Endpoints
        BY <2>1, <2>2, ResolveRouteType DEF TypeOK
    <2> QED
        BY <2>1, <2>3 DEF TypeOK
<1>5. hit' \in [Queries -> SUBSET AllIds]
    <2>1. PICK t \in {c.doc : c \in {k \in H : k.canary}} \cup {NoDoc} :
            hit' = [hit EXCEPT ![i] = {t} \ {NoDoc}]
        BY <1>1
    <2>2. {t} \ {NoDoc} \subseteq AllIds
        BY <1>2 DEF StoredChunk
    <2> QED
        BY <2>1, <2>2 DEF TypeOK
<1>6. log' \in [Queries -> Seq(Event)]
    <2>1. /\ RetrievalEvents(i, H, severity) \in Seq(Event)
          /\ RoutedEvents(policy) \in Seq(Event)
        BY RetrievalEventsType, RoutedEventsType
    <2>2. RetrievalEvents(i, H, severity) \o RoutedEvents(policy) \in Seq(Event)
        BY <2>1
    <2> QED
        BY <1>1, <2>2 DEF TypeOK
<1>7. /\ UNCHANGED <<store, config, auth, goneAt, reply, outcome>>
      /\ pc' = [pc EXCEPT ![i] = "awaiting"]
      /\ pol' = [pol EXCEPT ![i] = policy]
    BY DEF CallLLM, Admitted, Starts
<1> QED
    BY <1>3, <1>4, <1>5, <1>6, <1>7 DEF TypeOK, store, config

\* Each early return is a Respond with events of the vocabulary.
LEMMA EarlyReturn ==
    ASSUME TypeOK, NEW i \in Queries, RunQuery(i), ~CallLLM(i)
    PROVE  /\ \E why \in Outcomes \ {"answered"}, events \in Seq(Event) : Respond(i, why, events)
           /\ Starts(i)
           /\ UNCHANGED <<context, hit, route>>
<1>1. CASE RateLimited(i)
    <2>1. "rate_limited" \in Event /\ "rate_limited" \in Outcomes \ {"answered"}
        BY DEF Event, Outcomes
    <2>2. <<"rate_limited">> \in Seq(Event)
        BY <2>1
    <2> QED
        BY <1>1, <2>1, <2>2 DEF RateLimited
<1>2. CASE QueryBlocked(i)
    <2>1. "query_blocked" \in Event /\ "query_guardrail_blocked" \in Outcomes \ {"answered"}
        BY DEF Event, Outcomes
    <2>2. <<"query_blocked">> \in Seq(Event)
        BY <2>1
    <2> QED
        BY <1>2, <2>1, <2>2 DEF QueryBlocked
<1>3. CASE ExtractionStop(i)
    <2>1. "extraction_suspected" \in Outcomes \ {"answered"}
        BY DEF Outcomes
    <2> QED
        BY <1>3, <2>1, RetrievalEventsType DEF ExtractionStop, Admitted
<1>4. CASE NothingFound(i)
    <2>1. "no_documents" \in Outcomes \ {"answered"}
        BY DEF Outcomes
    <2> QED
        BY <1>4, <2>1, RetrievalEventsType DEF NothingFound, Admitted
<1>5. CASE AllChunksBlocked(i)
    <2>1. "query_blocked" \in Event /\ "all_chunks_blocked" \in Outcomes \ {"answered"}
        BY DEF Event, Outcomes
    <2>2. \A H, severity :
            Append(RetrievalEvents(i, H, severity), "query_blocked") \in Seq(Event)
        BY <2>1, RetrievalEventsType
    <2> QED
        BY <1>5, <2>1, <2>2 DEF AllChunksBlocked, Admitted
<1>6. CASE RouteBlocked(i)
    <2>1. "llm_routing_blocked" \in Outcomes \ {"answered"}
        BY DEF Outcomes
    <2>2. \A H, severity :
            RetrievalEvents(i, H, severity) \o RoutedEvents(policy) \in Seq(Event)
        BY RetrievalEventsType, RoutedEventsType
    <2> QED
        BY <1>6, <2>1, <2>2 DEF RouteBlocked, Admitted
<1> QED
    BY <1>1, <1>2, <1>3, <1>4, <1>5, <1>6 DEF RunQuery

LEMMA FinishType ==
    ASSUME TypeOK, NEW i \in Queries, Finish(i)
    PROVE  TypeOK'
<1>1. PICK r \in Replies, echo \in SUBSET CanaryIds :
        LET said == [scan |-> r.scan, grounded |-> r.grounded, tokens |-> echo]
            v == Verdict(i, said, pol[i])
        IN /\ reply' = [reply EXCEPT ![i] = said]
           /\ outcome' = [outcome EXCEPT ![i] = v]
           /\ log' = [log EXCEPT ![i] = log[i] \o Append(VerdictEvents(v), "query_completed")]
    BY DEF Finish
<1> DEFINE said == [scan |-> r.scan, grounded |-> r.grounded, tokens |-> echo]
           v == Verdict(i, said, pol[i])
<1>2. said \in [scan : Nat, grounded : BOOLEAN, tokens : SUBSET CanaryIds]
    BY ReplyAssumption
<1>3. v \in Outcomes /\ VerdictEvents(v) \in Seq(Event)
    BY VerdictType
<1>4. "query_completed" \in Event
    BY DEF Event
<1>5. Append(VerdictEvents(v), "query_completed") \in Seq(Event)
    BY <1>3, <1>4
<1>6. log' \in [Queries -> Seq(Event)]
    BY <1>1, <1>5 DEF TypeOK
<1>7. outcome' \in [Queries -> Outcomes]
    BY <1>1, <1>3 DEF TypeOK
<1>8. reply' \in [Queries -> [scan : Nat, grounded : BOOLEAN, tokens : SUBSET CanaryIds]
                              \cup {NoReply}]
    BY <1>1, <1>2 DEF TypeOK
<1>9. /\ pc' = [pc EXCEPT ![i] = "done"]
      /\ UNCHANGED <<store, config, auth, goneAt, pol, context, hit, route>>
    BY DEF Finish
<1> QED
    BY <1>6, <1>7, <1>8, <1>9 DEF TypeOK, store, config

\* Every step keeps the types.
LEMMA TypeStep == TypeOK /\ [Next]_vars => TypeOK'
<1> SUFFICES ASSUME TypeOK, [Next]_vars PROVE TypeOK'
    OBVIOUS
<1>1. CASE StoreNext
    BY <1>1, StoreType
<1>2. CASE ReloadPolicy
    BY <1>2 DEF ReloadPolicy, TypeOK, store, flight
<1>3. ASSUME NEW i \in Queries, NEW u \in Users, Authenticate(i, u)
      PROVE  TypeOK'
    <2>1. acl[u] \in SUBSET Groups
        BY AclAssumption DEF TypeOK
    <2>2. auth' \in [Queries -> [user : Users, groups : SUBSET Groups]]
        BY <1>3, <2>1 DEF Authenticate, TypeOK
    <2>3. Gone \subseteq Nat
        BY DEF Gone, TypeOK
    <2>4. goneAt' \in [Queries -> SUBSET Nat]
        BY <1>3, <2>3 DEF Authenticate, TypeOK
    <2> QED
        BY <1>3, <2>2, <2>4 DEF Authenticate, TypeOK, store, config
<1>4. ASSUME NEW i \in Queries, RunQuery(i)
      PROVE  TypeOK'
    <2>1. CASE CallLLM(i)
        BY <2>1, CallLLMType
    <2>2. CASE ~CallLLM(i)
        BY <1>4, <2>2, EarlyReturn, RespondType
    <2> QED
        BY <2>1, <2>2
<1>5. ASSUME NEW i \in Queries, Finish(i)
      PROVE  TypeOK'
    BY <1>5, FinishType
<1>6. ASSUME NEW i \in Queries, MalformedReply(i)
      PROVE  TypeOK'
    BY <1>6 DEF MalformedReply, TypeOK, store, config
<1>7. CASE UNCHANGED vars
    BY <1>7 DEF TypeOK, vars, store, config, flight
<1> QED
    BY <1>1, <1>2, <1>3, <1>4, <1>5, <1>6, <1>7 DEF Next, QueryNext

LEMMA TypeInit == Init => TypeOK
<1> SUFFICES ASSUME Init PROVE TypeOK
    OBVIOUS
<1>1. (CHOOSE u \in Users : TRUE) \in Users
    BY UserAssumption
<1>2. "none" \in Outcomes
    BY DEF Outcomes
<1> QED
    BY <1>1, <1>2, BoundAssumption, SentinelAssumption DEF Init, TypeOK

\* Type correctness: no handler, in any interleaving, stores a value of the
\* wrong kind; an outcome and an audit kind are always of the known vocabulary.
THEOREM TypeCorrect == Spec => []TypeOK
BY TypeInit, TypeStep, PTL DEF Spec
-----------------------------------------------------------------------------
(* The corpus.                                                             *)

\* A query or a reload leaves the store alone.
LEMMA StoreUntouched ==
    ASSUME [Next]_vars, ~StoreNext
    PROVE  UNCHANGED store
<1>1. ASSUME NEW i \in Queries, RunQuery(i)
      PROVE  UNCHANGED store
    BY <1>1 DEF RunQuery, RateLimited, QueryBlocked, ExtractionStop, NothingFound,
                AllChunksBlocked, RouteBlocked, CallLLM, Respond
<1> QED
    BY <1>1 DEF Next, QueryNext, ReloadPolicy, Authenticate, Finish, MalformedReply, vars

\* Replacing or dropping one document keeps rows and chunks of one version.
LEMMA WriteOneVersion ==
    ASSUME TypeOK, OneVersion, NEW d \in AllIds, NEW row \in Row, NEW parts,
           row.gen = gen + 1, Write(d, row, parts)
    PROVE  OneVersion'
<1>1. documents' = [documents EXCEPT ![d] = row] /\ documents \in [AllIds -> Row \cup {NoDoc}]
    BY DEF Write, TypeOK
<1>2. ASSUME NEW c \in chunks', c \in chunks, c.doc # d
      PROVE  documents'[c.doc] # NoDoc /\ documents'[c.doc].gen = c.gen
    <2>1. c.doc \in AllIds
        BY <1>2 DEF TypeOK, ChunkRow
    <2> QED
        BY <1>1, <1>2, <2>1 DEF OneVersion
<1>3. row # NoDoc
    BY SentinelAssumption
<1>4. ASSUME NEW c \in chunks', c \in ChunkRows(d, gen + 1, parts)
      PROVE  documents'[c.doc] # NoDoc /\ documents'[c.doc].gen = c.gen
    <2>1. c.doc = d /\ c.gen = gen + 1
        BY <1>4 DEF ChunkRows
    <2> QED
        BY <1>1, <1>3, <2>1
<1> QED
    BY <1>2, <1>4 DEF OneVersion, Write

LEMMA DropOneVersion ==
    ASSUME TypeOK, OneVersion, NEW d \in AllIds, Drop(d)
    PROVE  OneVersion'
<1>1. \A c \in chunks' : c \in chunks /\ c.doc # d /\ c.doc \in AllIds
    BY DEF Drop, TypeOK, ChunkRow
<1>2. \A e \in AllIds \ {d} : documents'[e] = documents[e]
    BY DEF Drop, TypeOK
<1> QED
    BY <1>1, <1>2 DEF OneVersion

LEMMA OneVersionStep == TypeOK /\ OneVersion /\ [Next]_vars => OneVersion'
<1> SUFFICES ASSUME TypeOK, OneVersion, [Next]_vars PROVE OneVersion'
    OBVIOUS
<1>1. ASSUME NEW d \in AllIds, NEW k \in Contents, NEW g \in GroupLists,
             NEW b \in BOOLEAN, Ingest(d, k, g, b)
      PROVE  OneVersion'
    <2> DEFINE row == [gen |-> gen + 1, groups |-> g, canary |-> b,
                       quarantined |-> Quarantines(k.scan, policy), class |-> k.class]
    <2>1. k.class \in Classes \cup {NoClass} /\ g \in SUBSET Groups /\ gen + 1 \in Nat
        BY ContentAssumption, GroupAssumption DEF TypeOK
    <2>2. row \in Row /\ row.gen = gen + 1
        BY <2>1 DEF Row, Quarantines
    <2> QED
        BY <1>1, <2>2, WriteOneVersion DEF Ingest
<1>2. ASSUME NEW d \in AllIds, DeleteDocument(d) \/ RetireCanary(d)
      PROVE  OneVersion'
    BY <1>2, DropOneVersion DEF DeleteDocument, RetireCanary
<1>3. ASSUME NEW d \in AllIds,
             \/ \E q \in BOOLEAN : SetStatus(d, q)
             \/ \E g \in GroupLists : UpdateAcl(d, g)
      PROVE  OneVersion'
    <2>1. chunks' = chunks /\ \A c \in chunks : c.doc \in AllIds
        BY <1>3 DEF SetStatus, UpdateAcl, TypeOK, ChunkRow
    <2>2. documents[d] \in Row
        BY <1>3 DEF SetStatus, UpdateAcl, TypeOK
    <2>3. documents'[d] \in Row /\ documents'[d].gen = documents[d].gen
        <3>1. ASSUME NEW q \in BOOLEAN, SetStatus(d, q)
              PROVE  documents'[d] \in Row /\ documents'[d].gen = documents[d].gen
            <4>1. documents'[d] = [documents[d] EXCEPT !.quarantined = q]
                BY <3>1 DEF SetStatus, TypeOK
            <4> QED
                BY <2>2, <4>1 DEF Row
        <3>2. ASSUME NEW g \in GroupLists, UpdateAcl(d, g)
              PROVE  documents'[d] \in Row /\ documents'[d].gen = documents[d].gen
            <4>1. documents'[d] = [documents[d] EXCEPT !.groups = g]
                BY <3>2 DEF UpdateAcl, TypeOK
            <4> QED
                BY <2>2, <4>1, GroupAssumption DEF Row
        <3> QED
            BY <1>3, <3>1, <3>2
    <2>4. \A e \in AllIds \ {d} : documents'[e] = documents[e]
        BY <1>3 DEF SetStatus, UpdateAcl, TypeOK
    <2> QED
        BY <2>1, <2>3, <2>4, SentinelAssumption DEF OneVersion
<1>4. ASSUME NEW d \in CanaryIds, NEW g \in GroupLists, SeedCanary(d, g)
      PROVE  OneVersion'
    <2> DEFINE row == [gen |-> gen + 1, groups |-> g, canary |-> TRUE,
                       quarantined |-> FALSE, class |-> NoClass]
    <2>1. row \in Row /\ row.gen = gen + 1 /\ d \in AllIds
        BY GroupAssumption DEF Row, TypeOK, AllIds
    <2> QED
        BY <1>4, <2>1, WriteOneVersion DEF SeedCanary
<1>5. CASE ~StoreNext
    BY <1>5, StoreUntouched DEF OneVersion, store
<1> QED
    BY <1>1, <1>2, <1>3, <1>4, <1>5 DEF StoreNext

\* Search never joins the chunks of one version of a document with the row
\* (groups, quarantine, canary mark) of another.
THEOREM VersionsConsistent == Spec => []OneVersion
<1>1. Init => OneVersion
    BY DEF Init, OneVersion
<1> QED
    BY <1>1, TypeCorrect, OneVersionStep, PTL DEF Spec
-----------------------------------------------------------------------------
(* The gates of a query.  The properties hold of every query separately and *)
(* speak of its private copies only, so the invariant is stated per query.  *)

\* What is known of a query at each point of its life.
Flow(i) ==
    /\ pc[i] \in {"idle", "authenticated"} => context[i] = {}
    /\ pc[i] = "awaiting" => context[i] # {}
    /\ pc[i] # "done" => outcome[i] = "none"
    /\ goneAt[i] \subseteq Gone

Evidence(i) ==
    \A c \in context[i] :
        /\ pol[i] # NoPolicy
        /\ CanAccess(auth[i].groups, c.groups)
        /\ ~c.quarantined
        /\ ~BlocksInput(c.scan, pol[i])
        /\ c.canary => ~pol[i].canary \/ IsAuditor(auth[i], pol[i])
        /\ c.gen \notin goneAt[i]

Answer(i) ==
    outcome[i] = "answered" =>
        /\ context[i] # {}
        /\ reply[i].grounded
        /\ ~BlocksOutput(reply[i].scan, pol[i])
        /\ pol[i].canary /\ pol[i].backstop => reply[i].tokens \cap hit[i] = {}

Route(i) ==
    context[i] # {} /\ pol[i].routing /\ pol[i].fail_closed =>
        \A c \in context[i] : c.class # NoClass /\ pol[i].route[c.class] # route[i] =>
            \E d \in context[i] : /\ d.class \in pol[i].mapped
                                  /\ pol[i].route[d.class] = route[i]
                                  /\ pol[i].rank[d.class] <= pol[i].rank[c.class]

QueryInv == \A i \in Queries : Flow(i) /\ Evidence(i) /\ Answer(i) /\ Route(i)

\* A version that left the corpus never comes back: versions are not reused.
LEMMA GoneGrows == TypeOK /\ [Next]_vars => Gone \subseteq Gone'
<1> SUFFICES ASSUME TypeOK, [Next]_vars PROVE Gone \subseteq Gone'
    OBVIOUS
<1>1. ASSUME NEW d \in AllIds, NEW row, NEW parts, row.gen = gen + 1, Write(d, row, parts)
      PROVE  Gone \subseteq Gone'
    <2>1. gen \in Nat /\ gen' = gen + 1
        BY <1>1 DEF TypeOK, Write
    <2>2. Live' \subseteq Live \cup {gen + 1}
        BY <1>1 DEF Write, TypeOK, Live
    <2> QED
        BY <2>1, <2>2 DEF Gone
<1>2. ASSUME gen' = gen, Live' \subseteq Live
      PROVE  Gone \subseteq Gone'
    BY <1>2 DEF Gone
<1>3. ASSUME NEW d \in AllIds, DeleteDocument(d) \/ RetireCanary(d)
      PROVE  Gone \subseteq Gone'
    <2>1. Drop(d) /\ documents \in [AllIds -> Row \cup {NoDoc}]
        BY <1>3 DEF DeleteDocument, RetireCanary, TypeOK
    <2>2. \A e \in AllIds : documents'[e] # NoDoc => documents'[e] = documents[e]
        BY <2>1 DEF Drop
    <2>3. Live' \subseteq Live /\ gen' = gen
        BY <2>1, <2>2 DEF Drop, Live
    <2> QED
        BY <1>2, <2>3
<1>4. ASSUME NEW d \in AllIds, NEW q \in BOOLEAN, SetStatus(d, q)
      PROVE  Gone \subseteq Gone'
    <2>1. documents[d] \in Row
        BY <1>4 DEF SetStatus, TypeOK
    <2>2. documents'[d] = [documents[d] EXCEPT !.quarantined = q]
        BY <1>4 DEF SetStatus, TypeOK
    <2>3. documents'[d].gen = documents[d].gen
        BY <2>1, <2>2 DEF Row
    <2>4. \A e \in AllIds \ {d} : documents'[e] = documents[e]
        BY <1>4 DEF SetStatus, TypeOK
    <2>5. \A e \in AllIds : documents'[e] # NoDoc =>
              documents[e] # NoDoc /\ documents'[e].gen = documents[e].gen
        BY <2>1, <2>3, <2>4, SentinelAssumption
    <2>6. Live' \subseteq Live /\ gen' = gen
        BY <1>4, <2>5 DEF SetStatus, Live
    <2> QED
        BY <1>2, <2>6
<1>5. ASSUME NEW d \in AllIds, NEW g \in GroupLists, UpdateAcl(d, g)
      PROVE  Gone \subseteq Gone'
    <2>1. documents[d] \in Row
        BY <1>5 DEF UpdateAcl, TypeOK
    <2>2. documents'[d] = [documents[d] EXCEPT !.groups = g]
        BY <1>5 DEF UpdateAcl, TypeOK
    <2>3. documents'[d].gen = documents[d].gen
        BY <2>1, <2>2 DEF Row
    <2>4. \A e \in AllIds \ {d} : documents'[e] = documents[e]
        BY <1>5 DEF UpdateAcl, TypeOK
    <2>5. \A e \in AllIds : documents'[e] # NoDoc =>
              documents[e] # NoDoc /\ documents'[e].gen = documents[e].gen
        BY <2>1, <2>3, <2>4, SentinelAssumption
    <2>6. Live' \subseteq Live /\ gen' = gen
        BY <1>5, <2>5 DEF UpdateAcl, Live
    <2> QED
        BY <1>2, <2>6
<1>6. ASSUME NEW d \in AllIds, NEW k \in Contents, NEW g \in GroupLists,
             NEW b \in BOOLEAN, Ingest(d, k, g, b)
      PROVE  Gone \subseteq Gone'
    BY <1>1, <1>6 DEF Ingest
<1>7. ASSUME NEW d \in CanaryIds, NEW g \in GroupLists, SeedCanary(d, g)
      PROVE  Gone \subseteq Gone'
    BY <1>1, <1>7 DEF SeedCanary, AllIds
<1>8. CASE ~StoreNext
    BY <1>8, StoreUntouched DEF store, Gone, Live
<1> QED
    BY <1>3, <1>4, <1>5, <1>6, <1>7, <1>8 DEF StoreNext

\* Nothing that leaves a query's own variables alone disturbs its invariant.
LEMMA QueryFrame ==
    ASSUME NEW i \in Queries, Flow(i), Evidence(i), Answer(i), Route(i), Gone \subseteq Gone',
           UNCHANGED <<pc[i], auth[i], goneAt[i], pol[i], context[i], hit[i], route[i],
                       reply[i], outcome[i]>>
    PROVE  (Flow(i) /\ Evidence(i) /\ Answer(i) /\ Route(i))'
BY DEF Flow, Evidence, Answer, Route

\* What CallLLM hands to the endpoint passed the gates of the policy it read.
LEMMA CallLLMGated ==
    ASSUME TypeOK, OneVersion, NEW i \in Queries, Flow(i), CallLLM(i)
    PROVE  (Flow(i) /\ Evidence(i) /\ Answer(i) /\ Route(i))'
<1> DEFINE C(H) == ContextOf(Kept(auth[i], policy, H), policy)
<1>0. PICK H \in Search(auth[i].groups) :
        /\ C(H) # {}
        /\ context' = [context EXCEPT ![i] = C(H)]
        /\ \E w \in Winning(C(H), policy) :
             /\ ResolveRoute(policy, w) # "blocked"
             /\ route' = [route EXCEPT ![i] = ResolveRoute(policy, w)]
    BY DEF CallLLM
<1>1. PICK w \in Winning(C(H), policy) :
        /\ C(H) # {}
        /\ context' = [context EXCEPT ![i] = C(H)]
        /\ ResolveRoute(policy, w) # "blocked"
        /\ route' = [route EXCEPT ![i] = ResolveRoute(policy, w)]
    BY <1>0
<1>2. /\ pc[i] = "authenticated" /\ pc' = [pc EXCEPT ![i] = "awaiting"]
      /\ pol' = [pol EXCEPT ![i] = policy]
      /\ UNCHANGED <<store, auth, goneAt, reply, outcome>>
    BY DEF CallLLM, Admitted, Starts
<1>3. /\ context'[i] = C(H) /\ pol'[i] = policy /\ pc'[i] = "awaiting"
      /\ route'[i] = ResolveRoute(policy, w)
      /\ UNCHANGED <<auth[i], goneAt[i], reply[i], outcome[i], Gone>>
    BY <1>1, <1>2 DEF TypeOK, store, Gone, Live
<1>4. auth[i].groups \in SUBSET Groups /\ policy \in Policies
    BY DEF TypeOK
<1>5. Flow(i)'
    BY <1>1, <1>2, <1>3 DEF Flow
<1>6. Evidence(i)'
    <2> SUFFICES ASSUME NEW c \in C(H)
                 PROVE  /\ policy # NoPolicy
                        /\ CanAccess(auth[i].groups, c.groups)
                        /\ ~c.quarantined
                        /\ ~BlocksInput(c.scan, policy)
                        /\ c.canary => ~policy.canary \/ IsAuditor(auth[i], policy)
                        /\ c.gen \notin goneAt[i]
        BY <1>3 DEF Evidence
    <2>1. c \in H
        BY ContextShrinks
    <2>2. /\ CanAccess(auth[i].groups, c.groups) /\ ~c.quarantined
          /\ \E r \in chunks : c = Joined(r) /\ documents[r.doc] # NoDoc
        BY <1>4, <2>1, SearchGated
    <2>3. c.gen \in Live
        <3>1. PICK r \in chunks : c = Joined(r) /\ documents[r.doc] # NoDoc
            BY <2>2
        <3>2. c.gen = documents[r.doc].gen /\ r.doc \in AllIds
            BY <3>1 DEF Joined, OneVersion, TypeOK, ChunkRow
        <3> QED
            BY <3>1, <3>2 DEF Live
    <2>4. c.gen \notin goneAt[i]
        BY <2>3 DEF Flow, Gone
    <2> QED
        BY <1>4, <2>2, <2>4, ContextPasses, SentinelAssumption
<1>7. Answer(i)'
    <2>1. outcome[i] = "none"
        BY <1>2 DEF Flow
    <2> QED
        BY <1>3, <2>1 DEF Answer
<1>8. Route(i)'
    <2> SUFFICES ASSUME policy.routing, policy.fail_closed, NEW c \in C(H),
                        c.class # NoClass, policy.route[c.class] # ResolveRoute(policy, w)
                 PROVE  \E d \in C(H) : /\ d.class \in policy.mapped
                                        /\ policy.route[d.class] = ResolveRoute(policy, w)
                                        /\ policy.rank[d.class] <= policy.rank[c.class]
        BY <1>3 DEF Route
    <2>1. PICK d \in C(H) : d.class = w /\ w # NoClass /\ policy.rank[w] <= policy.rank[c.class]
        BY DEF Winning
    <2>2. w \in policy.mapped
        BY <1>1, <2>1 DEF ResolveRoute
    <2>3. ResolveRoute(policy, w) = policy.route[w]
        BY <1>1, <2>1, <2>2 DEF ResolveRoute
    <2> QED
        BY <2>1, <2>2, <2>3
<1> QED
    BY <1>5, <1>6, <1>7, <1>8

\* An early return has no context and no answer.
LEMMA EarlyReturnGated ==
    ASSUME TypeOK, NEW i \in Queries, Flow(i), RunQuery(i), ~CallLLM(i)
    PROVE  (Flow(i) /\ Evidence(i) /\ Answer(i) /\ Route(i))'
<1>1. PICK why \in Outcomes \ {"answered"}, events \in Seq(Event) : Respond(i, why, events)
    BY EarlyReturn
<1>2. pc[i] = "authenticated" /\ UNCHANGED <<store, context, goneAt>>
    BY <1>1, EarlyReturn DEF Starts, Respond
<1>3. context'[i] = {} /\ pc'[i] = "done" /\ outcome'[i] = why
    BY <1>1, <1>2 DEF Flow, Respond, TypeOK
<1>4. Gone' = Gone
    BY <1>2 DEF store, Gone, Live
<1> QED
    BY <1>2, <1>3, <1>4 DEF Flow, Evidence, Answer, Route

\* What Finish releases passed the gates after the await.
LEMMA FinishGated ==
    ASSUME TypeOK, NEW i \in Queries, Flow(i), Evidence(i), Answer(i), Route(i), Finish(i)
    PROVE  (Flow(i) /\ Evidence(i) /\ Answer(i) /\ Route(i))'
<1>1. PICK r \in Replies, echo \in SUBSET CanaryIds :
        LET said == [scan |-> r.scan, grounded |-> r.grounded, tokens |-> echo]
        IN /\ reply' = [reply EXCEPT ![i] = said]
           /\ outcome' = [outcome EXCEPT ![i] = Verdict(i, said, pol[i])]
    BY DEF Finish
<1> DEFINE said == [scan |-> r.scan, grounded |-> r.grounded, tokens |-> echo]
<1>2. /\ pc[i] = "awaiting" /\ pc'[i] = "done"
      /\ reply'[i] = said /\ outcome'[i] = Verdict(i, said, pol[i])
      /\ UNCHANGED <<auth[i], goneAt[i], pol[i], context[i], hit[i], route[i], Gone>>
    BY <1>1 DEF Finish, TypeOK, store, Gone, Live
<1>3. Verdict(i, said, pol[i]) = "answered" =>
        /\ said.grounded /\ ~BlocksOutput(said.scan, pol[i])
        /\ pol[i].canary /\ pol[i].backstop => said.tokens \cap hit[i] = {}
    BY DEF Verdict
<1>4. Flow(i)'
    BY <1>2 DEF Flow
<1>5. Evidence(i)' /\ Route(i)'
    BY <1>2 DEF Evidence, Route
<1>6. Answer(i)'
    BY <1>2, <1>3 DEF Answer, Flow
<1> QED
    BY <1>4, <1>5, <1>6

\* A query's step leaves the others where they are.
LEMMA OtherQueries ==
    ASSUME TypeOK, NEW i \in Queries, NEW j \in Queries, QueryNext(j), j # i
    PROVE  UNCHANGED <<pc[i], auth[i], goneAt[i], pol[i], context[i], hit[i], route[i],
                       reply[i], outcome[i], log[i]>>
<1>0. /\ DOMAIN pc = Queries /\ DOMAIN auth = Queries /\ DOMAIN goneAt = Queries
      /\ DOMAIN pol = Queries /\ DOMAIN context = Queries /\ DOMAIN route = Queries
      /\ DOMAIN hit = Queries /\ DOMAIN reply = Queries /\ DOMAIN outcome = Queries /\ DOMAIN log = Queries
    BY DEF TypeOK
<1>1. ASSUME NEW why, NEW events, Respond(j, why, events)
      PROVE  UNCHANGED <<pc[i], auth[i], goneAt[i], reply[i], outcome[i], log[i]>>
    BY <1>0, <1>1 DEF Respond
<1>2. Starts(j) => UNCHANGED pol[i]
    BY <1>0 DEF Starts
<1>3. CASE \E u \in Users : Authenticate(j, u)
    BY <1>0, <1>3 DEF Authenticate
<1>4. CASE RateLimited(j) \/ QueryBlocked(j)
    BY <1>1, <1>2, <1>4 DEF RateLimited, QueryBlocked
<1>5. CASE ExtractionStop(j) \/ NothingFound(j)
    BY <1>1, <1>2, <1>5 DEF ExtractionStop, NothingFound, Admitted
<1>6. CASE AllChunksBlocked(j) \/ RouteBlocked(j)
    BY <1>1, <1>2, <1>6 DEF AllChunksBlocked, RouteBlocked, Admitted
<1>7. CASE CallLLM(j)
  <2>1. /\ UNCHANGED <<auth, goneAt, reply, outcome>>
        /\ \E x : pc' = [pc EXCEPT ![j] = x]
        /\ \E x : context' = [context EXCEPT ![j] = x]
        /\ \E x : hit' = [hit EXCEPT ![j] = x]
        /\ \E x : route' = [route EXCEPT ![j] = x]
        /\ \E x : log' = [log EXCEPT ![j] = x]
    BY <1>7 DEF CallLLM
  <2>2. UNCHANGED pol[i]
    BY <1>2, <1>7 DEF CallLLM, Admitted
  <2> QED
    BY <1>0, <2>1, <2>2
<1>8. CASE Finish(j) \/ MalformedReply(j)
    BY <1>0, <1>1, <1>8 DEF Finish, MalformedReply
<1> QED
    BY <1>3, <1>4, <1>5, <1>6, <1>7, <1>8 DEF QueryNext, RunQuery

LEMMA QueryStep ==
    TypeOK /\ OneVersion /\ QueryInv /\ [Next]_vars => QueryInv'
<1> SUFFICES ASSUME TypeOK, OneVersion, QueryInv, [Next]_vars, NEW i \in Queries
             PROVE  (Flow(i) /\ Evidence(i) /\ Answer(i) /\ Route(i))'
    BY DEF QueryInv
<1>1. Flow(i) /\ Evidence(i) /\ Answer(i) /\ Route(i) /\ Gone \subseteq Gone'
    BY GoneGrows DEF QueryInv
<1>2. CASE StoreNext \/ ReloadPolicy \/ UNCHANGED vars
    <2>1. UNCHANGED flight
        BY <1>2, StoreType DEF ReloadPolicy, vars
    <2> QED
        BY <1>1, <2>1, QueryFrame DEF flight
<1>3. ASSUME NEW j \in Queries, QueryNext(j), j # i
      PROVE  (Flow(i) /\ Evidence(i) /\ Answer(i) /\ Route(i))'
    <2>1. UNCHANGED <<pc[i], auth[i], goneAt[i], pol[i], context[i], hit[i], route[i],
                      reply[i], outcome[i]>>
        BY <1>3, OtherQueries
    <2> QED
        BY <1>1, <2>1, QueryFrame
<1>4. ASSUME NEW u \in Users, Authenticate(i, u)
      PROVE  (Flow(i) /\ Evidence(i) /\ Answer(i) /\ Route(i))'
    <2>1. /\ pc[i] = "idle" /\ pc'[i] = "authenticated" /\ goneAt'[i] = Gone /\ Gone' = Gone
          /\ UNCHANGED <<context[i], hit[i], pol[i], outcome[i], reply[i], route[i]>>
        BY <1>4 DEF Authenticate, TypeOK, store, Gone, Live
    <2> QED
        BY <1>1, <2>1 DEF Flow, Evidence, Answer, Route
<1>5. CASE RunQuery(i)
    BY <1>1, <1>5, CallLLMGated, EarlyReturnGated
<1>6. CASE Finish(i)
    BY <1>1, <1>6, FinishGated
<1>7. CASE MalformedReply(i)
    <2>1. /\ pc[i] = "awaiting" /\ pc'[i] = "failed"
          /\ UNCHANGED <<auth[i], goneAt[i], pol[i], context[i], hit[i], route[i], reply[i],
                        outcome[i]>>
        BY <1>7 DEF MalformedReply, TypeOK
    <2> QED
        BY <1>1, <2>1 DEF Flow, Evidence, Answer, Route
<1> QED
    BY <1>2, <1>3, <1>4, <1>5, <1>6, <1>7 DEF Next, QueryNext

LEMMA QueryInit == Init => QueryInv
<1> SUFFICES ASSUME Init PROVE QueryInv
    OBVIOUS
<1>1. \A i \in Queries : /\ pc[i] = "idle" /\ context[i] = {} /\ goneAt[i] = {}
                         /\ outcome[i] = "none"
    BY DEF Init
<1> QED
    BY <1>1 DEF QueryInv, Flow, Evidence, Answer, Route

LEMMA QueryInvariant == Spec => []QueryInv
BY TypeCorrect, VersionsConsistent, QueryInit, QueryStep, PTL DEF Spec

\* Whatever reloads, re-ingests and ACL changes happen between authentication,
\* retrieval and answer, the LLM is given only chunks that passed every gate of
\* the one policy the handler read, for the groups resolved at authentication.
THEOREM ContextIsGated == Spec => []ContextGated
<1>1. QueryInv => ContextGated
    BY DEF QueryInv, Evidence, ContextGated
<1> QED
    BY <1>1, QueryInvariant, PTL

\* No prompt holds a version that was out of the corpus when its caller
\* authenticated.
THEOREM EvidenceIsFresh == Spec => []NoRetiredEvidence
<1>1. QueryInv => NoRetiredEvidence
    BY DEF QueryInv, Evidence, NoRetiredEvidence
<1> QED
    BY <1>1, QueryInvariant, PTL

\* An answer was grounded, passed the output scan of the captured policy and repeats
\* no token of the canary that tripped its query.
THEOREM AnswerIsGated == Spec => []AnswerGated
<1>1. QueryInv => AnswerGated
    BY DEF QueryInv, Answer, AnswerGated
<1> QED
    BY <1>1, QueryInvariant, PTL

\* Under fail-closed routing the endpoint is that of a most sensitive chunk.
THEOREM RouteFollowsSensitivity == Spec => []RoutedByMostSensitive
<1>1. QueryInv => RoutedByMostSensitive
    BY DEF QueryInv, Route, RoutedByMostSensitive
<1> QED
    BY <1>1, QueryInvariant, PTL
-----------------------------------------------------------------------------
(* Documents.                                                              *)

\* DELETE /v1/documents never takes a canary out: the step that removes one
\* leaves the trail as it is, as only retiring does.
THEOREM CanariesAreNotDeleted == Spec => CanaryDeleteRefused
<1> DEFINE Refused ==
        \A d \in AllIds :
            (documents[d] # NoDoc /\ documents[d].canary /\ documents'[d] = NoDoc)
                => trail' = trail
<1>1. TypeOK /\ [Next]_vars => [Refused]_vars
    <2> SUFFICES ASSUME TypeOK, [Next]_vars, NEW d \in AllIds, documents[d] # NoDoc,
                        documents[d].canary, documents'[d] = NoDoc
                 PROVE  trail' = trail
        OBVIOUS
    <2>1. documents \in [AllIds -> Row \cup {NoDoc}]
        BY DEF TypeOK
    <2>2. ASSUME NEW e \in AllIds, NEW k \in Contents, NEW g \in GroupLists,
                 NEW b \in BOOLEAN, Ingest(e, k, g, b)
          PROVE  FALSE
        <3> DEFINE row == [gen |-> gen + 1, groups |-> g, canary |-> b,
                           quarantined |-> Quarantines(k.scan, policy), class |-> k.class]
        <3>1. k.class \in Classes \cup {NoClass} /\ g \in SUBSET Groups /\ gen + 1 \in Nat
            BY ContentAssumption, GroupAssumption DEF TypeOK
        <3>2. row \in Row
            BY <3>1 DEF Row, Quarantines
        <3>3. row # NoDoc
            BY <3>2, SentinelAssumption
        <3>4. documents' = [documents EXCEPT ![e] = row]
            BY <2>2 DEF Ingest, Write
        <3> HIDE DEF row
        <3> QED
            BY <2>1, <3>3, <3>4
    <2>3. ASSUME NEW e \in AllIds, DeleteDocument(e)
          PROVE  FALSE
        BY <2>1, <2>3 DEF DeleteDocument, Drop
    <2>4. ASSUME ~StoreNext
          PROVE  trail' = trail
        BY <2>4, StoreUntouched DEF store
    <2> QED
        BY <2>2, <2>3, <2>4 DEF StoreNext, RetireCanary, SetStatus, UpdateAcl, SeedCanary
<1>2. [][Refused]_vars => CanaryDeleteRefused
    BY PTL DEF CanaryDeleteRefused
<1> QED
    BY <1>1, <1>2, TypeCorrect, PTL DEF Spec

Ingested(e) == e.kind = "ingest_completed"
InCorpus(e) == documents[e.doc] # NoDoc /\ documents[e.doc].gen = e.gen
Accounted(e) == \E f \in trail : /\ f.doc = e.doc
                                 /\ \/ f.kind = "document_deleted" /\ f.gen = e.gen
                                    \/ f.kind = "ingest_completed" /\ f.gen > e.gen

\* What the trail says of a document, with what keeps it true: a version carries the
\* mark it was ingested with, so that retiring cannot take an ordinary one, and a
\* canary id that was not minted has no row, so that seeding cannot replace it.
TrailInv ==
    /\ \A e \in trail : Ingested(e) =>
         /\ e.gen <= gen
         /\ InCorpus(e) \/ Accounted(e) \/ e.canary
         /\ InCorpus(e) => (documents[e.doc].canary <=> e.canary)
    /\ \A d \in CanaryIds \ minted : documents[d] = NoDoc

\* A step that keeps version and canary mark of every row it does not touch, and
\* of the rows it touches, keeps the accounts.
LEMMA TrailFrame ==
    ASSUME TypeOK, TrailInv, trail' = trail, gen' = gen, minted' = minted,
           \A d \in AllIds : /\ (documents'[d] = NoDoc) <=> (documents[d] = NoDoc)
                             /\ documents[d] # NoDoc => /\ documents'[d].gen = documents[d].gen
                                                        /\ documents'[d].canary = documents[d].canary
    PROVE  TrailInv'
<1>1. \A e \in trail : e.doc \in AllIds
    BY DEF TypeOK
<1>2. \A e \in trail : InCorpus(e)' <=> InCorpus(e)
    BY <1>1 DEF InCorpus
<1>3. \A e \in trail : InCorpus(e) => documents'[e.doc].canary = documents[e.doc].canary
    BY <1>1 DEF InCorpus
<1>4. \A e : Accounted(e)' <=> Accounted(e)
    BY DEF Accounted
<1> QED
    BY <1>2, <1>3, <1>4 DEF TrailInv, AllIds, Ingested

\* An event that joins the trail leaves what was accounted for accounted for.
LEMMA AccountsStay ==
    ASSUME trail \subseteq trail', NEW e, Accounted(e)
    PROVE  Accounted(e)'
BY DEF Accounted

LEMMA TrailStep == TypeOK /\ TrailInv /\ [Next]_vars => TrailInv'
<1> SUFFICES ASSUME TypeOK, TrailInv, [Next]_vars PROVE TrailInv'
    OBVIOUS
<1>0. /\ documents \in [AllIds -> Row \cup {NoDoc}] /\ gen \in Nat
      /\ \A e \in trail : e.doc \in AllIds /\ e.gen \in Nat
    BY DEF TypeOK
<1>1. ASSUME NEW d \in AllIds, NEW k \in Contents, NEW g \in GroupLists,
             NEW b \in BOOLEAN, Ingest(d, k, g, b)
      PROVE  TrailInv'
    <2> DEFINE row == [gen |-> gen + 1, groups |-> g, canary |-> b,
                       quarantined |-> Quarantines(k.scan, policy), class |-> k.class]
               new == [kind |-> "ingest_completed", doc |-> d, gen |-> gen + 1, canary |-> b]
    <2>1. k.class \in Classes \cup {NoClass} /\ g \in SUBSET Groups /\ gen + 1 \in Nat
        BY ContentAssumption, GroupAssumption DEF TypeOK
    <2>2. row \in Row /\ row.gen = gen + 1 /\ row.canary = b
        BY <2>1 DEF Row, Quarantines
    <2>3. /\ documents' = [documents EXCEPT ![d] = row] /\ trail' = trail \cup {new}
          /\ gen' = gen + 1 /\ minted' = minted /\ d \in Docs \cup minted
        BY <1>1 DEF Ingest, Write
    <2>4. documents'[d] = row /\ row # NoDoc
          /\ \A e \in AllIds \ {d} : documents'[e] = documents[e]
        BY <1>0, <2>2, <2>3, SentinelAssumption
    <2>5. new.doc = d /\ new.gen = gen + 1 /\ new.kind = "ingest_completed"
          /\ new.canary = b
        OBVIOUS
    <2> HIDE DEF row, new
    <2>6. ASSUME NEW e \in trail, Ingested(e)
          PROVE  /\ e.gen <= gen'
                 /\ InCorpus(e)' \/ Accounted(e)' \/ e.canary
                 /\ InCorpus(e)' => (documents'[e.doc].canary <=> e.canary)
        <3>1. e.gen <= gen /\ (InCorpus(e) \/ Accounted(e) \/ e.canary)
              /\ (InCorpus(e) => (documents[e.doc].canary <=> e.canary))
            BY <2>6 DEF TrailInv
        <3>2. CASE e.doc = d
            <4>1. Accounted(e)'
                BY <1>0, <2>3, <2>5, <3>1, <3>2 DEF Accounted
            <4>2. ~InCorpus(e)'
                <5>1. documents'[e.doc].gen = gen + 1 /\ e.gen \in Nat
                    BY <1>0, <2>2, <2>4, <3>2
                <5> QED
                    BY <1>0, <3>1, <5>1 DEF InCorpus
            <4> QED
                BY <1>0, <2>3, <3>1, <4>1, <4>2
        <3>3. CASE e.doc # d
            <4>1. documents'[e.doc] = documents[e.doc]
                BY <1>0, <2>4, <3>3
            <4> QED
                BY <1>0, <2>3, <3>1, <4>1, AccountsStay DEF InCorpus
        <3> QED
            BY <3>2, <3>3
    <2>7. ASSUME NEW e \in trail' \ trail
          PROVE  /\ e.gen <= gen'
                 /\ InCorpus(e)'
                 /\ documents'[e.doc].canary <=> e.canary
        <3>1. e.doc = d /\ e.gen = gen + 1 /\ e.canary = b
            BY <2>3, <2>5
        <3> QED
            BY <1>0, <2>2, <2>3, <2>4, <3>1 DEF InCorpus
    <2>8. \A c \in CanaryIds \ minted' : documents'[c] = NoDoc
        BY <2>3, <2>4, SentinelAssumption DEF TrailInv, AllIds
    <2> QED
        BY <2>6, <2>7, <2>8 DEF TrailInv
<1>2. ASSUME NEW d \in AllIds, Drop(d), documents[d] # NoDoc,
             \/ trail' = trail /\ documents[d].canary
             \/ trail' = trail \cup
                    {[kind |-> "document_deleted", doc |-> d, gen |-> documents[d].gen,
                      canary |-> FALSE]}
      PROVE  TrailInv'
    <2>1. /\ documents'[d] = NoDoc /\ \A e \in AllIds \ {d} : documents'[e] = documents[e]
          /\ gen' = gen /\ minted' = minted /\ trail \subseteq trail'
        BY <1>0, <1>2 DEF Drop
    <2>2. \A e \in trail' : Ingested(e) => e \in trail
        BY <1>2 DEF Ingested
    <2>3. ASSUME NEW e \in trail, Ingested(e)
          PROVE  /\ InCorpus(e)' \/ Accounted(e)' \/ e.canary
                 /\ InCorpus(e)' => (documents'[e.doc].canary <=> e.canary)
        <3>1. /\ InCorpus(e) \/ Accounted(e) \/ e.canary
              /\ InCorpus(e) => (documents[e.doc].canary <=> e.canary)
            BY <2>3 DEF TrailInv
        <3>2. CASE e.doc = d /\ InCorpus(e) /\ ~e.canary
            <4>1. [kind |-> "document_deleted", doc |-> d, gen |-> documents[d].gen,
                   canary |-> FALSE] \in trail'
                BY <1>2, <3>1, <3>2
            <4>2. Accounted(e)'
                BY <3>2, <4>1 DEF Accounted, InCorpus
            <4> QED
                BY <2>1, <3>2, <4>2 DEF InCorpus
        <3>3. CASE e.doc # d
            <4>1. documents'[e.doc] = documents[e.doc]
                BY <1>0, <2>1, <3>3
            <4> QED
                BY <2>1, <3>1, <4>1, AccountsStay DEF InCorpus
        <3>4. CASE e.doc = d /\ (~InCorpus(e) \/ e.canary)
            BY <2>1, <3>1, <3>4, AccountsStay DEF InCorpus
        <3> QED
            BY <3>2, <3>3, <3>4
    <2>4. \A c \in CanaryIds \ minted' : documents'[c] = NoDoc
        BY <2>1 DEF TrailInv, AllIds
    <2> QED
        BY <2>1, <2>2, <2>3, <2>4 DEF TrailInv
<1>3. ASSUME NEW d \in AllIds, DeleteDocument(d) \/ RetireCanary(d)
      PROVE  TrailInv'
    BY <1>2, <1>3 DEF DeleteDocument, RetireCanary
<1>4. ASSUME NEW d \in AllIds, NEW q \in BOOLEAN, SetStatus(d, q)
      PROVE  TrailInv'
    <2>1. documents[d] \in Row /\ documents'[d] = [documents[d] EXCEPT !.quarantined = q]
          /\ \A e \in AllIds \ {d} : documents'[e] = documents[e]
        BY <1>0, <1>4 DEF SetStatus
    <2>2. /\ documents'[d] \in Row
          /\ documents'[d].gen = documents[d].gen
          /\ documents'[d].canary = documents[d].canary
        BY <2>1 DEF Row
    <2>3. documents'[d] # NoDoc /\ documents[d] # NoDoc
        BY <2>1, <2>2, SentinelAssumption
    <2> QED
        BY <1>4, <2>1, <2>2, <2>3, TrailFrame DEF SetStatus
<1>5. ASSUME NEW d \in AllIds, NEW g \in GroupLists, UpdateAcl(d, g)
      PROVE  TrailInv'
    <2>1. documents[d] \in Row /\ documents'[d] = [documents[d] EXCEPT !.groups = g]
          /\ \A e \in AllIds \ {d} : documents'[e] = documents[e]
        BY <1>0, <1>5 DEF UpdateAcl
    <2>2. /\ documents'[d] \in Row
          /\ documents'[d].gen = documents[d].gen
          /\ documents'[d].canary = documents[d].canary
        BY <2>1, GroupAssumption DEF Row
    <2>3. documents'[d] # NoDoc /\ documents[d] # NoDoc
        BY <2>1, <2>2, SentinelAssumption
    <2> QED
        BY <1>5, <2>1, <2>2, <2>3, TrailFrame DEF UpdateAcl
<1>6. ASSUME NEW d \in CanaryIds, NEW g \in GroupLists, SeedCanary(d, g)
      PROVE  TrailInv'
    <2> DEFINE row == [gen |-> gen + 1, groups |-> g, canary |-> TRUE,
                       quarantined |-> FALSE, class |-> NoClass]
    <2>1. /\ documents' = [documents EXCEPT ![d] = row] /\ trail' = trail
          /\ gen' = gen + 1 /\ minted' = minted \cup {d} /\ d \notin minted
          /\ d \in AllIds /\ row.gen = gen + 1
        BY <1>6 DEF SeedCanary, Write, AllIds
    <2>2. documents[d] = NoDoc /\ documents'[d].gen = gen + 1
          /\ \A e \in AllIds \ {d} : documents'[e] = documents[e]
        BY <1>0, <2>1 DEF TrailInv
    <2> HIDE DEF row
    <2>3. ASSUME NEW e \in trail, Ingested(e)
          PROVE  /\ e.gen <= gen'
                 /\ InCorpus(e)' \/ Accounted(e)' \/ e.canary
                 /\ InCorpus(e)' => (documents'[e.doc].canary <=> e.canary)
        <3>1. /\ e.gen <= gen
              /\ InCorpus(e) \/ Accounted(e) \/ e.canary
              /\ InCorpus(e) => (documents[e.doc].canary <=> e.canary)
            BY <2>3 DEF TrailInv
        <3>2. CASE e.doc = d
            BY <1>0, <2>1, <2>2, <3>1, <3>2, AccountsStay DEF InCorpus
        <3>3. CASE e.doc # d
            <4>1. documents'[e.doc] = documents[e.doc]
                BY <1>0, <2>2, <3>3
            <4> QED
                BY <1>0, <2>1, <3>1, <4>1, AccountsStay DEF InCorpus
        <3> QED
            BY <3>2, <3>3
    <2>4. \A c \in CanaryIds \ minted' : documents'[c] = NoDoc
        BY <2>1, <2>2 DEF TrailInv, AllIds
    <2> QED
        BY <2>1, <2>3, <2>4 DEF TrailInv
<1>7. CASE ~StoreNext
    BY <1>7, StoreUntouched, TrailFrame DEF store
<1> QED
    BY <1>1, <1>3, <1>4, <1>5, <1>6, <1>7 DEF StoreNext

\* No version an operator ingested leaves the corpus without an event that names its
\* deletion or the ingest that replaced it, but for those ingested as canaries.
THEOREM RemovalsAreAccounted == Spec => []RemovalsAccounted
<1>1. Init => TrailInv
    BY DEF Init, TrailInv, AllIds
<1>2. TrailInv => RemovalsAccounted
    BY DEF TrailInv, RemovalsAccounted, Ingested, InCorpus, Accounted
<1> QED
    BY <1>1, <1>2, TypeCorrect, TrailStep, PTL DEF Spec
-----------------------------------------------------------------------------
(* Queries.                                                                *)

\* Events that do not end a query, and those that say why it was refused.
Passing == {"canary_triggered", "extraction_suspected", "llm_routed"}
Reasons == Passing \cup {"query_blocked", "rate_limited", "citation_failed"}
Holds(s, e) == \E k \in DOMAIN s : s[k] = e

LEMMA PassingEvents ==
    /\ \A i, H, severity : RetrievalEvents(i, H, severity) \in Seq(Passing)
    /\ \A p : RoutedEvents(p) \in Seq(Passing)
<1>1. ASSUME NEW i, NEW H, NEW severity
      PROVE  RetrievalEvents(i, H, severity) \in Seq(Passing)
    <2> DEFINE a == IF Tripped(auth[i], policy, H) THEN <<"canary_triggered">> ELSE <<>>
               b == IF severity = "none" THEN <<>> ELSE <<"extraction_suspected">>
    <2>1. "canary_triggered" \in Passing /\ "extraction_suspected" \in Passing
        BY DEF Passing
    <2>2. a \in Seq(Passing) /\ b \in Seq(Passing)
        BY <2>1
    <2>3. a \o b \in Seq(Passing)
        BY <2>2
    <2> QED
        BY <2>3 DEF RetrievalEvents
<1>2. ASSUME NEW p PROVE RoutedEvents(p) \in Seq(Passing)
    <2>1. "llm_routed" \in Passing
        BY DEF Passing
    <2> QED
        BY <2>1 DEF RoutedEvents
<1> QED
    BY <1>1, <1>2

\* A suspicion that stops a query is on its log, and so is a routing refusal.
LEMMA ReasonsLogged ==
    /\ \A i, H, severity :
         Throttles(severity) => Holds(RetrievalEvents(i, H, severity), "extraction_suspected")
    /\ \A i, H, severity, w :
         ResolveRoute(policy, w) = "blocked" =>
            Holds(RetrievalEvents(i, H, severity) \o RoutedEvents(policy), "llm_routed")
<1>1. ASSUME NEW i, NEW H, NEW severity, Throttles(severity)
      PROVE  Holds(RetrievalEvents(i, H, severity), "extraction_suspected")
    <2> DEFINE a == IF Tripped(auth[i], policy, H) THEN <<"canary_triggered">> ELSE <<>>
    <2>0. "canary_triggered" \in Passing
        BY DEF Passing
    <2>1. a \in Seq(Passing)
        BY <2>0
    <2>2. RetrievalEvents(i, H, severity) = a \o <<"extraction_suspected">>
        BY <1>1 DEF RetrievalEvents, Throttles
    <2>3. Len(a) + 1 \in DOMAIN (a \o <<"extraction_suspected">>)
          /\ (a \o <<"extraction_suspected">>)[Len(a) + 1] = "extraction_suspected"
        BY <2>1
    <2> QED
        BY <2>2, <2>3 DEF Holds
<1>2. ASSUME NEW i, NEW H, NEW severity, NEW w, ResolveRoute(policy, w) = "blocked"
      PROVE  Holds(RetrievalEvents(i, H, severity) \o RoutedEvents(policy), "llm_routed")
    <2> DEFINE a == RetrievalEvents(i, H, severity)
    <2>1. a \in Seq(Passing)
        BY PassingEvents
    <2>2. RoutedEvents(policy) = <<"llm_routed">>
        BY <1>2, SentinelAssumption DEF ResolveRoute, RoutedEvents
    <2> HIDE DEF a
    <2>3. Len(a) + 1 \in DOMAIN (a \o <<"llm_routed">>)
          /\ (a \o <<"llm_routed">>)[Len(a) + 1] = "llm_routed"
        BY <2>1
    <2> QED
        BY <2>2, <2>3 DEF Holds, a
<1> QED
    BY <1>1, <1>2

\* What the log of a query that got a response holds before query_completed.
Explains(s, o) ==
    /\ s \in Seq(Reasons)
    /\ o \in {"answered", "no_documents"} => s \in Seq(Passing)
    /\ o \in Outcomes
    /\ Cause[o] = "query_completed" \/ Holds(s, Cause[o])

LogInv(i) ==
    /\ pc[i] \in {"idle", "authenticated"} => log[i] = <<>>
    /\ pc[i] # "done" => log[i] \in Seq(Passing)
    /\ pc[i] = "done" => \E s : /\ log[i] = Append(s, "query_completed")
                                /\ Explains(s, outcome[i])

LEMMA CauseOf ==
    /\ Cause["rate_limited"] = "rate_limited"
    /\ Cause["query_guardrail_blocked"] = "query_blocked"
    /\ Cause["all_chunks_blocked"] = "query_blocked"
    /\ Cause["output_guardrail_blocked"] = "query_blocked"
    /\ Cause["extraction_suspected"] = "extraction_suspected"
    /\ Cause["llm_routing_blocked"] = "llm_routed"
    /\ Cause["citation_failed"] = "citation_failed"
    /\ Cause["canary_token_in_output"] = "canary_triggered"
    /\ Cause["no_documents"] = "query_completed"
    /\ Cause["answered"] = "query_completed"
BY DEF Cause, Outcomes

\* A single event explains an outcome whose cause it is.
LEMMA OneReason ==
    ASSUME NEW s \in Seq(Passing), NEW e \in Reasons, NEW o \in Outcomes \ {"answered", "no_documents"},
           Cause[o] = e
    PROVE  Explains(Append(s, e), o)
<1>1. Append(s, e) \in Seq(Reasons)
    <2>1. s \in Seq(Reasons)
        BY DEF Reasons
    <2> QED
        BY <2>1
<1>2. Len(s) + 1 \in DOMAIN Append(s, e) /\ Append(s, e)[Len(s) + 1] = e
    OBVIOUS
<1> QED
    BY <1>1, <1>2 DEF Explains, Holds

LEMMA EarlyReturnExplained ==
    ASSUME TypeOK, NEW i \in Queries, LogInv(i), RunQuery(i), ~CallLLM(i)
    PROVE  LogInv(i)'
<1> SUFFICES \E why, events : Respond(i, why, events) /\ Explains(events, why)
    <2>1. PICK why, events : Respond(i, why, events) /\ Explains(events, why)
        OBVIOUS
    <2>2. pc[i] = "authenticated" /\ log[i] = <<>>
        BY EarlyReturn DEF LogInv, Starts
    <2>3. events \in Seq(Reasons)
        BY <2>1 DEF Explains
    <2>4. <<>> \o Append(events, "query_completed") = Append(events, "query_completed")
        <3>1. Append(events, "query_completed") \in Seq(Reasons \cup {"query_completed"})
            BY <2>3
        <3> QED
            BY <3>1
    <2>5. pc'[i] = "done" /\ outcome'[i] = why /\ log'[i] = Append(events, "query_completed")
        BY <2>1, <2>2, <2>4 DEF Respond, TypeOK
    <2> QED
        BY <2>1, <2>5 DEF LogInv
<1>0. <<>> \in Seq(Passing) /\ Append(<<>>, "rate_limited") = <<"rate_limited">>
      /\ Append(<<>>, "query_blocked") = <<"query_blocked">>
    OBVIOUS
<1>1. CASE RateLimited(i)
    <2>1. Explains(Append(<<>>, "rate_limited"), "rate_limited")
        BY <1>0, OneReason, CauseOf DEF Reasons, Outcomes
    <2> QED
        BY <1>0, <1>1, <2>1 DEF RateLimited
<1>2. CASE QueryBlocked(i)
    <2>1. Explains(Append(<<>>, "query_blocked"), "query_guardrail_blocked")
        BY <1>0, OneReason, CauseOf DEF Reasons, Outcomes
    <2> QED
        BY <1>0, <1>2, <2>1 DEF QueryBlocked
<1>3. ASSUME NEW s \in Seq(Passing), NEW o \in Outcomes,
             Cause[o] = "query_completed" \/ Holds(s, Cause[o])
      PROVE  Explains(s, o)
    <2>1. s \in Seq(Reasons)
        BY DEF Reasons
    <2> QED
        BY <1>3, <2>1 DEF Explains
<1>4. CASE ExtractionStop(i)
    <2>1. PICK H, severity :
            /\ Throttles(severity)
            /\ Respond(i, "extraction_suspected", RetrievalEvents(i, H, severity))
        BY <1>4 DEF ExtractionStop
    <2>2. Explains(RetrievalEvents(i, H, severity), "extraction_suspected")
        BY <1>3, <2>1, PassingEvents, ReasonsLogged, CauseOf DEF Outcomes
    <2> QED
        BY <2>1, <2>2
<1>5. CASE NothingFound(i)
    <2>1. PICK H, severity : Respond(i, "no_documents", RetrievalEvents(i, H, severity))
        BY <1>5 DEF NothingFound
    <2>2. Explains(RetrievalEvents(i, H, severity), "no_documents")
        BY <1>3, PassingEvents, CauseOf DEF Outcomes
    <2> QED
        BY <2>1, <2>2
<1>6. CASE AllChunksBlocked(i)
    <2>1. PICK H, severity :
            Respond(i, "all_chunks_blocked",
                    Append(RetrievalEvents(i, H, severity), "query_blocked"))
        BY <1>6 DEF AllChunksBlocked
    <2>2. Explains(Append(RetrievalEvents(i, H, severity), "query_blocked"), "all_chunks_blocked")
        BY PassingEvents, OneReason, CauseOf DEF Reasons, Outcomes
    <2> QED
        BY <2>1, <2>2
<1>7. CASE RouteBlocked(i)
    <2>1. PICK H, severity :
            /\ \E w : ResolveRoute(policy, w) = "blocked"
            /\ Respond(i, "llm_routing_blocked",
                       RetrievalEvents(i, H, severity) \o RoutedEvents(policy))
        BY <1>7 DEF RouteBlocked
    <2>2. RetrievalEvents(i, H, severity) \o RoutedEvents(policy) \in Seq(Passing)
        <3>1. RetrievalEvents(i, H, severity) \in Seq(Passing) /\ RoutedEvents(policy) \in Seq(Passing)
            BY PassingEvents
        <3> QED
            BY <3>1
    <2>3. Explains(RetrievalEvents(i, H, severity) \o RoutedEvents(policy), "llm_routing_blocked")
        BY <1>3, <2>1, <2>2, ReasonsLogged, CauseOf DEF Outcomes
    <2> QED
        BY <2>1, <2>3
<1> QED
    BY <1>1, <1>2, <1>4, <1>5, <1>6, <1>7 DEF RunQuery

LEMMA FinishExplained ==
    ASSUME TypeOK, NEW i \in Queries, LogInv(i), Finish(i)
    PROVE  LogInv(i)'
<1>1. PICK v \in {"citation_failed", "output_guardrail_blocked", "canary_token_in_output",
                  "answered"} :
        /\ outcome' = [outcome EXCEPT ![i] = v]
        /\ log' = [log EXCEPT ![i] = log[i] \o Append(VerdictEvents(v), "query_completed")]
    <2>1. PICK r \in Replies, echo \in SUBSET CanaryIds :
            LET said == [scan |-> r.scan, grounded |-> r.grounded, tokens |-> echo]
                v == Verdict(i, said, pol[i])
            IN /\ outcome' = [outcome EXCEPT ![i] = v]
               /\ log' = [log EXCEPT ![i] = log[i] \o Append(VerdictEvents(v), "query_completed")]
        BY DEF Finish
    <2> DEFINE v == Verdict(i, [scan |-> r.scan, grounded |-> r.grounded, tokens |-> echo], pol[i])
    <2>2. v \in {"citation_failed", "output_guardrail_blocked", "canary_token_in_output",
                 "answered"}
        BY DEF Verdict
    <2> QED
        BY <2>1, <2>2
<1>2. pc[i] = "awaiting" /\ pc'[i] = "done" /\ log[i] \in Seq(Passing)
    BY DEF Finish, TypeOK, LogInv
<1>3. /\ outcome'[i] = v
      /\ log'[i] = log[i] \o Append(VerdictEvents(v), "query_completed")
    BY <1>1 DEF TypeOK
<1>4. CASE v = "answered"
    <2>1. VerdictEvents(v) = <<>>
        BY <1>4 DEF VerdictEvents
    <2>2. log'[i] = Append(log[i], "query_completed")
        <3>1. log[i] \o Append(<<>>, "query_completed") = Append(log[i], "query_completed")
            BY <1>2
        <3> QED
            BY <1>3, <2>1, <3>1
    <2>3. log[i] \in Seq(Reasons)
        BY <1>2 DEF Reasons
    <2>4. Explains(log[i], v)
        BY <1>2, <1>4, <2>3, CauseOf DEF Explains, Outcomes
    <2> QED
        BY <1>2, <1>3, <2>2, <2>4 DEF LogInv
<1>5. ASSUME NEW e \in Reasons, VerdictEvents(v) = <<e>>, Cause[v] = e, v # "answered"
      PROVE  LogInv(i)'
    <2>1. log'[i] = Append(Append(log[i], e), "query_completed")
        <3>1. log[i] \o Append(<<e>>, "query_completed")
                = Append(Append(log[i], e), "query_completed")
            BY <1>2
        <3> QED
            BY <1>3, <1>5, <3>1
    <2>2. v \in Outcomes \ {"answered", "no_documents"}
        BY <1>5 DEF Outcomes
    <2>3. Explains(Append(log[i], e), v)
        BY <1>2, <1>5, <2>2, OneReason
    <2> QED
        BY <1>2, <1>3, <2>1, <2>3 DEF LogInv
<1>6. CASE v = "citation_failed"
    <2>1. VerdictEvents(v) = <<"citation_failed">>
        BY <1>6 DEF VerdictEvents
    <2> QED
        BY <1>5, <1>6, <2>1, CauseOf DEF Reasons
<1>7. CASE v = "output_guardrail_blocked"
    <2>1. VerdictEvents(v) = <<"query_blocked">>
        BY <1>7 DEF VerdictEvents
    <2> QED
        BY <1>5, <1>7, <2>1, CauseOf DEF Reasons
<1>8. CASE v = "canary_token_in_output"
    <2>1. VerdictEvents(v) = <<"canary_triggered">>
        BY <1>8 DEF VerdictEvents
    <2> QED
        BY <1>5, <1>8, <2>1, CauseOf DEF Reasons, Passing
<1> QED
    BY <1>4, <1>6, <1>7, <1>8

LEMMA LogStep ==
    TypeOK /\ (\A i \in Queries : LogInv(i)) /\ [Next]_vars => (\A i \in Queries : LogInv(i))'
<1> SUFFICES ASSUME TypeOK, [Next]_vars, NEW i \in Queries, LogInv(i)
             PROVE  LogInv(i)'
    OBVIOUS
<1>1. ASSUME UNCHANGED <<pc[i], log[i], outcome[i]>>
      PROVE  LogInv(i)'
    BY <1>1 DEF LogInv
<1>2. CASE StoreNext \/ ReloadPolicy \/ UNCHANGED vars
    <2>1. UNCHANGED flight
        BY <1>2, StoreType DEF ReloadPolicy, vars
    <2> QED
        BY <1>1, <2>1 DEF flight
<1>3. ASSUME NEW j \in Queries, QueryNext(j), j # i
      PROVE  LogInv(i)'
    <2>1. UNCHANGED <<pc[i], log[i], outcome[i]>>
        BY <1>3, OtherQueries
    <2> QED
        BY <1>1, <2>1
<1>4. ASSUME NEW u \in Users, Authenticate(i, u)
      PROVE  LogInv(i)'
    <2>1. pc[i] = "idle" /\ pc'[i] = "authenticated" /\ log'[i] = log[i]
        BY <1>4 DEF Authenticate, TypeOK
    <2> QED
        BY <2>1 DEF LogInv
<1>5. CASE CallLLM(i)
    <2>1. PICK H, severity :
            log' = [log EXCEPT ![i] = RetrievalEvents(i, H, severity) \o RoutedEvents(policy)]
        BY <1>5 DEF CallLLM
    <2>2. RetrievalEvents(i, H, severity) \in Seq(Passing) /\ RoutedEvents(policy) \in Seq(Passing)
        BY PassingEvents
    <2>3. RetrievalEvents(i, H, severity) \o RoutedEvents(policy) \in Seq(Passing)
        BY <2>2
    <2>4. pc'[i] = "awaiting" /\ log'[i] \in Seq(Passing)
        BY <1>5, <2>1, <2>3 DEF CallLLM, TypeOK
    <2> QED
        BY <2>4 DEF LogInv
<1>6. CASE RunQuery(i) /\ ~CallLLM(i)
    BY <1>6, EarlyReturnExplained
<1>7. CASE Finish(i)
    BY <1>7, FinishExplained
<1>8. CASE MalformedReply(i)
    <2>1. pc[i] = "awaiting" /\ pc'[i] = "failed" /\ log'[i] = log[i]
        BY <1>8 DEF MalformedReply, TypeOK
    <2> QED
        BY <2>1 DEF LogInv
<1> QED
    BY <1>2, <1>3, <1>4, <1>5, <1>6, <1>7, <1>8 DEF Next, QueryNext

\* A closed log has one query_completed, at its end.
LEMMA ClosedLog ==
    ASSUME NEW s \in Seq(Reasons)
    PROVE  LET l == Append(s, "query_completed")
           IN /\ Count(l, "query_completed") = 1
              /\ Len(l) = Len(s) + 1
              /\ l[Len(l)] = "query_completed"
              /\ \A k \in DOMAIN s : k \in DOMAIN l /\ l[k] = s[k]
              /\ \A k \in DOMAIN l : l[k] = "query_completed" \/ (k \in DOMAIN s /\ l[k] = s[k])
<1> DEFINE l == Append(s, "query_completed")
<1>1. \A k \in DOMAIN s : s[k] # "query_completed"
    BY DEF Reasons, Passing
<1>2. /\ Len(l) = Len(s) + 1 /\ DOMAIN l = 1..(Len(s) + 1) /\ DOMAIN s = 1..Len(s)
      /\ l[Len(s) + 1] = "query_completed"
      /\ \A k \in 1..Len(s) : l[k] = s[k]
    OBVIOUS
<1> HIDE DEF l
<1>3. {k \in DOMAIN l : l[k] = "query_completed"} = {Len(s) + 1}
    BY <1>1, <1>2
<1>4. Count(l, "query_completed") = 1
    BY <1>3, FS_Singleton DEF Count
<1>5. l = Append(s, "query_completed")
    BY DEF l
<1> QED
    BY <1>2, <1>4, <1>5

\* The trail and the response agree: one query_completed, last, for each query that
\* got a response, after the event that says why it was refused, if it was.
THEOREM TrailMatchesOutcome == Spec => []AuditMatchesOutcome
<1>1. Init => \A i \in Queries : LogInv(i)
    BY DEF Init, LogInv
<1>2. ASSUME \A i \in Queries : LogInv(i)
      PROVE  AuditMatchesOutcome
    <2> SUFFICES ASSUME NEW i \in Queries
                 PROVE  IF pc[i] = "done"
                        THEN /\ Count(log[i], "query_completed") = 1
                             /\ log[i][Len(log[i])] = "query_completed"
                             /\ \E k \in DOMAIN log[i] : log[i][k] = Cause[outcome[i]]
                             /\ outcome[i] \in {"answered", "no_documents"} =>
                                  \A k \in DOMAIN log[i] :
                                    log[i][k] \notin {"query_blocked", "citation_failed",
                                                      "rate_limited"}
                        ELSE Count(log[i], "query_completed") = 0
        BY DEF AuditMatchesOutcome
    <2>1. CASE pc[i] = "done"
        <3>1. PICK s : log[i] = Append(s, "query_completed") /\ Explains(s, outcome[i])
            BY <1>2, <2>1 DEF LogInv
        <3>2. s \in Seq(Reasons)
            BY <3>1 DEF Explains
        <3>3. /\ Count(log[i], "query_completed") = 1
              /\ log[i][Len(log[i])] = "query_completed"
              /\ Len(log[i]) \in DOMAIN log[i]
              /\ \A k \in DOMAIN s : k \in DOMAIN log[i] /\ log[i][k] = s[k]
              /\ \A k \in DOMAIN log[i] :
                    log[i][k] = "query_completed" \/ (k \in DOMAIN s /\ log[i][k] = s[k])
            <4>1. Len(Append(s, "query_completed")) \in DOMAIN Append(s, "query_completed")
                BY <3>2
            <4> QED
                BY <3>1, <3>2, <4>1, ClosedLog
        <3>4. \E k \in DOMAIN log[i] : log[i][k] = Cause[outcome[i]]
            BY <3>1, <3>3 DEF Explains, Holds
        <3>5. ASSUME outcome[i] \in {"answered", "no_documents"}, NEW k \in DOMAIN log[i]
              PROVE  log[i][k] \notin {"query_blocked", "citation_failed", "rate_limited"}
            <4>1. s \in Seq(Passing)
                BY <3>1, <3>5 DEF Explains
            <4>2. \A j \in DOMAIN s : s[j] \in Passing
                BY <4>1
            <4> QED
                BY <3>3, <4>2 DEF Passing
        <3> QED
            BY <2>1, <3>3, <3>4, <3>5
    <2>2. CASE pc[i] # "done"
        <3>1. log[i] \in Seq(Passing)
            BY <1>2, <2>2 DEF LogInv
        <3>2. \A k \in DOMAIN log[i] : log[i][k] \in Passing
            BY <3>1
        <3>3. {k \in DOMAIN log[i] : log[i][k] = "query_completed"} = {}
            BY <3>2 DEF Passing
        <3> QED
            BY <2>2, <3>3, FS_EmptySet DEF Count
    <2> QED
        BY <2>1, <2>2
<1> QED
    BY <1>1, <1>2, TypeCorrect, LogStep, PTL DEF Spec
-----------------------------------------------------------------------------
(* Where the profiles come from that texts are judged by.                       *)

\* What several high findings may add.
Bumps == {0, 100, 150}

\* Severities are numbers to calculate with.
LEMMA ThousandthsAreNat == Thousandths \subseteq Nat
BY DEF Thousandths

\* A set of numbers has a least one; a set of severities has a greatest.
LEMMA Least ==
    ASSUME NEW S \in SUBSET Nat, S # {}
    PROVE  \E n \in S : \A k \in S : n <= k
<1> DEFINE Below == {1..k : k \in S}
           R == StrictSubsetOrdering(Nat)
<1>1. IsWellFoundedOn(R, FiniteSubsetsOf(Nat))
    BY FS_StrictSubsetOrderingWellFounded
<1>2. \A k \in S : IsFiniteSet(1..k) /\ 1..k \subseteq Nat
    BY FS_Interval
<1>3. Below \subseteq FiniteSubsetsOf(Nat) /\ Below # {}
    BY <1>2 DEF FiniteSubsetsOf
<1>4. PICK T \in Below : \A U \in Below : ~(<<U, T>> \in R)
  <2> HIDE DEF Below, R
  <2> QED
    BY <1>1, <1>3, WFMin
<1>5. PICK n \in S : T = 1..n
    OBVIOUS
<1>6. ASSUME NEW k \in S, k < n PROVE FALSE
  <2>1. 1..k \in Below
    OBVIOUS
  <2>2. 1..k \subseteq 1..n
    BY <1>6
  <2>3. n \in 1..n /\ n \notin 1..k
    BY <1>6
  <2>4. 1..k # 1..n
    BY <2>3
  <2>5. 1..k \in SUBSET Nat /\ 1..n \in SUBSET Nat
    BY <1>2
  <2>6. <<1..k, 1..n>> \in R
    BY <2>2, <2>4, <2>5 DEF StrictSubsetOrdering
  <2> QED
    BY <1>4, <1>5, <2>1, <2>6
<1> QED
    BY <1>6

LEMMA Greatest ==
    ASSUME NEW V \in SUBSET Thousandths, V # {}
    PROVE  \E v \in V : \A w \in V : v >= w
<1> DEFINE Gaps == {1000 - v : v \in V}
<1>1. \A v \in V : v \in Nat /\ 1000 - v \in Nat
    BY DEF Thousandths
<1>2. Gaps \in SUBSET Nat /\ Gaps # {}
    BY <1>1
<1>3. PICK g \in Gaps : \A h \in Gaps : g <= h
    <2> HIDE DEF Gaps
    <2> QED
        BY <1>2, Least
<1>4. PICK v \in V : g = 1000 - v
    BY <1>3
<1>5. \A w \in V : 1000 - v <= 1000 - w
    BY <1>3, <1>4
<1> QED
    BY <1>1, <1>4, <1>5

\* The worst of some findings is one of them, and none is worse.
LEMMA WorstIs ==
    ASSUME NEW fs \in Seq(Finding), NEW S \in SUBSET DOMAIN fs, S # {}
    PROVE  /\ \E k \in S : Worst(fs, S) = fs[k].severity
           /\ \A k \in S : fs[k].severity <= Worst(fs, S)
           /\ Worst(fs, S) \in Thousandths
<1> DEFINE V == {fs[k].severity : k \in S}
<1>1. \A k \in S : fs[k] \in Finding
    OBVIOUS
<1>2. \A k \in S : fs[k].severity \in Thousandths
    BY <1>1 DEF Finding
<1>3. V \in SUBSET Thousandths /\ V # {}
    <2>1. V \subseteq Thousandths
        BY <1>2
    <2>2. PICK k \in S : TRUE
        OBVIOUS
    <2>3. fs[k].severity \in V
        OBVIOUS
    <2> HIDE DEF V
    <2> QED
        BY <2>1, <2>3
<1>4. \E v \in V : \A w \in V : v >= w
    <2> HIDE DEF V
    <2> QED
        BY <1>3, Greatest
<1>5. Max(V) \in V /\ \A w \in V : Max(V) >= w
    <2> HIDE DEF V
    <2> QED
        BY <1>4 DEF Max
<1>6. Worst(fs, S) = Max(V)
    BY DEF Worst
<1>7. \A k \in S : fs[k].severity \in V
    OBVIOUS
<1>8. PICK k \in S : Max(V) = fs[k].severity
    BY <1>5
<1> HIDE DEF V
<1> QED
    BY <1>2, <1>5, <1>6, <1>7, <1>8

\* How many of some findings are high.
LEMMA HighsAre ==
    ASSUME NEW fs \in Seq(Finding), NEW S \in SUBSET DOMAIN fs
    PROVE  /\ IsFiniteSet(Highs(fs, S))
           /\ Cardinality(Highs(fs, S)) \in Nat
<1>1. Highs(fs, S) \subseteq 1..Len(fs)
    BY DEF Highs
<1>2. IsFiniteSet(1..Len(fs))
    BY FS_Interval
<1> QED
    BY <1>1, <1>2, FS_Subset, FS_CardinalityType

\* A score is within rounding of what it rounds, and no more than 1.
LEMMA ScoreIsNear ==
    \A w \in Thousandths, b \in Bumps :
        Score(w, b) \in Thousandths /\ Score(w, b) <= w + b + 5
<1> SUFFICES ASSUME NEW w \in Thousandths, NEW b \in Bumps
             PROVE  Score(w, b) \in Thousandths /\ Score(w, b) <= w + b + 5
    OBVIOUS
<1> DEFINE sum == IF w + b < 1000 THEN w + b ELSE 1000
<1>1. w \in Nat /\ b \in Nat
    BY DEF Thousandths, Bumps
<1>2. sum \in Nat /\ sum <= 1000 /\ sum <= w + b
    BY <1>1
<1>3. \A n \in Nat : n <= 1000 =>
        /\ n - (n % 10) \in Thousandths
        /\ n % 10 >= 5 => (n - (n % 10)) + 10 \in Thousandths /\ (n - (n % 10)) + 10 <= n + 5
        /\ n - (n % 10) <= n
    BY DEF Thousandths
<1> HIDE DEF sum
<1>4. \/ Score(w, b) = sum - (sum % 10)
      \/ sum % 10 >= 5 /\ Score(w, b) = (sum - (sum % 10)) + 10
    BY <1>1, <1>2 DEF Score, sum
<1> QED
    BY <1>1, <1>2, <1>3, <1>4 DEF Thousandths

\* Equal sums may round apart, but not if neither summand is less.
LEMMA ScoreGrows ==
    \A w, x \in Thousandths, b, c \in Bumps :
        w <= x /\ b <= c => Score(w, b) <= Score(x, c)
BY SMTT(60) DEF Score, Thousandths, Bumps

\* More high findings never add less.
LEMMA BumpGrows ==
    ASSUME NEW m \in Nat, NEW n \in Nat, m <= n
    PROVE  Bump(m) <= Bump(n) /\ Bump(m) \in Bumps
BY DEF Bump, Bumps

\* More findings, no lower a score.
LEMMA RiskGrows ==
    ASSUME NEW fs \in Seq(Finding), NEW S \in SUBSET DOMAIN fs,
           NEW gs \in Seq(Finding), NEW T \in SUBSET DOMAIN gs,
           S \subseteq T, \A k \in S : gs[k] = fs[k]
    PROVE  /\ Risk(fs, S) \in Thousandths /\ Risk(gs, T) \in Thousandths
           /\ Risk(fs, S) <= Risk(gs, T)
<1> DEFINE m == Cardinality(Highs(fs, S))
           n == Cardinality(Highs(gs, T))
<1>1. Risk(gs, T) \in Thousandths
    <2>1. CASE T = {}
        BY <2>1 DEF Risk, Thousandths
    <2>2. CASE T # {}
        <3>1. n \in Nat
            BY HighsAre
        <3>2. Bump(n) \in Bumps
            BY <3>1, BumpGrows
        <3>3. Worst(gs, T) \in Thousandths
            BY <2>2, WorstIs
        <3>4. \A w \in Thousandths, b \in Bumps : Score(w, b) \in Thousandths
            BY ScoreIsNear
        <3> HIDE DEF n
        <3>5. Score(Worst(gs, T), Bump(n)) \in Thousandths
            BY <3>2, <3>3, <3>4
        <3> QED
            BY <2>2, <3>5 DEF Risk, n
    <2> QED
        BY <2>1, <2>2
<1>2. CASE S = {}
    <2>1. Risk(fs, S) = 0
        BY <1>2 DEF Risk
    <2>2. 0 \in Thousandths /\ \A x \in Thousandths : 0 <= x
        BY DEF Thousandths
    <2> QED
        BY <1>1, <2>1, <2>2
<1>3. CASE S # {}
    <2>1. m \in Nat /\ n \in Nat /\ m <= n
        <3>1. Highs(fs, S) \subseteq Highs(gs, T)
            BY DEF Highs
        <3> QED
            BY <3>1, HighsAre, FS_Subset
    <2>2. Worst(fs, S) \in Thousandths /\ Worst(gs, T) \in Thousandths /\ Worst(fs, S) <= Worst(gs, T)
        <3>1. PICK k \in S : Worst(fs, S) = fs[k].severity
            BY <1>3, WorstIs
        <3>2. k \in T /\ gs[k].severity <= Worst(gs, T)
            BY <1>3, WorstIs
        <3>3. Worst(fs, S) \in Thousandths /\ Worst(gs, T) \in Thousandths
            BY <1>3, WorstIs
        <3> QED
            BY <3>1, <3>2, <3>3
    <2> HIDE DEF m, n
    <2>3. Bump(m) \in Bumps /\ Bump(n) \in Bumps /\ Bump(m) <= Bump(n)
        BY <2>1, BumpGrows
    <2>4. \A w, x \in Thousandths, b, c \in Bumps : w <= x /\ b <= c =>
              Score(w, b) \in Thousandths /\ Score(w, b) <= Score(x, c)
        BY ScoreGrows, ScoreIsNear
    <2>5. /\ Score(Worst(fs, S), Bump(m)) \in Thousandths
          /\ Score(Worst(fs, S), Bump(m)) <= Score(Worst(gs, T), Bump(n))
        BY <2>2, <2>3, <2>4
    <2>6. T # {}
        BY <1>3
    <2> QED
        BY <1>1, <1>3, <2>5, <2>6 DEF Risk, m, n
<1> QED
    BY <1>2, <1>3

\* For whatever a text contains, the score of the findings that may block does not
\* exceed the score of all (aggregate_risk, findings_for_input_block): the profiles
\* that QueryGateway assumes (ProfileAssumption) are those that the pipeline gives.
THEOREM ProfilesFit ==
    \A fs \in Seq(Finding) :
        Profile(fs) \in [hard : Nat, all : Nat] /\ Profile(fs).hard <= Profile(fs).all
<1> SUFFICES ASSUME NEW fs \in Seq(Finding)
             PROVE  Profile(fs) \in [hard : Nat, all : Nat] /\ Profile(fs).hard <= Profile(fs).all
    OBVIOUS
<1>1. Blockable(fs) \in SUBSET DOMAIN fs
    BY DEF Blockable
<1>2. /\ Risk(fs, Blockable(fs)) \in Thousandths /\ Risk(fs, DOMAIN fs) \in Thousandths
      /\ Risk(fs, Blockable(fs)) <= Risk(fs, DOMAIN fs)
    BY <1>1, RiskGrows
<1> QED
    BY <1>2, ThousandthsAreNat DEF Profile

\* A score that reaches b has a finding near b, or two high ones.
LEMMA RiskHasCause ==
    ASSUME NEW fs \in Seq(Finding), NEW S \in SUBSET DOMAIN fs, NEW b \in Nat, b > 0,
           Risk(fs, S) >= b
    PROVE  \E k \in S : \/ fs[k].severity + 5 >= b
                        \/ /\ fs[k].severity >= High /\ fs[k].severity + 155 >= b
                           /\ \E j \in S \ {k} : fs[j].severity >= High
<1> DEFINE H == Highs(fs, S)
           n == Cardinality(H)
<1>1. S # {}
    BY DEF Risk
<1>2. PICK k \in S : Worst(fs, S) = fs[k].severity
    BY <1>1, WorstIs
<1>3. fs[k].severity \in Thousandths /\ \A j \in S : fs[j].severity <= fs[k].severity
    BY <1>1, <1>2, WorstIs
<1>4. n \in Nat /\ IsFiniteSet(H)
    BY HighsAre
<1>5. \A j \in S : fs[j].severity \in Nat
    <2>1. \A j \in S : fs[j] \in Finding
        OBVIOUS
    <2>2. \A j \in S : fs[j].severity \in Thousandths
        BY <2>1 DEF Finding
    <2> QED
        BY <2>2, ThousandthsAreNat
<1>6. Risk(fs, S) = Score(fs[k].severity, Bump(n))
    BY <1>1, <1>2 DEF Risk
<1> HIDE DEF n
<1>7. Bump(n) \in Bumps
    BY <1>4, BumpGrows
<1>8. b <= fs[k].severity + Bump(n) + 5
    <2>1. Score(fs[k].severity, Bump(n)) <= fs[k].severity + Bump(n) + 5
        BY <1>3, <1>7, ScoreIsNear
    <2>2. Score(fs[k].severity, Bump(n)) \in Thousandths
        BY <1>3, <1>7, ScoreIsNear
    <2>3. Score(fs[k].severity, Bump(n)) \in Nat
        BY <2>2, ThousandthsAreNat
    <2>4. fs[k].severity \in Nat /\ Bump(n) \in Nat
        BY <1>5, <1>7 DEF Bumps
    <2> QED
        BY <1>6, <2>1, <2>2, <2>3, <2>4
<1>9. CASE n <= 1
    <2>1. Bump(n) = 0
        BY <1>9 DEF Bump
    <2>2. fs[k].severity + 5 >= b
        BY <1>5, <1>8, <2>1
    <2> QED
        BY <2>2
<1>10. CASE ~(n <= 1)
    <2>1. PICK j \in H : j # k
        <3>1. SUFFICES ASSUME H \subseteq {k} PROVE FALSE
            OBVIOUS
        <3>2. IsFiniteSet({k}) /\ Cardinality({k}) = 1
            BY FS_Singleton
        <3> QED
            BY <1>4, <1>10, <3>1, <3>2, FS_Subset DEF n
    <2>2. j \in S \ {k} /\ fs[j].severity >= High
        BY <2>1 DEF Highs
    <2>3. fs[k].severity >= High
        BY <1>3, <1>5, <2>2 DEF High
    <2>4. fs[k].severity + 155 >= b
        BY <1>5, <1>7, <1>8 DEF Bumps
    <2> QED
        BY <2>2, <2>3, <2>4
<1> QED
    BY <1>4, <1>9, <1>10

\* More of a risk, no softer a decision.
LEMMA DecideHardens ==
    ASSUME NEW p \in PolicyRec, NEW h \in Nat, NEW a \in Nat, NEW x \in Nat, NEW y \in Nat,
           h <= x, a <= y
    PROVE  /\ Strength[ScanInput([hard |-> h, all |-> a], p)]
                <= Strength[ScanInput([hard |-> x, all |-> y], p)]
           /\ Strength[ScanOutput(a, p)] <= Strength[ScanOutput(y, p)]
<1>1. p.challenge \in Nat /\ p.block \in Nat /\ p.out_challenge \in Nat /\ p.out_block \in Nat
    BY DEF PolicyRec
<1>2. Strength["allow"] = 0 /\ Strength["challenge"] = 1 /\ Strength["block"] = 2
    BY DEF Strength
<1> QED
    BY <1>1, <1>2 DEF ScanInput, ScanOutput, Decide

\* Findings that are added to those of a text raise its score and harden what
\* scan_input and scan_output decide, or leave them as they are, whatever the policy.
LEMMA PoliciesHarden == Policies \subseteq Hardening
<1> SUFFICES ASSUME NEW p \in Policies, NEW fs \in Texts, NEW more \in Texts
             PROVE  LET f == Profile(fs)
                        g == Profile(fs \o more)
                    IN /\ f.all <= g.all
                       /\ Strength[ScanInput(f, p)] <= Strength[ScanInput(g, p)]
                       /\ Strength[ScanOutput(f.all, p)] <= Strength[ScanOutput(g.all, p)]
    BY DEF Hardening
<1> DEFINE gs == fs \o more
<1>1. p \in PolicyRec /\ fs \in Seq(Finding) /\ more \in Seq(Finding)
    BY PolicyAssumption, TextAssumption
<1>2. gs \in Seq(Finding) /\ DOMAIN fs \subseteq DOMAIN gs /\ \A k \in DOMAIN fs : gs[k] = fs[k]
    BY <1>1
<1> HIDE DEF gs
<1>3. Blockable(fs) \in SUBSET DOMAIN fs /\ Blockable(gs) \in SUBSET DOMAIN gs
    BY DEF Blockable
<1>4. Blockable(fs) \subseteq Blockable(gs)
    BY <1>2 DEF Blockable
<1>5. Risk(fs, Blockable(fs)) <= Risk(gs, Blockable(gs))
    BY <1>1, <1>2, <1>3, <1>4, RiskGrows
<1>6. Risk(fs, DOMAIN fs) <= Risk(gs, DOMAIN gs)
    BY <1>1, <1>2, RiskGrows
<1>7. \A x \in {fs, gs} : Profile(x).hard \in Nat /\ Profile(x).all \in Nat
    BY <1>1, <1>2, ProfilesFit
<1>8. Profile(fs).hard <= Profile(gs).hard /\ Profile(fs).all <= Profile(gs).all
    BY <1>5, <1>6 DEF Profile
<1>9. \A x : Profile(x) = [hard |-> Profile(x).hard, all |-> Profile(x).all]
    BY DEF Profile
<1>10. /\ Strength[ScanInput(Profile(fs), p)] <= Strength[ScanInput(Profile(gs), p)]
       /\ Strength[ScanOutput(Profile(fs).all, p)] <= Strength[ScanOutput(Profile(gs).all, p)]
    BY <1>1, <1>7, <1>8, <1>9, DecideHardens
<1> QED
    BY <1>8, <1>10 DEF gs

\* Under no policy is an input blocked without an injection, secret or URL finding
\* within rounding of the threshold, or two high ones, one of them within the bump.
LEMMA PoliciesAccount == Policies \subseteq Accountable
<1> SUFFICES ASSUME NEW p \in Policies, NEW t \in Texts,
                    p.block > 0, ScanInput(Profile(t), p) = "block"
             PROVE  LET C == {k \in DOMAIN t : t[k].scanner \notin RedactAndPass}
                    IN \E k \in C :
                         \/ t[k].severity + 5 >= p.block
                         \/ /\ t[k].severity >= High /\ t[k].severity + 155 >= p.block
                            /\ \E j \in C \ {k} : t[j].severity >= High
    BY DEF Accountable
<1>1. p \in PolicyRec /\ t \in Seq(Finding)
    BY PolicyAssumption, TextAssumption
<1>2. p.block \in Nat
    BY <1>1 DEF PolicyRec
<1>3. Blockable(t) \in SUBSET DOMAIN t
    BY DEF Blockable
<1>4. Risk(t, Blockable(t)) >= p.block
    BY DEF ScanInput, Decide, Profile
<1>5. \E k \in Blockable(t) :
         \/ t[k].severity + 5 >= p.block
         \/ /\ t[k].severity >= High /\ t[k].severity + 155 >= p.block
            /\ \E j \in Blockable(t) \ {k} : t[j].severity >= High
    BY <1>1, <1>2, <1>3, <1>4, RiskHasCause
<1> QED
    BY <1>5 DEF Blockable

\* Whatever policy is reloaded, findings only harden what is decided under it.
THEOREM FindingsHarden == Spec => []FindingsOnlyHarden
<1>1. TypeOK => FindingsOnlyHarden
    BY PoliciesHarden DEF TypeOK, FindingsOnlyHarden
<1> QED
    BY <1>1, TypeCorrect, PTL

\* Whatever policy is reloaded, what it blocks has a cause that may block; redacted
\* findings never tip the scale.
THEOREM BlocksAreCaused == Spec => []BlocksHaveCause
<1>1. TypeOK => BlocksHaveCause
    BY PoliciesAccount DEF TypeOK, BlocksHaveCause
<1> QED
    BY <1>1, TypeCorrect, PTL
===============================================================================
