--------------------------- MODULE DocumentStores ---------------------------
(***************************************************************************)
(* The document store of one tenant on a Qdrant collection, alone          *)
(* (RAG_STORE_BACKEND=vector) or behind SQLite (hybrid).                   *)
(*                                                                         *)
(* A write is a chain of requests to Qdrant, each of which may not arrive  *)
(* or may lose its answer; the handler then raises and what it has done    *)
(* stays.  Proxy processes and runs of tools/acl_backfill share the        *)
(* collection, and their requests interleave.  Status and ACL are changed  *)
(* by reading a page of points and writing whole points back.              *)
(***************************************************************************)
EXTENDS Naturals, FiniteSets

CONSTANTS
    Processes,      \* proxy processes
    Tools,          \* runs of acl_backfill
    Hybrid,         \* whether SQLite is written first; the chart allows one process then
    Docs,
    Samples,        \* ids in sample_documents.json
    Acls,           \* allowed_groups lists
    SampleAcl, SampleSize,
    MaxChunks,      \* bound: chunks of a document
    PageSize,       \* 128, the limit of a scroll
    Order,          \* the order of point ids, a uuid5 of the chunk id
    MaxGen, MaxFaults, MaxCrashes,  \* bounds
    NoPoint, NoRow, NoJob, NoOffset, Unknown, Absent

Workers == Processes \cup Tools
Points == Docs \X (1..MaxChunks)
Status == {"active", "quarantined"}

\* A point, or the row of table documents.  Status is kept twice in a point: search
\* filters on payload.status, the listings on payload.metadata.
Payload == [gen : Nat, groups : Acls, status : Status, meta : Status]
Page == [Points -> Payload \cup {NoPoint}]
Kinds == {"ingest", "status", "acl", "tool", "delete"}
Value(kind) == CASE kind = "ingest" -> Payload
                 [] kind = "status" -> Status
                 [] kind \in {"acl", "tool"} -> Acls
                 [] kind = "delete" -> {Absent}
Job(kind) == [kind : {kind}, doc : Docs, value : Value(kind),
              step : IF kind = "ingest" THEN {"clear", "upsert"} ELSE {"scroll", "write"},
              from : Nat, page : Page, next : Nat \cup {NoOffset}, raced : BOOLEAN,
              \* The metadata a tool brings along; "active" is the absence of a status key.
              meta : Status]
Wanted == [gen : Nat \cup {Absent, Unknown}, groups : Acls \cup {Unknown},
           status : Status \cup {Unknown}]

ASSUME WorkerAssumption ==
    Processes \cap Tools = {} /\ Hybrid \in BOOLEAN /\ (Hybrid => Cardinality(Processes) = 1)
ASSUME SampleAssumption ==
    Samples \subseteq Docs /\ SampleAcl \in Acls /\ SampleSize \in 0..MaxChunks
ASSUME OrderAssumption ==
    Order \in [Points -> Nat] /\ \A j, k \in Points : Order[j] = Order[k] => j = k
ASSUME BoundAssumption ==
    PageSize \in Nat \ {0} /\ {MaxChunks, MaxGen, MaxFaults, MaxCrashes} \subseteq Nat
ASSUME SentinelAssumption ==
    /\ NoPoint \notin Payload /\ NoRow \notin Payload
    /\ \A kind \in Kinds : NoJob \notin Job(kind)
    /\ NoOffset \notin Nat /\ {Absent, Unknown} \cap Nat = {} /\ Absent # Unknown
    /\ Unknown \notin Acls \cup Status

VARIABLES
    rows,       \* SQLite, with hybrid; a transaction keeps chunks and row together
    points,     \* the Qdrant collection
    work,       \* the write each worker is in the middle of
    seed,       \* samples a process has yet to ingest before its store is in use
    todo,       \* documents that a tool has planned to update
    listed,     \* the status it read in their metadata before the first update
    gen, size,  \* versions of each document so far, and their chunks; 0 is the sample
    faults, crashes,
    want,       \* observer: what the last answered, undisturbed writes promised
    open,       \* observer: versions that somebody let a search see
    granted     \* observer: ACLs that somebody gave to a version

data == <<rows, points>>
versions == <<gen, size, open, granted>>
plan == <<todo, listed>>
vars == <<data, work, seed, plan, versions, faults, crashes, want>>
-----------------------------------------------------------------------------
NoPage == [k \in Points |-> NoPoint]
Read(job) == {k \in Points : job.page[k] # NoPoint}
Keys(d) == {k \in Points : k[1] = d /\ points[k] # NoPoint}
Chunks(d, n) == {k \in Points : k[1] = d /\ k[2] <= n}
Least(S) == CHOOSE k \in S : \A j \in S : Order[k] <= Order[j]
Busy(d) == {w \in Workers : work[w] # NoJob /\ work[w].doc = d}
Lexical(d, row) == rows' = IF Hybrid THEN [rows EXCEPT ![d] = row] ELSE rows

(* Promises.  A write that has begun, and may fail half-way, takes back what    *)
(* it is about to change; one that ends undisturbed promises it.                *)
Nothing == [gen |-> Unknown, groups |-> Unknown, status |-> Unknown]

Touched(w, kind, meta) ==
    CASE kind = "status" -> [w EXCEPT !.status = Unknown]
      [] kind = "acl" -> [w EXCEPT !.groups = Unknown]
      [] kind = "tool" -> [w EXCEPT !.groups = Unknown,
                                    !.status = IF meta \in {"active", @} THEN @ ELSE Unknown]
      [] OTHER -> Nothing

Settled(w, job) ==
    CASE job.kind = "ingest" -> [gen |-> job.value.gen, groups |-> job.value.groups,
                                 status |-> job.value.status]
      [] job.kind = "status" -> [w EXCEPT !.status = job.value]
      [] job.kind = "acl" -> [w EXCEPT !.groups = job.value]
      [] job.kind = "tool" -> IF Hybrid THEN w ELSE [w EXCEPT !.groups = job.value]
      [] job.kind = "delete" -> [Nothing EXCEPT !.gen = Absent]

\* A write begins; writers of one document at the same time disturb each other.
Start(w, kind, d, value, meta) ==
    /\ work[w] = NoJob
    /\ work' = [v \in Workers |->
                  IF v = w
                  THEN [kind |-> kind, doc |-> d, value |-> value,
                        step |-> IF kind = "ingest" THEN "clear" ELSE "scroll",
                        from |-> 0, page |-> NoPage, next |-> NoOffset,
                        raced |-> Busy(d) # {}, meta |-> meta]
                  ELSE IF v \in Busy(d) THEN [work[v] EXCEPT !.raced = TRUE] ELSE work[v]]
    /\ want' = [want EXCEPT ![d] = IF Busy(d) = {} THEN Touched(@, kind, meta) ELSE Nothing]

\* The request failed on its way back, or never arrived: the handler raises, and
\* for_tenant, which has the store by then, does not seed it again.
Raise(w) ==
    /\ faults < MaxFaults
    /\ faults' = faults + 1
    /\ work' = [work EXCEPT ![w] = NoJob]
    /\ seed' = [p \in Processes |-> IF p = w THEN {} ELSE seed[p]]
    /\ UNCHANGED want

Proceed(w, job) ==
    \/ work' = [work EXCEPT ![w] = job] /\ UNCHANGED <<want, seed, faults>>
    \/ Raise(w)

Complete(w) ==
    LET job == work[w] IN
    \/ /\ work' = [work EXCEPT ![w] = NoJob]
       /\ want' = IF job.raced THEN want ELSE [want EXCEPT ![job.doc] = Settled(@, job)]
       /\ UNCHANGED <<seed, faults>>
    \/ Raise(w)
-----------------------------------------------------------------------------
(* Handlers, up to their first request.                                    *)

Ready(w) == w \in Processes => seed[w] = {}

\* What others are doing to the document reaches the new version too.
Version(d, g, payload) ==
    /\ open' = [open EXCEPT ![d] =
         IF payload.status = "active"
            \/ \E v \in Busy(d) : work[v].kind = "status" /\ work[v].value = "active"
         THEN @ \cup {g} ELSE @]
    /\ granted' = [granted EXCEPT ![d][g] =
         @ \cup {payload.groups}
           \cup {work[v].value : v \in {u \in Busy(d) : work[u].kind \in {"acl", "tool"}}}]

\* POST /v1/ingest, seed_canary: HybridDocumentStore.ingest, VectorDocumentStore.ingest
Ingest(w, d, n, groups, status) ==
    LET g == gen[d] + 1
        payload == [gen |-> g, groups |-> groups, status |-> status, meta |-> status]
    IN  /\ Ready(w)
        /\ gen[d] < MaxGen
        /\ gen' = [gen EXCEPT ![d] = g]
        /\ size' = [size EXCEPT ![d][g] = n]
        /\ Version(d, g, payload)
        /\ Lexical(d, payload)
        /\ Start(w, "ingest", d, payload, "active")
        /\ UNCHANGED <<points, seed, faults, crashes, plan>>

\* _sync_sample_corpus: the first use of a tenant's store in each process
SeedSample(p, d) ==
    LET payload == [gen |-> 0, groups |-> SampleAcl, status |-> "active", meta |-> "active"]
    IN  /\ d \in seed[p]
        /\ seed' = [seed EXCEPT ![p] = @ \ {d}]
        /\ Version(d, 0, payload)
        /\ Lexical(d, payload)
        /\ Start(p, "ingest", d, payload, "active")
        /\ UNCHANGED <<points, gen, size, faults, crashes, plan>>

\* set_document_status
SetStatus(w, d, status) ==
    /\ Ready(w)
    /\ Lexical(d, IF rows[d] = NoRow THEN NoRow
                  ELSE [rows[d] EXCEPT !.status = status, !.meta = status])
    /\ Start(w, "status", d, status, "active")
    /\ open' = [open EXCEPT ![d] = IF status = "active" THEN @ \cup 0..gen[d] ELSE @]
    /\ UNCHANGED <<points, seed, gen, size, granted, faults, crashes, plan>>

Grant(d, groups) == granted' = [granted EXCEPT ![d] = [g \in DOMAIN @ |->
                                  IF g <= gen[d] THEN @[g] \cup {groups} ELSE @[g]]]

\* update_document_acl
UpdateAcl(w, d, groups) ==
    /\ Ready(w)
    /\ Lexical(d, IF rows[d] = NoRow THEN NoRow ELSE [rows[d] EXCEPT !.groups = groups])
    /\ Start(w, "acl", d, groups, "active")
    /\ Grant(d, groups)
    /\ UNCHANGED <<points, seed, gen, size, open, faults, crashes, plan>>

(* tools/acl_backfill works on Qdrant alone.  run_backfill lists the documents and   *)
(* plans, apply_plan lists them again; then it updates one after the other, and an   *)
(* update that fails does not stop it.                                               *)

\* build_plan: documents that the permission map and the store both have
PlanBackfill(t, S) ==
    /\ work[t] = NoJob
    /\ todo[t] = {}
    /\ S # {} /\ S \subseteq {d \in Docs : Keys(d) # {}}
    /\ todo' = [todo EXCEPT ![t] = S]
    /\ UNCHANGED <<data, work, seed, versions, want, listed, faults, crashes>>

\* The second list_documents, which keeps what the first point of a document says.
ListBackfill(t) ==
    /\ todo[t] # {}
    /\ \A d \in Docs : listed[t][d] = Unknown
    /\ listed' = [listed EXCEPT ![t] = [d \in Docs |->
                     IF d \notin todo[t] THEN Unknown
                     ELSE IF Keys(d) = {} THEN Absent ELSE points[Least(Keys(d))].meta]]
    /\ UNCHANGED <<data, work, seed, versions, want, todo, faults, crashes>>

Finished(t, d) ==
    /\ work[t] = NoJob
    /\ d \in todo[t]
    /\ listed[t][d] # Unknown
    /\ todo' = [todo EXCEPT ![t] = @ \ {d}]
    /\ listed' = [listed EXCEPT ![t][d] = Unknown]

\* The permission map agrees with the listing.
SkipUnchanged(t, d) ==
    /\ Finished(t, d)
    /\ UNCHANGED <<data, work, seed, versions, want, faults, crashes>>

\* QdrantWriter.update_acl, with the listed metadata: a document that was gone has none.
Backfill(t, d, groups) ==
    /\ Finished(t, d)
    /\ Start(t, "tool", d, groups, IF listed[t][d] = Absent THEN "active" ELSE listed[t][d])
    /\ Grant(d, groups)
    /\ UNCHANGED <<rows, points, seed, gen, size, open, faults, crashes>>

HasDetail(d) == IF Hybrid THEN rows[d] # NoRow ELSE Keys(d) # {}

\* DELETE /v1/documents/{id}, canary/retire: 404 unless get_document_detail finds it,
\* in SQLite when there is one.
DeleteDocument(w, d) ==
    /\ Ready(w)
    /\ HasDetail(d)
    /\ Lexical(d, NoRow)
    /\ Start(w, "delete", d, Absent, "active")
    /\ UNCHANGED <<points, seed, versions, faults, crashes, plan>>
-----------------------------------------------------------------------------
(* Requests.                                                               *)

At(w, step) == work[w] # NoJob /\ work[w].step = step

\* Mutant: only the points that the new version overwrites are cleared.
Clear_Overwritten(w) ==
    LET job == work[w] IN
    /\ At(w, "clear")
    /\ points' = [k \in Points |-> IF k \in Chunks(job.doc, size[job.doc][job.value.gen])
                                   THEN NoPoint ELSE points[k]]
    /\ IF size[job.doc][job.value.gen] = 0
       THEN Complete(w)
       ELSE Proceed(w, [job EXCEPT !.step = "upsert"])
    /\ UNCHANGED <<rows, versions, crashes, plan>>

\* Mutant: an ingest without chunks goes on to look for points to delete.
Clear_ThenScroll(w) ==
    /\ At(w, "clear")
    /\ points' = [k \in Points |-> IF k[1] = work[w].doc THEN NoPoint ELSE points[k]]
    /\ Proceed(w, [work[w] EXCEPT !.step =
                     IF size[work[w].doc][work[w].value.gen] = 0 THEN "scroll" ELSE "upsert"])
    /\ UNCHANGED <<rows, versions, crashes, plan>>

\* The first request of an ingest deletes by filter ...
Clear(w) ==
    /\ At(w, "clear")
    /\ points' = [k \in Points |-> IF k[1] = work[w].doc THEN NoPoint ELSE points[k]]
    /\ IF size[work[w].doc][work[w].value.gen] = 0
       THEN Complete(w)
       ELSE Proceed(w, [work[w] EXCEPT !.step = "upsert"])
    /\ UNCHANGED <<rows, versions, crashes, plan>>

\* ... the second writes all points.
Upsert(w) ==
    LET job == work[w]
    IN  /\ At(w, "upsert")
        /\ points' = [k \in Points |-> IF k \in Chunks(job.doc, size[job.doc][job.value.gen])
                                       THEN job.value ELSE points[k]]
        /\ Complete(w)
        /\ UNCHANGED <<rows, versions, crashes, plan>>

\* The points from an offset on, the first PageSize of them, and where to go on.
From(d, offset) == {k \in Keys(d) : Order[k] >= offset}
First(S) == {k \in S : Cardinality({j \in S : Order[j] < Order[k]}) < PageSize}
Offset(S) == IF S = {} THEN NoOffset ELSE Order[Least(S)]

\* Mutant: the next page starts where this one did.
Scroll_SamePage(w) ==
    LET S == From(work[w].doc, work[w].from)
    IN  /\ At(w, "scroll")
        /\ IF S = {} THEN Complete(w)
           ELSE Proceed(w, [work[w] EXCEPT !.step = "write",
                                           !.page = [k \in Points |->
                                                        IF k \in First(S) THEN points[k] ELSE NoPoint],
                                           !.next = Offset(S)])
        /\ UNCHANGED <<data, versions, crashes, plan>>

Scroll(w) ==
    LET S == From(work[w].doc, work[w].from)
    IN  /\ At(w, "scroll")
        /\ IF S = {} THEN Complete(w)
           ELSE Proceed(w, [work[w] EXCEPT !.step = "write",
                                           !.page = [k \in Points |->
                                                        IF k \in First(S) THEN points[k] ELSE NoPoint],
                                           !.next = Offset(S \ First(S))])
        /\ UNCHANGED <<data, versions, crashes, plan>>

\* set_document_status rewrites both copies of the status ...
WithStatus_PayloadOnly(point, status) == [point EXCEPT !.status = status]   \* mutant
WithStatus(point, status) == [point EXCEPT !.status = status, !.meta = status]

\* ... update_document_acl the groups, of a point as it was read.
WithGroups_Default(point, groups) ==    \* mutant: the status is left to its default
    [point EXCEPT !.groups = groups, !.status = "active"]
WithGroups(point, groups) == [point EXCEPT !.groups = groups]

\* The tool sets two fields of the points that are still there: the groups, and the
\* metadata of the first point of its page with the listed ones over them.
Patched(job, k) ==
    IF points[k] = NoPoint THEN NoPoint
    ELSE [points[k] EXCEPT
             !.groups = job.value,
             !.meta = IF job.meta = "active" THEN job.page[Least(Read(job))].meta ELSE job.meta]

Rewritten(job, k) ==
    CASE job.kind = "status" -> WithStatus(job.page[k], job.value)
      [] job.kind = "acl" -> WithGroups(job.page[k], job.value)
      [] job.kind = "tool" -> Patched(job, k)
      [] job.kind = "delete" -> NoPoint

WritePage(w) ==
    LET job == work[w]
    IN  /\ At(w, "write")
        /\ points' = [k \in Points |-> IF k \in Read(job) THEN Rewritten(job, k)
                                       ELSE points[k]]
        /\ IF job.next = NoOffset THEN Complete(w)
           ELSE Proceed(w, [job EXCEPT !.step = "scroll", !.from = job.next,
                                       !.page = NoPage, !.next = NoOffset])
        /\ UNCHANGED <<rows, versions, crashes, plan>>

Request(w) == Clear(w) \/ Upsert(w) \/ Scroll(w) \/ WritePage(w)

\* The request does not arrive.
Lose(w) ==
    /\ work[w] # NoJob
    /\ Raise(w)
    /\ UNCHANGED <<data, versions, crashes, plan>>

\* The process ends anywhere and starts again: it opens the store anew.
Restart(p) ==
    /\ crashes < MaxCrashes
    /\ crashes' = crashes + 1
    /\ work' = [work EXCEPT ![p] = NoJob]
    /\ seed' = [seed EXCEPT ![p] = Samples]
    /\ UNCHANGED <<data, versions, faults, want, plan>>
-----------------------------------------------------------------------------
(* What the stores answer.  A user is the set of allowed_groups lists that let him in; *)
(* the ranking is left out: every chunk matches a query, and top_k holds them all.     *)

Users == SUBSET Acls

\* DocumentStore.search and list_documents go by the metadata of the row,
LexicalHits(u) ==
    {k \in Points : /\ Hybrid /\ rows[k[1]] # NoRow
                    /\ k \in Chunks(k[1], size[k[1]][rows[k[1]].gen])
                    /\ rows[k[1]].meta # "quarantined" /\ rows[k[1]].groups \in u}

\* VectorDocumentStore.search by the payload, with build_acl_filter.
Passes(point, u) == point.status # "quarantined" /\ point.groups \in u
VectorHits(u) == {k \in Points : points[k] # NoPoint /\ Passes(points[k], u)}

\* _fuse_chunks has all of both, and of a chunk that both have the lexical copy.
Found(u) == LexicalHits(u) \cup VectorHits(u)
Hit(u, k) == IF k \in LexicalHits(u) THEN rows[k[1]] ELSE points[k]

\* search_with_trace judges every chunk once more: the row by its metadata,
LexicalOutcome(u, k) ==
    IF rows[k[1]].meta = "quarantined" THEN "excluded_quarantine"
    ELSE IF rows[k[1]].groups \notin u THEN "excluded_acl" ELSE "selected"

\* and the point by its metadata too, though the search went by the payload.
VectorOutcome(u, k) ==
    IF points[k].meta = "quarantined" THEN "excluded_quarantine"
    ELSE IF points[k].groups \notin u THEN "excluded_acl"
    ELSE IF k \in VectorHits(u) THEN "selected" ELSE "not_in_top_k"

Traced(d) == IF ~Hybrid THEN Keys(d)
             ELSE IF rows[d] = NoRow THEN {} ELSE Chunks(d, size[d][rows[d].gen])

\* The hybrid store has the trace of SQLite, and marks what was found.
Outcome(u, k) == IF ~Hybrid THEN VectorOutcome(u, k)
                 ELSE IF k \in Found(u) THEN "selected" ELSE LexicalOutcome(u, k)

\* list_documents goes by the row, or by the first point, and list_quarantined_documents
\* by any of them.
LexicalList(status) == {d \in Docs : rows[d] # NoRow /\ rows[d].meta = status}
VectorList == {d \in Docs : Keys(d) # {} /\ points[Least(Keys(d))].meta = "active"}
VectorQuarantined == {d \in Docs : \E k \in Keys(d) : points[k].meta = "quarantined"}

ListDocuments == IF Hybrid THEN LexicalList("active") ELSE VectorList
ListQuarantined == IF Hybrid THEN LexicalList("quarantined") ELSE VectorQuarantined
-----------------------------------------------------------------------------
Init ==
    /\ rows = [d \in Docs |-> NoRow]
    /\ points = [k \in Points |-> NoPoint]
    /\ work = [w \in Workers |-> NoJob]
    /\ seed = [p \in Processes |-> Samples]
    /\ todo = [t \in Tools |-> {}]
    /\ listed = [t \in Tools |-> [d \in Docs |-> Unknown]]
    /\ gen = [d \in Docs |-> 0]
    /\ size = [d \in Docs |-> [g \in 0..MaxGen |-> IF g = 0 THEN SampleSize ELSE 0]]
    /\ faults = 0 /\ crashes = 0
    /\ want = [d \in Docs |-> [Nothing EXCEPT !.gen = Absent]]
    /\ open = [d \in Docs |-> {}]
    /\ granted = [d \in Docs |-> [g \in 0..MaxGen |-> {}]]

Begin ==
    \/ \E w \in Processes, d \in Docs :
        \/ \E n \in 0..MaxChunks, groups \in Acls, status \in Status :
             Ingest(w, d, n, groups, status)
        \/ SeedSample(w, d)
        \/ \E status \in Status : SetStatus(w, d, status)
        \/ \E groups \in Acls : UpdateAcl(w, d, groups)
        \/ DeleteDocument(w, d)
    \/ \E t \in Tools, d \in Docs, groups \in Acls : Backfill(t, d, groups)

Tool(t) ==
    \/ \E S \in SUBSET Docs : PlanBackfill(t, S)
    \/ ListBackfill(t)
    \/ \E d \in Docs : SkipUnchanged(t, d)

Next ==
    \/ Begin
    \/ \E t \in Tools : Tool(t)
    \/ \E w \in Workers : Request(w) \/ Lose(w)
    \/ \E p \in Processes : Restart(p)

Spec == Init /\ [][Next]_vars

\* Every request is answered or times out.
FairSpec == Spec /\ \A w \in Workers : WF_vars(Request(w))
-----------------------------------------------------------------------------
(* Properties.                                                             *)

Copies(d) == {points[k] : k \in Keys(d)} \cup ({rows[d]} \ {NoRow})

\* Every variable has its type.
TypeOK ==
    /\ rows \in [Docs -> Payload \cup {NoRow}]
    /\ points \in Page
    /\ DOMAIN work = Workers
    /\ \A w \in Workers :
         work[w] = NoJob \/ (work[w].kind \in Kinds /\ work[w] \in Job(work[w].kind))
    /\ seed \in [Processes -> SUBSET Samples]
    /\ todo \in [Tools -> SUBSET Docs]
    /\ listed \in [Tools -> [Docs -> Status \cup {Absent, Unknown}]]
    /\ gen \in [Docs -> 0..MaxGen] /\ size \in [Docs -> [0..MaxGen -> 0..MaxChunks]]
    /\ faults \in 0..MaxFaults /\ crashes \in 0..MaxCrashes
    /\ want \in [Docs -> Wanted]
    /\ open \in [Docs -> SUBSET (0..MaxGen)]
    /\ granted \in [Docs -> [0..MaxGen -> SUBSET Acls]]

\* An answered write leaves the chunks of its version and no others, with its ACL and
\* its status in both places of a point, until the next write of that field begins.
StoresAgree(d) ==
    /\ want[d].gen = Absent => Copies(d) = {}
    /\ want[d].gen \in Nat =>
         /\ Keys(d) = Chunks(d, size[d][want[d].gen])
         /\ \A c \in Copies(d) : c.gen = want[d].gen
         /\ Hybrid => rows[d] # NoRow
    /\ want[d].groups # Unknown => \A c \in Copies(d) : c.groups = want[d].groups
    /\ want[d].status # Unknown =>
         \A c \in Copies(d) : c.status = want[d].status /\ c.meta = want[d].status

\* What is listed, found and explained is then what was promised.
AnswersAgree(d) ==
    /\ want[d].status # Unknown =>
         /\ d \in ListDocuments => want[d].status = "active"
         /\ d \in ListQuarantined => want[d].status = "quarantined"
         /\ \A u \in Users : \A k \in Traced(d) : k \in Found(u) <=> Outcome(u, k) = "selected"
    /\ want[d].status # Unknown /\ want[d].groups # Unknown =>
         \A u \in Users : (\E k \in Found(u) : k[1] = d)
                            => want[d].status = "active" /\ want[d].groups \in u

\* What an answered write promised, both stores keep and every search and listing
\* shows.  A write that fails half-way spoils only its own field, and only writes of
\* the same document at the same time, or a tool with an outdated listing, spoil
\* what others wrote.
PromisesKept == \A d \in Docs : StoresAgree(d) /\ AnswersAgree(d)

\* However writers interleave, fail and restart, no search shows a user a version that
\* was quarantined and not released, or one of whose ACLs none ever let him in.
ReachIsGranted ==
    \A u \in Users : \A k \in Found(u) :
        /\ Hit(u, k).gen \in open[k[1]]
        /\ granted[k[1]][Hit(u, k).gen] \cap u # {}

\* A write ends, whatever the others add or remove under its scroll.
WritesEnd == \A w \in Workers : work[w] # NoJob ~> work[w] = NoJob

=============================================================================
