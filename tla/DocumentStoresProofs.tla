------------------------ MODULE DocumentStoresProofs ------------------------
(* Theorems of DocumentStores: however many writers, chunks, failures and  *)
(* restarts there are, a search finds nothing that nobody let it find, and *)
(* what an answered write promised is what the stores hold.                *)
EXTENDS DocumentStores, FiniteSetTheorems, WellFoundedInduction, TLAPS

Working ==
    /\ DOMAIN work = Workers
    /\ \A w \in Workers :
         work[w] = NoJob \/ (work[w].kind \in Kinds /\ work[w] \in Job(work[w].kind))

LEMMA JobFields ==
    ASSUME NEW kind, NEW job \in Job(kind)
    PROVE  /\ job.kind = kind /\ job.doc \in Docs /\ job.value \in Value(kind)
           /\ job.from \in Nat /\ job.page \in Page /\ job.raced \in BOOLEAN
           /\ job.next \in Nat \cup {NoOffset} /\ job.meta \in Status
           /\ [job EXCEPT !.raced = TRUE] \in Job(kind)
           /\ kind \in Kinds => job # NoJob
BY SentinelAssumption DEF Job

LEMMA KindOfJob ==
    ASSUME Working, NEW w \in Workers, work[w] # NoJob
    PROVE  /\ work[w].kind \in Kinds /\ work[w] \in Job(work[w].kind)
           /\ work[w].doc \in Docs /\ work[w].value \in Value(work[w].kind)
           /\ work[w].page \in Page /\ work[w].meta \in Status
BY JobFields DEF Working

LEMMA NoPageType == NoPage \in Page
BY DEF NoPage, Page

LEMMA ActiveIsStatus == "active" \in Status
BY DEF Status

LEMMA StartType ==
    ASSUME TypeOK, NEW w \in Workers, NEW kind \in Kinds, NEW d \in Docs,
           NEW value \in Value(kind), NEW meta \in Status, Start(w, kind, d, value, meta)
    PROVE  Working' /\ want' \in [Docs -> Wanted]
<1> DEFINE job == [kind |-> kind, doc |-> d, value |-> value,
                   step |-> IF kind = "ingest" THEN "clear" ELSE "scroll",
                   from |-> 0, page |-> NoPage, next |-> NoOffset,
                   raced |-> Busy(d) # {}, meta |-> meta]
<1>1. job \in Job(kind) /\ job.kind = kind
    BY NoPageType DEF Job
<1>2. \A v \in Busy(d) : [work[v] EXCEPT !.raced = TRUE] \in Job(work[v].kind)
                          /\ [work[v] EXCEPT !.raced = TRUE].kind = work[v].kind /\ work[v].kind \in Kinds
    <2> SUFFICES ASSUME NEW v \in Busy(d)
                 PROVE  [work[v] EXCEPT !.raced = TRUE] \in Job(work[v].kind)
                        /\ [work[v] EXCEPT !.raced = TRUE].kind = work[v].kind /\ work[v].kind \in Kinds
        OBVIOUS
    <2>1. work[v].kind \in Kinds /\ work[v] \in Job(work[v].kind)
        BY DEF Busy, TypeOK
    <2> QED
        BY <2>1 DEF Job
<1>3. work' = [v \in Workers |-> IF v = w THEN job
                                  ELSE IF v \in Busy(d) THEN [work[v] EXCEPT !.raced = TRUE]
                                  ELSE work[v]]
    BY DEF Start
<1> HIDE DEF job
<1>4. Working'
    <2> SUFFICES ASSUME NEW v \in Workers
                 PROVE  work'[v] = NoJob
                        \/ (work'[v].kind \in Kinds /\ work'[v] \in Job(work'[v].kind))
        BY <1>3 DEF Working
    <2>1. CASE v = w
        BY <1>1, <1>3, <2>1
    <2>2. CASE v # w /\ v \in Busy(d)
        BY <1>2, <1>3, <2>2
    <2>3. CASE v # w /\ v \notin Busy(d)
        BY <1>3, <2>3 DEF TypeOK
    <2> QED
        BY <2>1, <2>2, <2>3
<1>5. Touched(want[d], kind, meta) \in Wanted /\ Nothing \in Wanted
    <2>1. want[d] \in Wanted
        BY DEF TypeOK
    <2> QED
        BY <2>1 DEF Wanted, Touched, Nothing
<1>6. want' \in [Docs -> Wanted]
    BY <1>5 DEF Start, TypeOK
<1> QED
    BY <1>4, <1>6

LEMMA SettledType ==
    ASSUME NEW kind \in Kinds, NEW job \in Job(kind), NEW w \in Wanted
    PROVE  Settled(w, job) \in Wanted
<1>1. job.kind = kind /\ job.value \in Value(kind)
    BY DEF Job
<1>2. CASE kind = "ingest"
    BY <1>1, <1>2 DEF Value, Payload, Settled, Wanted
<1>3. CASE kind = "status"
    BY <1>1, <1>3 DEF Value, Settled, Wanted
<1>4. CASE kind = "acl"
    BY <1>1, <1>4 DEF Value, Settled, Wanted
<1>5. CASE kind = "tool"
    BY <1>1, <1>5 DEF Value, Settled, Wanted
<1>6. CASE kind = "delete"
    BY <1>1, <1>6 DEF Value, Settled, Wanted, Nothing
<1> QED
    BY <1>2, <1>3, <1>4, <1>5, <1>6 DEF Kinds

\* A request leaves the worker with nothing to do, or with a job of the right type.
LEMMA RaiseType ==
    ASSUME TypeOK, NEW w \in Workers, Raise(w)
    PROVE  /\ Working' /\ want' \in [Docs -> Wanted]
           /\ seed' \in [Processes -> SUBSET Samples] /\ faults' \in 0..MaxFaults
           /\ work' = [work EXCEPT ![w] = NoJob]
BY BoundAssumption DEF Raise, TypeOK, Working

LEMMA ProceedType ==
    ASSUME TypeOK, NEW w \in Workers, NEW kind \in Kinds, NEW job \in Job(kind), Proceed(w, job)
    PROVE  /\ Working' /\ want' \in [Docs -> Wanted]
           /\ seed' \in [Processes -> SUBSET Samples] /\ faults' \in 0..MaxFaults
<1>1. CASE work' = [work EXCEPT ![w] = job] /\ UNCHANGED <<want, seed, faults>>
    <2>1. job.kind = kind
        BY DEF Job
    <2> QED
        BY <1>1, <2>1 DEF TypeOK, Working
<1>2. CASE Raise(w)
    BY <1>2, RaiseType
<1> QED
    BY <1>1, <1>2 DEF Proceed

LEMMA CompleteType ==
    ASSUME TypeOK, NEW w \in Workers, work[w] # NoJob, Complete(w)
    PROVE  /\ Working' /\ want' \in [Docs -> Wanted]
           /\ seed' \in [Processes -> SUBSET Samples] /\ faults' \in 0..MaxFaults
<1>1. CASE Raise(w)
    BY <1>1, RaiseType
<1>2. CASE ~Raise(w)
    <2>1. /\ work' = [work EXCEPT ![w] = NoJob]
          /\ want' = IF work[w].raced THEN want
                     ELSE [want EXCEPT ![work[w].doc] = Settled(@, work[w])]
          /\ UNCHANGED <<seed, faults>>
        BY <1>2 DEF Complete
    <2>2. work[w].kind \in Kinds /\ work[w] \in Job(work[w].kind) /\ work[w].doc \in Docs
        BY KindOfJob DEF TypeOK, Working
    <2>3. Settled(want[work[w].doc], work[w]) \in Wanted
        BY <2>2, SettledType DEF TypeOK
    <2> QED
        BY <2>1, <2>2, <2>3 DEF TypeOK, Working
<1> QED
    BY <1>1, <1>2

LEMMA VersionType ==
    ASSUME TypeOK, NEW d \in Docs, NEW g \in 0..MaxGen, NEW payload \in Payload,
           Version(d, g, payload)
    PROVE  /\ open' \in [Docs -> SUBSET (0..MaxGen)]
           /\ granted' \in [Docs -> [0..MaxGen -> SUBSET Acls]]
           /\ \A e \in Docs : open[e] \subseteq open'[e]
           /\ \A e \in Docs : \A h \in 0..MaxGen : granted[e][h] \subseteq granted'[e][h]
           /\ payload.status = "active" => g \in open'[d]
           /\ payload.groups \in granted'[d][g]
           /\ \A v \in Busy(d) : /\ work[v].kind = "status" /\ work[v].value = "active"
                                      => g \in open'[d]
                                 /\ work[v].kind \in {"acl", "tool"}
                                      => work[v].value \in granted'[d][g]
<1> DEFINE more == {work[v].value : v \in {u \in Busy(d) : work[u].kind \in {"acl", "tool"}}}
<1>1. more \subseteq Acls
    <2> SUFFICES ASSUME NEW v \in Busy(d), work[v].kind \in {"acl", "tool"}
                 PROVE  work[v].value \in Acls
        OBVIOUS
    <2>1. work[v].value \in Value(work[v].kind)
        BY KindOfJob DEF Busy, TypeOK, Working
    <2> QED
        BY <2>1 DEF Value
<1>2. payload.groups \in Acls
    BY DEF Payload
<1>3. granted' = [granted EXCEPT ![d] =
                    [granted[d] EXCEPT ![g] = granted[d][g] \cup {payload.groups} \cup more]]
    BY DEF Version
<1>4. granted \in [Docs -> [0..MaxGen -> SUBSET Acls]] /\ granted[d] \in [0..MaxGen -> SUBSET Acls]
    BY DEF TypeOK
<1>5. /\ granted'[d][g] = granted[d][g] \cup {payload.groups} \cup more
      /\ granted' \in [Docs -> [0..MaxGen -> SUBSET Acls]]
      /\ \A e \in Docs : \A h \in 0..MaxGen : granted[e][h] \subseteq granted'[e][h]
    <2> HIDE DEF more
    <2>1. granted[d][g] \cup {payload.groups} \cup more \in SUBSET Acls
        BY <1>1, <1>2, <1>4
    <2> DEFINE all == granted[d][g] \cup {payload.groups} \cup more
    <2>2. granted[d][g] \subseteq all
        OBVIOUS
    <2>3. granted' = [granted EXCEPT ![d] = [granted[d] EXCEPT ![g] = all]]
        BY <1>3
    <2> HIDE DEF all
    <2> QED
        BY <1>4, <2>1, <2>2, <2>3 DEF all
<1>6. open \in [Docs -> SUBSET (0..MaxGen)]
    BY DEF TypeOK
<1>7. /\ open' \in [Docs -> SUBSET (0..MaxGen)]
      /\ \A e \in Docs : open[e] \subseteq open'[e]
      /\ payload.status = "active" => g \in open'[d]
      /\ \A v \in Busy(d) : work[v].kind = "status" /\ work[v].value = "active" => g \in open'[d]
    BY <1>6 DEF Version
<1>8. \A v \in Busy(d) : work[v].kind \in {"acl", "tool"} => work[v].value \in more
    OBVIOUS
<1> HIDE DEF more
<1> QED
    BY <1>5, <1>7, <1>8

LEMMA GrantType ==
    ASSUME TypeOK, NEW d \in Docs, NEW groups \in Acls, Grant(d, groups)
    PROVE  /\ granted' \in [Docs -> [0..MaxGen -> SUBSET Acls]]
           /\ \A e \in Docs : \A h \in 0..MaxGen : granted[e][h] \subseteq granted'[e][h]
           /\ \A h \in 0..gen[d] : groups \in granted'[d][h]
<1>1. granted \in [Docs -> [0..MaxGen -> SUBSET Acls]] /\ granted[d] \in [0..MaxGen -> SUBSET Acls]
    BY DEF TypeOK
<1> DEFINE new == [g \in 0..MaxGen |-> IF g <= gen[d] THEN granted[d][g] \cup {groups}
                                       ELSE granted[d][g]]
<1>2. granted' = [granted EXCEPT ![d] = new]
    BY <1>1 DEF Grant
<1>3. new \in [0..MaxGen -> SUBSET Acls] /\ \A h \in 0..MaxGen : granted[d][h] \subseteq new[h]
    BY <1>1
<1>4. \A h \in 0..gen[d] : groups \in new[h]
    BY BoundAssumption DEF TypeOK
<1> HIDE DEF new
<1> QED
    BY <1>1, <1>2, <1>3, <1>4

LEMMA LexicalType ==
    ASSUME TypeOK, NEW d \in Docs, NEW row \in Payload \cup {NoRow}, Lexical(d, row)
    PROVE  /\ rows' \in [Docs -> Payload \cup {NoRow}]
           /\ \A e \in Docs : rows'[e] = rows[e] \/ (e = d /\ rows'[e] = row)
BY DEF Lexical, TypeOK
-----------------------------------------------------------------------------
(* Types.                                                                  *)

Plan == /\ todo \in [Tools -> SUBSET Docs]
        /\ listed \in [Tools -> [Docs -> Status \cup {Absent, Unknown}]]

Rest == /\ seed \in [Processes -> SUBSET Samples] /\ Plan
        /\ gen \in [Docs -> 0..MaxGen] /\ size \in [Docs -> [0..MaxGen -> 0..MaxChunks]]
        /\ faults \in 0..MaxFaults /\ crashes \in 0..MaxCrashes
        /\ want \in [Docs -> Wanted]
        /\ open \in [Docs -> SUBSET (0..MaxGen)]
        /\ granted \in [Docs -> [0..MaxGen -> SUBSET Acls]]

LEMMA IngestType ==
    ASSUME TypeOK, NEW w \in Processes, NEW d \in Docs, NEW n \in 0..MaxChunks,
           NEW groups \in Acls, NEW status \in Status, Ingest(w, d, n, groups, status)
    PROVE  TypeOK'
<1> DEFINE g == gen[d] + 1
           payload == [gen |-> g, groups |-> groups, status |-> status, meta |-> status]
<1>1. g \in 0..MaxGen /\ gen' = [gen EXCEPT ![d] = g] /\ gen' \in [Docs -> 0..MaxGen]
    BY BoundAssumption DEF Ingest, TypeOK
<1>2. payload \in Payload /\ payload \in Value("ingest") /\ w \in Workers /\ "ingest" \in Kinds
    BY <1>1 DEF Payload, Value, Workers, Kinds
<1>3. /\ Version(d, g, payload) /\ Lexical(d, payload) /\ Start(w, "ingest", d, payload, "active")
      /\ size' = [size EXCEPT ![d] = [size[d] EXCEPT ![g] = n]]
      /\ UNCHANGED <<points, seed, faults, crashes, plan>>
    BY DEF Ingest
<1> HIDE DEF payload
<1>4. Working' /\ want' \in [Docs -> Wanted]
    BY <1>2, <1>3, StartType, ActiveIsStatus
<1>5. /\ open' \in [Docs -> SUBSET (0..MaxGen)]
      /\ granted' \in [Docs -> [0..MaxGen -> SUBSET Acls]]
    BY <1>1, <1>2, <1>3, VersionType
<1>6. rows' \in [Docs -> Payload \cup {NoRow}]
    BY <1>2, <1>3, LexicalType
<1>7. size' \in [Docs -> [0..MaxGen -> 0..MaxChunks]]
    <2> HIDE DEF g
    <2>1. size[d] \in [0..MaxGen -> 0..MaxChunks]
        BY DEF TypeOK
    <2>2. [size[d] EXCEPT ![g] = n] \in [0..MaxGen -> 0..MaxChunks]
        BY <1>1, <2>1
    <2> QED
        BY <1>3, <2>2 DEF TypeOK
<1> HIDE DEF g
<1>8. Rest' /\ points' \in Page
    BY <1>1, <1>3, <1>4, <1>5, <1>7 DEF Rest, Plan, TypeOK, plan
<1> QED
    BY <1>4, <1>6, <1>8 DEF Rest, Plan, Working, TypeOK

LEMMA SeedType ==
    ASSUME TypeOK, NEW p \in Processes, NEW d \in Docs, SeedSample(p, d)
    PROVE  TypeOK'
<1> DEFINE payload == [gen |-> 0, groups |-> SampleAcl, status |-> "active", meta |-> "active"]
<1>1. payload \in Payload /\ payload \in Value("ingest") /\ p \in Workers /\ "ingest" \in Kinds
      /\ 0 \in 0..MaxGen
    BY SampleAssumption, BoundAssumption DEF Payload, Value, Workers, Kinds, Status
<1>2. /\ Version(d, 0, payload) /\ Lexical(d, payload) /\ Start(p, "ingest", d, payload, "active")
      /\ seed' = [seed EXCEPT ![p] = @ \ {d}]
      /\ UNCHANGED <<points, gen, size, faults, crashes, plan>>
    BY DEF SeedSample
<1> HIDE DEF payload
<1>3. Working' /\ want' \in [Docs -> Wanted]
    BY <1>1, <1>2, StartType, ActiveIsStatus
<1>4. /\ open' \in [Docs -> SUBSET (0..MaxGen)]
      /\ granted' \in [Docs -> [0..MaxGen -> SUBSET Acls]]
    BY <1>1, <1>2, VersionType
<1>5. rows' \in [Docs -> Payload \cup {NoRow}]
    BY <1>1, <1>2, LexicalType
<1>6. Rest' /\ points' \in Page
    BY <1>2, <1>3, <1>4 DEF Rest, Plan, TypeOK, plan
<1> QED
    BY <1>3, <1>5, <1>6 DEF Rest, Plan, Working, TypeOK

\* The row that an update of a field leaves.
LEMMA RowType ==
    ASSUME TypeOK, NEW d \in Docs, rows[d] # NoRow
    PROVE  /\ rows[d] \in Payload
           /\ \A status \in Status : [rows[d] EXCEPT !.status = status, !.meta = status] \in Payload
           /\ \A groups \in Acls : [rows[d] EXCEPT !.groups = groups] \in Payload
<1>1. rows[d] \in Payload
    BY DEF TypeOK
<1> QED
    BY <1>1 DEF Payload

LEMMA StatusType ==
    ASSUME TypeOK, NEW w \in Processes, NEW d \in Docs, NEW status \in Status,
           SetStatus(w, d, status)
    PROVE  TypeOK'
<1> DEFINE row == IF rows[d] = NoRow THEN NoRow
                  ELSE [rows[d] EXCEPT !.status = status, !.meta = status]
<1>1. row \in Payload \cup {NoRow} /\ status \in Value("status") /\ w \in Workers
      /\ "status" \in Kinds
    BY RowType DEF Value, Workers, Kinds
<1>2. /\ Lexical(d, row) /\ Start(w, "status", d, status, "active")
      /\ open' = [open EXCEPT ![d] = IF status = "active" THEN @ \cup 0..gen[d] ELSE @]
      /\ UNCHANGED <<points, seed, gen, size, granted, faults, crashes, plan>>
    BY DEF SetStatus
<1> HIDE DEF row
<1>3. Working' /\ want' \in [Docs -> Wanted]
    BY <1>1, <1>2, StartType, ActiveIsStatus
<1>4. rows' \in [Docs -> Payload \cup {NoRow}]
    BY <1>1, <1>2, LexicalType
<1>5. open' \in [Docs -> SUBSET (0..MaxGen)]
    <2>1. gen[d] \in 0..MaxGen /\ open[d] \in SUBSET (0..MaxGen)
        BY DEF TypeOK
    <2>2. 0..gen[d] \in SUBSET (0..MaxGen)
        BY <2>1, BoundAssumption
    <2> QED
        BY <1>2, <2>1, <2>2 DEF TypeOK
<1>6. Rest' /\ points' \in Page
    BY <1>2, <1>3, <1>5 DEF Rest, Plan, TypeOK, plan
<1> QED
    BY <1>3, <1>4, <1>6 DEF Rest, Plan, Working, TypeOK

LEMMA AclType ==
    ASSUME TypeOK, NEW w \in Processes, NEW d \in Docs, NEW groups \in Acls,
           UpdateAcl(w, d, groups)
    PROVE  TypeOK'
<1> DEFINE row == IF rows[d] = NoRow THEN NoRow ELSE [rows[d] EXCEPT !.groups = groups]
<1>1. row \in Payload \cup {NoRow} /\ groups \in Value("acl") /\ w \in Workers /\ "acl" \in Kinds
    BY RowType DEF Value, Workers, Kinds
<1>2. /\ Lexical(d, row) /\ Start(w, "acl", d, groups, "active") /\ Grant(d, groups)
      /\ UNCHANGED <<points, seed, gen, size, open, faults, crashes, plan>>
    BY DEF UpdateAcl
<1> HIDE DEF row
<1>3. Working' /\ want' \in [Docs -> Wanted]
    BY <1>1, <1>2, StartType, ActiveIsStatus
<1>4. rows' \in [Docs -> Payload \cup {NoRow}]
    BY <1>1, <1>2, LexicalType
<1>5. Rest' /\ points' \in Page
    BY <1>2, <1>3, GrantType DEF Rest, Plan, TypeOK, plan
<1> QED
    BY <1>3, <1>4, <1>5 DEF Rest, Plan, Working, TypeOK

LEMMA FinishedType ==
    ASSUME TypeOK, NEW t \in Tools, NEW d \in Docs, Finished(t, d)
    PROVE  Plan'
<1>1. todo[t] \ {d} \in SUBSET Docs /\ listed[t] \in [Docs -> Status \cup {Absent, Unknown}]
    BY DEF TypeOK
<1>2. [listed[t] EXCEPT ![d] = Unknown] \in [Docs -> Status \cup {Absent, Unknown}]
    BY <1>1
<1>3. /\ todo' = [todo EXCEPT ![t] = todo[t] \ {d}]
      /\ listed' = [listed EXCEPT ![t] = [listed[t] EXCEPT ![d] = Unknown]]
    BY DEF Finished
<1> QED
    BY <1>1, <1>2, <1>3 DEF Plan, TypeOK

LEMMA ToolType ==
    ASSUME TypeOK, NEW t \in Tools, NEW d \in Docs, NEW groups \in Acls, Backfill(t, d, groups)
    PROVE  TypeOK'
<1> DEFINE meta == IF listed[t][d] = Absent THEN "active" ELSE listed[t][d]
<1>1. groups \in Value("tool") /\ t \in Workers /\ "tool" \in Kinds
    BY DEF Value, Workers, Kinds
<1>2. /\ Finished(t, d) /\ Start(t, "tool", d, groups, meta) /\ Grant(d, groups)
      /\ UNCHANGED <<rows, points, seed, gen, size, open, faults, crashes>>
    BY DEF Backfill
<1>3. meta \in Status
    BY <1>2 DEF Finished, TypeOK, Status
<1> HIDE DEF meta
<1>4. Working' /\ want' \in [Docs -> Wanted]
    BY <1>1, <1>2, <1>3, StartType
<1>5. Plan'
    BY <1>2, FinishedType
<1>6. Rest' /\ points' \in Page /\ rows' \in [Docs -> Payload \cup {NoRow}]
    BY <1>2, <1>4, <1>5, GrantType DEF Rest, TypeOK
<1> QED
    BY <1>4, <1>6 DEF Rest, Plan, Working, TypeOK

\* Numbers are well ordered, by the library's theorem on strict subsets.
LEMMA LeastNumber ==
    ASSUME NEW S \in SUBSET Nat, S # {}
    PROVE  \E n \in S : \A k \in S : n <= k
<1> DEFINE Below == {1..k : k \in S}
           R == StrictSubsetOrdering(Nat)
<1>1. IsWellFoundedOn(R, FiniteSubsetsOf(Nat))
    BY FS_StrictSubsetOrderingWellFounded
<1>2. \A k \in S : IsFiniteSet(1..k) /\ 1..k \subseteq Nat
    BY FS_Interval
<1>3. Below \subseteq FiniteSubsetsOf(Nat) /\ Below # {}
    BY <1>2 DEF FiniteSubsetsOf
<1>4. PICK T \in Below : \A U \in Below : ~(<<U, T>> \in R)
  <2> HIDE DEF Below, R
  <2> QED
    BY <1>1, <1>3, WFMin
<1>5. PICK n \in S : T = 1..n
    OBVIOUS
<1>6. ASSUME NEW k \in S, k < n PROVE FALSE
  <2>1. 1..k \in Below
    OBVIOUS
  <2>2. 1..k \subseteq 1..n
    BY <1>6
  <2>3. n \in 1..n /\ n \notin 1..k
    BY <1>6
  <2>4. 1..k # 1..n
    BY <2>3
  <2>5. 1..k \in SUBSET Nat /\ 1..n \in SUBSET Nat
    BY <1>2
  <2>6. <<1..k, 1..n>> \in R
    BY <2>2, <2>4, <2>5 DEF StrictSubsetOrdering
  <2> QED
    BY <1>4, <1>5, <2>1, <2>6
<1> QED
    BY <1>6

\* A page has a first point.
LEMMA LeastIsOne ==
    ASSUME NEW S \in SUBSET Points, S # {}
    PROVE  Least(S) \in S /\ \A j \in S : Order[Least(S)] <= Order[j]
<1>1. \E k \in S : \A j \in S : Order[k] <= Order[j]
  <2> DEFINE Numbers == {Order[k] : k \in S}
  <2>1. Numbers \in SUBSET Nat /\ Numbers # {}
    BY OrderAssumption
  <2>2. PICK n \in Numbers : \A m \in Numbers : n <= m
    <3> HIDE DEF Numbers
    <3> QED
      BY <2>1, LeastNumber
  <2> QED
    BY <2>2
<1> QED
    BY <1>1 DEF Least

LEMMA PlanType ==
    ASSUME TypeOK, NEW t \in Tools, Tool(t)
    PROVE  TypeOK'
<1>1. UNCHANGED <<data, work, seed, versions, want, faults, crashes>>
    BY DEF Tool, PlanBackfill, ListBackfill, SkipUnchanged
<1>2. ASSUME NEW S \in SUBSET Docs, PlanBackfill(t, S) PROVE Plan'
    BY <1>2 DEF PlanBackfill, Plan, TypeOK
<1>3. ASSUME ListBackfill(t) PROVE Plan'
    <2> DEFINE list == [d \in Docs |->
                          IF d \notin todo[t] THEN Unknown
                          ELSE IF Keys(d) = {} THEN Absent ELSE points[Least(Keys(d))].meta]
    <2>1. ASSUME NEW d \in Docs, Keys(d) # {} PROVE points[Least(Keys(d))].meta \in Status
        <3>1. Keys(d) \in SUBSET Points /\ \A k \in Keys(d) : points[k] \in Payload
            BY DEF Keys, TypeOK, Page
        <3>2. points[Least(Keys(d))] \in Payload
            BY <2>1, <3>1, LeastIsOne
        <3> QED
            BY <3>2 DEF Payload
    <2>2. list \in [Docs -> Status \cup {Absent, Unknown}]
        BY <2>1
    <2>3. listed' = [listed EXCEPT ![t] = list] /\ todo' = todo
        BY <1>3 DEF ListBackfill
    <2> HIDE DEF list
    <2> QED
        BY <2>2, <2>3 DEF Plan, TypeOK
<1>4. ASSUME NEW d \in Docs, SkipUnchanged(t, d) PROVE Plan'
    BY <1>4, FinishedType DEF SkipUnchanged
<1>5. Plan'
    BY <1>2, <1>3, <1>4 DEF Tool
<1> QED
    BY <1>1, <1>5 DEF Plan, TypeOK, data, versions

LEMMA DeleteType ==
    ASSUME TypeOK, NEW w \in Processes, NEW d \in Docs, DeleteDocument(w, d)
    PROVE  TypeOK'
<1>1. Absent \in Value("delete") /\ w \in Workers /\ "delete" \in Kinds
    BY DEF Value, Workers, Kinds
<1>2. /\ Lexical(d, NoRow) /\ Start(w, "delete", d, Absent, "active")
      /\ UNCHANGED <<points, seed, versions, faults, crashes, plan>>
    BY DEF DeleteDocument
<1>3. Working' /\ want' \in [Docs -> Wanted]
    BY <1>1, <1>2, StartType, ActiveIsStatus
<1>4. rows' \in [Docs -> Payload \cup {NoRow}]
    BY <1>2, LexicalType
<1>5. Rest' /\ points' \in Page
    BY <1>2, <1>3 DEF Rest, Plan, TypeOK, plan, versions
<1> QED
    BY <1>3, <1>4, <1>5 DEF Rest, Plan, Working, TypeOK

LEMMA KindIsKnown ==
    ASSUME Working, NEW w \in Workers, work[w] # NoJob, NEW step, work[w].step = step
    PROVE  /\ work[w].kind \in Kinds
           /\ step \in {"clear", "upsert"} => work[w].kind = "ingest" /\ work[w].value \in Payload
           /\ step \in {"scroll", "write"} => work[w].kind # "ingest"
<1>1. work[w].kind \in Kinds /\ work[w] \in Job(work[w].kind) /\ work[w].value \in Value(work[w].kind)
    BY KindOfJob
<1>2. work[w].step \in IF work[w].kind = "ingest" THEN {"clear", "upsert"} ELSE {"scroll", "write"}
    BY <1>1 DEF Job
<1>3. work[w].kind = "ingest" => work[w].value \in Payload
    BY <1>1 DEF Value
<1> QED
    BY <1>1, <1>2, <1>3

LEMMA ClearType == ASSUME TypeOK, NEW w \in Workers, Clear(w) PROVE TypeOK'
<1>1. work[w] \in Job("ingest") /\ work[w] # NoJob /\ work[w].kind = "ingest" /\ "ingest" \in Kinds
    BY KindIsKnown, KindOfJob DEF Clear, At, TypeOK, Working, Kinds
<1>2. [work[w] EXCEPT !.step = "upsert"] \in Job("ingest")
    BY <1>1 DEF Job
<1>3. Complete(w) \/ Proceed(w, [work[w] EXCEPT !.step = "upsert"])
    BY DEF Clear
<1>4. /\ Working' /\ want' \in [Docs -> Wanted]
      /\ seed' \in [Processes -> SUBSET Samples] /\ faults' \in 0..MaxFaults
    BY <1>1, <1>2, <1>3, CompleteType, ProceedType
<1>5. points' \in Page
    BY DEF Clear, TypeOK, Page
<1>6. UNCHANGED <<rows, versions, crashes, plan>>
    BY DEF Clear
<1> QED
    BY <1>4, <1>5, <1>6 DEF TypeOK, Working, versions, plan

LEMMA UpsertType == ASSUME TypeOK, NEW w \in Workers, Upsert(w) PROVE TypeOK'
<1>1. work[w] # NoJob /\ work[w].kind = "ingest" /\ "ingest" \in Kinds /\ work[w].value \in Payload
    BY KindIsKnown DEF Upsert, At, TypeOK, Working, Kinds
<1>2. Complete(w)
    BY DEF Upsert
<1>3. /\ Working' /\ want' \in [Docs -> Wanted]
      /\ seed' \in [Processes -> SUBSET Samples] /\ faults' \in 0..MaxFaults
    BY <1>1, <1>2, CompleteType
<1>4. points' \in Page
    BY <1>1 DEF Upsert, TypeOK, Page
<1>5. UNCHANGED <<rows, versions, crashes, plan>>
    BY DEF Upsert
<1> QED
    BY <1>3, <1>4, <1>5 DEF TypeOK, Working, versions, plan

LEMMA ScrollType == ASSUME TypeOK, NEW w \in Workers, Scroll(w) PROVE TypeOK'
<1> DEFINE S == From(work[w].doc, work[w].from)
           page == [k \in Points |-> IF k \in First(S) THEN points[k] ELSE NoPoint]
           job == [work[w] EXCEPT !.step = "write", !.page = page, !.next = Offset(S \ First(S))]
<1>1. work[w] # NoJob /\ work[w].kind \in Kinds /\ work[w] \in Job(work[w].kind)
      /\ work[w].kind # "ingest"
    BY KindIsKnown, KindOfJob DEF Scroll, At, TypeOK, Working
<1>2. page \in Page
    BY DEF Page, TypeOK
<1>3. Offset(S \ First(S)) \in Nat \cup {NoOffset}
    <2>1. S \ First(S) \subseteq Points
        BY DEF From, Keys
    <2>2. S \ First(S) # {} => Least(S \ First(S)) \in Points
        BY <2>1, LeastIsOne
    <2> QED
        BY <2>1, <2>2, OrderAssumption DEF Offset
<1>4. job \in Job(work[w].kind)
    <2> HIDE DEF page
    <2> QED
        BY <1>1, <1>2, <1>3 DEF Job
<1>5. Complete(w) \/ Proceed(w, job)
    BY DEF Scroll
<1> HIDE DEF job, S, page
<1>6. /\ Working' /\ want' \in [Docs -> Wanted]
      /\ seed' \in [Processes -> SUBSET Samples] /\ faults' \in 0..MaxFaults
    BY <1>1, <1>4, <1>5, CompleteType, ProceedType
<1>7. UNCHANGED <<data, versions, crashes, plan>>
    BY DEF Scroll
<1> QED
    BY <1>6, <1>7 DEF TypeOK, Working, versions, plan, data

LEMMA RewrittenType ==
    ASSUME TypeOK, NEW w \in Workers, work[w] # NoJob, work[w].kind # "ingest",
           NEW k \in Read(work[w])
    PROVE  Rewritten(work[w], k) \in Payload \cup {NoPoint}
<1> DEFINE job == work[w]
<1>1. job.kind \in Kinds /\ job.value \in Value(job.kind) /\ job.page \in Page
    BY KindOfJob DEF TypeOK, Working
<1>2. \A i \in Read(job) : i \in Points /\ job.page[i] \in Payload
    BY <1>1 DEF Read, Page
<1> HIDE DEF job
<1>3. CASE job.kind = "status"
    BY <1>1, <1>2, <1>3 DEF Value, Rewritten, WithStatus, Payload, job
<1>4. CASE job.kind = "acl"
    BY <1>1, <1>2, <1>4 DEF Value, Rewritten, WithGroups, Payload, job
<1>5. CASE job.kind = "tool"
    <2> DEFINE meta == IF job.meta = "active" THEN job.page[Least(Read(job))].meta ELSE job.meta
    <2>1. Read(job) \in SUBSET Points /\ Read(job) # {}
        BY <1>2 DEF job
    <2>2. Least(Read(job)) \in Read(job)
        BY <2>1, LeastIsOne
    <2>3. job.value \in Acls /\ job.meta \in Status
        BY <1>1, <1>5, KindOfJob DEF Value, job, TypeOK, Working
    <2>4. meta \in Status
        BY <1>2, <2>2, <2>3 DEF Payload
    <2>5. points[k] \in Payload \cup {NoPoint}
        BY <1>2 DEF TypeOK, Page, job
    <2>6. Rewritten(job, k) = IF points[k] = NoPoint THEN NoPoint
              ELSE [points[k] EXCEPT !.groups = job.value, !.meta = meta]
        BY <1>5 DEF Rewritten, Patched
    <2> HIDE DEF meta
    <2>7. Rewritten(job, k) \in Payload \cup {NoPoint}
        BY <2>3, <2>4, <2>5, <2>6 DEF Payload
    <2> QED
        BY <2>7 DEF job
<1>6. CASE job.kind = "delete"
    BY <1>6 DEF Rewritten, job
<1> QED
    BY <1>1, <1>3, <1>4, <1>5, <1>6 DEF Kinds, job

LEMMA WriteType == ASSUME TypeOK, NEW w \in Workers, WritePage(w) PROVE TypeOK'
<1> DEFINE job == [work[w] EXCEPT !.step = "scroll", !.from = work[w].next,
                                  !.page = NoPage, !.next = NoOffset]
<1>1. work[w] # NoJob /\ work[w].kind \in Kinds /\ work[w] \in Job(work[w].kind)
      /\ work[w].kind # "ingest"
    BY KindIsKnown, KindOfJob DEF WritePage, At, TypeOK, Working
<1>2. points' \in Page
    <2>1. points' = [k \in Points |-> IF k \in Read(work[w]) THEN Rewritten(work[w], k)
                                       ELSE points[k]]
        BY DEF WritePage
    <2>2. \A k \in Read(work[w]) : Rewritten(work[w], k) \in Payload \cup {NoPoint}
        BY <1>1, RewrittenType
    <2> QED
        BY <2>1, <2>2 DEF TypeOK, Page
<1>3. CASE work[w].next = NoOffset
    <2>1. Complete(w)
        BY <1>3 DEF WritePage
    <2>2. /\ Working' /\ want' \in [Docs -> Wanted]
          /\ seed' \in [Processes -> SUBSET Samples] /\ faults' \in 0..MaxFaults
        BY <1>1, <2>1, CompleteType
    <2> QED
        BY <1>2, <2>2 DEF WritePage, TypeOK, Working, versions, plan
<1>4. CASE work[w].next # NoOffset
    <2>1. Proceed(w, job)
        BY <1>4 DEF WritePage
    <2>2. work[w].next \in Nat
        BY <1>1, <1>4 DEF Job
    <2>3. job \in Job(work[w].kind)
        BY <1>1, <2>2, NoPageType DEF Job
    <2> HIDE DEF job
    <2>4. /\ Working' /\ want' \in [Docs -> Wanted]
          /\ seed' \in [Processes -> SUBSET Samples] /\ faults' \in 0..MaxFaults
        BY <1>1, <2>1, <2>3, ProceedType
    <2> QED
        BY <1>2, <2>4 DEF WritePage, TypeOK, Working, versions, plan
<1> QED
    BY <1>3, <1>4

LEMMA TypeStep == TypeOK /\ [Next]_vars => TypeOK'
<1> SUFFICES ASSUME TypeOK, [Next]_vars PROVE TypeOK'
    OBVIOUS
<1>1. ASSUME NEW w \in Workers, Request(w) PROVE TypeOK'
    BY <1>1, ClearType, UpsertType, ScrollType, WriteType DEF Request
<1>2. ASSUME NEW w \in Workers, Lose(w) PROVE TypeOK'
    BY <1>2, RaiseType DEF Lose, TypeOK, Working, data, versions, plan
<1>3. ASSUME NEW p \in Processes, Restart(p) PROVE TypeOK'
    <2>1. p \in Workers
        BY DEF Workers
    <2>2. seed' \in [Processes -> SUBSET Samples] /\ crashes' \in 0..MaxCrashes
        BY <1>3, BoundAssumption DEF Restart, TypeOK
    <2>3. Working'
        BY <1>3, <2>1 DEF Restart, TypeOK, Working
    <2> QED
        BY <1>3, <2>2, <2>3 DEF Restart, TypeOK, Working, data, versions, plan
<1>4. CASE Begin
    BY <1>4, IngestType, SeedType, StatusType, AclType, DeleteType, ToolType DEF Begin
<1>6. ASSUME NEW t \in Tools, Tool(t) PROVE TypeOK'
    BY <1>6, PlanType
<1>5. CASE UNCHANGED vars
    BY <1>5 DEF TypeOK, vars, data, versions, plan
<1> QED
    BY <1>1, <1>2, <1>3, <1>4, <1>5, <1>6 DEF Next

LEMMA TypeInit == Init => TypeOK
<1> SUFFICES ASSUME Init PROVE TypeOK
    OBVIOUS
<1>1. points \in Page /\ rows \in [Docs -> Payload \cup {NoRow}]
    BY DEF Init, Page
<1>2. size \in [Docs -> [0..MaxGen -> 0..MaxChunks]]
    BY SampleAssumption, BoundAssumption DEF Init
<1>3. want \in [Docs -> Wanted]
    BY DEF Init, Wanted, Nothing
<1>4. /\ seed \in [Processes -> SUBSET Samples] /\ gen \in [Docs -> 0..MaxGen]
      /\ faults \in 0..MaxFaults /\ crashes \in 0..MaxCrashes
    BY BoundAssumption DEF Init
<1>5. /\ open \in [Docs -> SUBSET (0..MaxGen)]
      /\ granted \in [Docs -> [0..MaxGen -> SUBSET Acls]]
    BY DEF Init
<1>6. Working /\ Plan
    BY DEF Init, Working, Plan
<1> QED
    BY <1>1, <1>2, <1>3, <1>4, <1>5, <1>6 DEF TypeOK, Working, Plan

\* However many writers, failures and restarts, every variable keeps its type.
THEOREM TypeCorrect == Spec => []TypeOK
<1> QED
    BY TypeInit, TypeStep, PTL DEF Spec
-----------------------------------------------------------------------------
(* Reach.  What is stored, what a worker has read and what it is about to   *)
(* write are all versions under an ACL somebody gave them, and searchable   *)
(* only if somebody opened them.                                            *)

Held(d, c) ==
    /\ c.gen \in 0..gen[d]
    /\ c.groups \in granted[d][c.gen]
    /\ c.status = "active" => c.gen \in open[d]

\* What a write is allowed to do to every version there is.
Allowed(kind, d, value) ==
    /\ kind = "ingest" => Held(d, value)
    /\ kind = "status" /\ value = "active" => \A g \in 0..gen[d] : g \in open[d]
    /\ kind \in {"acl", "tool"} => \A g \in 0..gen[d] : value \in granted[d][g]

PageHeld(d, page) == \A k \in Points : page[k] # NoPoint => k[1] = d /\ Held(d, page[k])

ReachInv ==
    /\ \A d \in Docs : rows[d] # NoRow => Held(d, rows[d])
    /\ \A k \in Points : points[k] # NoPoint => Held(k[1], points[k])
    /\ \A w \in Workers : work[w] # NoJob =>
         /\ Allowed(work[w].kind, work[w].doc, work[w].value)
         /\ PageHeld(work[w].doc, work[w].page)

\* What is open or granted stays so, and what is under way reaches a new version.
Grow ==
    /\ \A e \in Docs : gen[e] <= gen'[e] /\ open[e] \subseteq open'[e]
    /\ \A e \in Docs : \A h \in 0..MaxGen : granted[e][h] \subseteq granted'[e][h]
    /\ \A v \in Workers : work[v] # NoJob =>
         \A h \in 0..gen'[work[v].doc] :
            \/ h \in 0..gen[work[v].doc]
            \/ /\ work[v].kind = "status" /\ work[v].value = "active" => h \in open'[work[v].doc]
               /\ work[v].kind \in {"acl", "tool"} => work[v].value \in granted'[work[v].doc][h]

LEMMA HeldGrows ==
    ASSUME TypeOK, TypeOK', Grow
    PROVE  \A d \in Docs : \A c : Held(d, c) => Held(d, c)'
<1> SUFFICES ASSUME NEW d \in Docs, NEW c, Held(d, c) PROVE Held(d, c)'
    OBVIOUS
<1>1. gen[d] \in 0..MaxGen /\ gen'[d] \in 0..MaxGen /\ gen[d] <= gen'[d]
    BY DEF TypeOK, Grow
<1>2. c.gen \in 0..gen'[d] /\ c.gen \in 0..MaxGen
    BY <1>1, BoundAssumption DEF Held
<1> QED
    BY <1>2 DEF Held, Grow

LEMMA AllowedGrows ==
    ASSUME TypeOK, TypeOK', Grow, NEW v \in Workers, work[v] # NoJob,
           Allowed(work[v].kind, work[v].doc, work[v].value)
    PROVE  \A kind, d, value :
             kind = work[v].kind /\ d = work[v].doc /\ value = work[v].value
               => Allowed(kind, d, value)'
<1> SUFFICES ASSUME NEW kind, NEW d, NEW value,
                    kind = work[v].kind, d = work[v].doc, value = work[v].value
             PROVE  Allowed(kind, d, value)'
    OBVIOUS
<1>1. d \in Docs /\ Allowed(kind, d, value)
    BY KindOfJob DEF TypeOK, Working
<1>2. gen[d] \in 0..MaxGen /\ gen'[d] \in 0..MaxGen /\ gen[d] <= gen'[d]
    BY <1>1 DEF TypeOK, Grow
<1>3. 0..gen[d] \subseteq 0..MaxGen /\ 0..gen[d] \subseteq 0..gen'[d]
    BY <1>2, BoundAssumption
<1>4. kind = "ingest" => Held(d, value)'
    BY <1>1, HeldGrows DEF Allowed
<1>5. kind = "status" /\ value = "active" => \A g \in 0..gen'[d] : g \in open'[d]
    BY <1>1, <1>3 DEF Grow, Allowed
<1>6. kind \in {"acl", "tool"} => \A g \in 0..gen'[d] : value \in granted'[d][g]
    BY <1>1, <1>3 DEF Grow, Allowed
<1> QED
    BY <1>4, <1>5, <1>6 DEF Allowed

LEMMA PageGrows ==
    ASSUME TypeOK, TypeOK', Grow
    PROVE  \A d \in Docs : \A page : PageHeld(d, page) => PageHeld(d, page)'
BY HeldGrows DEF PageHeld

\* A write that begins keeps the invariant if what it may do is allowed.
LEMMA StartReach ==
    ASSUME TypeOK, TypeOK', ReachInv, Grow, NEW w \in Workers, NEW kind \in Kinds,
           NEW d \in Docs, NEW value \in Value(kind), NEW meta, Start(w, kind, d, value, meta),
           Allowed(kind, d, value)', points' = points,
           \A e \in Docs : rows'[e] = rows[e] \/ rows'[e] = NoRow
                           \/ \E c : rows'[e] = c /\ Held(e, c)'
    PROVE  ReachInv'
<1>1. \A e \in Docs : \A c : Held(e, c) => Held(e, c)'
    BY HeldGrows
<1>2. ASSUME NEW e \in Docs, rows'[e] # NoRow
      PROVE  Held(e, rows[e])'
    BY <1>1, <1>2 DEF ReachInv, Held
<1>3. ASSUME NEW k \in Points, points'[k] # NoPoint
      PROVE  Held(k[1], points[k])'
    BY <1>1, <1>3 DEF ReachInv, Held, Points
<1>4. ASSUME NEW v \in Workers, work'[v] # NoJob
      PROVE  Allowed(work[v].kind, work[v].doc, work[v].value)'
             /\ PageHeld(work[v].doc, work[v].page)'
    <2>1. CASE v = w
        <3>1. /\ work'[v].kind = kind /\ work'[v].doc = d /\ work'[v].value = value
              /\ work'[v].page = NoPage
            BY <2>1 DEF Start
        <3> QED
            BY <3>1 DEF Allowed, Held, PageHeld, NoPage
    <2>2. CASE v # w
        <3>1. work'[v] = work[v] \/ work'[v] = [work[v] EXCEPT !.raced = TRUE]
            BY <2>2 DEF Start
        <3>2. work[v] # NoJob
            BY <1>4, <2>2 DEF Start, Busy
        <3>3. work[v] \in Job(work[v].kind) /\ work[v].doc \in Docs
            BY <3>2, KindOfJob DEF TypeOK, Working
        <3>4. /\ work'[v].kind = work[v].kind /\ work'[v].doc = work[v].doc
              /\ work'[v].value = work[v].value /\ work'[v].page = work[v].page
            BY <3>1, <3>3 DEF Job
        <3>5. PICK k2, d2, v2, p2 : /\ k2 = work[v].kind /\ d2 = work[v].doc
                                    /\ v2 = work[v].value /\ p2 = work[v].page
            OBVIOUS
        <3>6. Allowed(k2, d2, v2)'
            BY <3>2, <3>5, AllowedGrows DEF ReachInv
        <3>7. PageHeld(d2, p2)'
            BY <3>2, <3>3, <3>5, PageGrows DEF ReachInv
        <3> QED
            BY <3>4, <3>5, <3>6, <3>7 DEF Allowed, Held, PageHeld
    <2> QED
        BY <2>1, <2>2
<1> QED
    BY <1>2, <1>3, <1>4 DEF ReachInv

LEMMA IngestReach ==
    ASSUME TypeOK, TypeOK', ReachInv, NEW w \in Processes, NEW d \in Docs, NEW n \in 0..MaxChunks,
           NEW groups \in Acls, NEW status \in Status, Ingest(w, d, n, groups, status)
    PROVE  ReachInv'
<1> DEFINE g == gen[d] + 1
           payload == [gen |-> g, groups |-> groups, status |-> status, meta |-> status]
<1>1. g \in 0..MaxGen /\ g \in Nat /\ gen' = [gen EXCEPT ![d] = g] /\ gen'[d] = g /\ gen[d] \in Nat
    BY BoundAssumption DEF Ingest, TypeOK
<1> HIDE DEF payload
<1>0. PICK c : c = payload
    OBVIOUS
<1>2. c \in Payload /\ c \in Value("ingest") /\ w \in Workers /\ "ingest" \in Kinds
      /\ c.gen = g
    BY <1>0, <1>1 DEF payload, Payload, Value, Workers, Kinds
<1>3. /\ Version(d, g, c) /\ Lexical(d, c) /\ Start(w, "ingest", d, c, "active")
      /\ points' = points
    BY <1>0 DEF Ingest, payload
<1>4. /\ \A e \in Docs : open[e] \subseteq open'[e]
      /\ \A e \in Docs : \A h \in 0..MaxGen : granted[e][h] \subseteq granted'[e][h]
      /\ c.status = "active" => g \in open'[d]
      /\ c.groups \in granted'[d][g]
      /\ \A v \in Busy(d) : /\ work[v].kind = "status" /\ work[v].value = "active"
                                 => g \in open'[d]
                            /\ work[v].kind \in {"acl", "tool"}
                                 => work[v].value \in granted'[d][g]
    BY <1>1, <1>2, <1>3, VersionType
<1>5. Grow
    <2>1. \A e \in Docs : gen[e] <= gen'[e] /\ gen[e] \in Nat
        <3>1. \A e \in Docs : gen[e] \in Nat /\ gen'[e] = (IF e = d THEN gen[d] + 1 ELSE gen[e])
            BY <1>1 DEF TypeOK
        <3> QED
            BY <3>1
    <2>2. ASSUME NEW v \in Workers, work[v] # NoJob, NEW h \in 0..gen'[work[v].doc],
                 h \notin 0..gen[work[v].doc]
          PROVE  v \in Busy(d) /\ h = g /\ work[v].doc = d
        <3>1. work[v].doc \in Docs
            BY <2>2, KindOfJob DEF TypeOK, Working
        <3>2. work[v].doc = d
            BY <1>1, <2>2, <3>1 DEF TypeOK
        <3>3. v \in Busy(d)
            BY <2>2, <3>2 DEF Busy
        <3>4. h \in 0..g /\ h \notin 0..gen[d] /\ gen[d] \in Nat
            BY <1>1, <2>2, <3>2
        <3>5. \A a \in Nat : 0..(a + 1) = (0..a) \cup {a + 1}
            OBVIOUS
        <3> QED
            BY <3>2, <3>3, <3>4, <3>5
    <2> HIDE DEF g
    <2> QED
        BY <1>4, <2>1, <2>2 DEF Grow
<1>6. Held(d, c)'
    BY <1>1, <1>2, <1>4 DEF Held
<1>7. Allowed("ingest", d, c)'
    BY <1>6 DEF Allowed
<1>8. \A e \in Docs : rows'[e] = rows[e] \/ (e = d /\ rows'[e] = c)
    BY <1>2, <1>3, LexicalType
<1> QED
    BY <1>2, <1>3, <1>5, <1>6, <1>7, <1>8, StartReach

LEMMA SeedReach ==
    ASSUME TypeOK, TypeOK', ReachInv, NEW p \in Processes, NEW d \in Docs, SeedSample(p, d)
    PROVE  ReachInv'
<1> DEFINE payload == [gen |-> 0, groups |-> SampleAcl, status |-> "active", meta |-> "active"]
<1>1. payload \in Payload /\ payload \in Value("ingest") /\ p \in Workers /\ "ingest" \in Kinds
      /\ 0 \in 0..MaxGen /\ payload.gen = 0
    BY SampleAssumption, BoundAssumption DEF Payload, Value, Workers, Kinds, Status
<1>2. /\ Version(d, 0, payload) /\ Lexical(d, payload) /\ Start(p, "ingest", d, payload, "active")
      /\ points' = points /\ gen' = gen
    BY DEF SeedSample
<1> HIDE DEF payload
<1>3. /\ \A e \in Docs : open[e] \subseteq open'[e]
      /\ \A e \in Docs : \A h \in 0..MaxGen : granted[e][h] \subseteq granted'[e][h]
      /\ payload.status = "active" => 0 \in open'[d]
      /\ payload.groups \in granted'[d][0]
    BY <1>1, <1>2, VersionType
<1>4. Grow
    <2>1. \A e \in Docs : gen[e] <= gen'[e]
        BY <1>2 DEF TypeOK
    <2> QED
        BY <1>2, <1>3, <2>1 DEF Grow
<1>5. Held(d, payload)'
    <2>1. gen'[d] \in Nat
        BY DEF TypeOK
    <2> QED
        BY <1>1, <1>3, <2>1 DEF Held
<1>6. Allowed("ingest", d, payload)'
    BY <1>5 DEF Allowed
<1>7. \A e \in Docs : rows'[e] = rows[e] \/ (e = d /\ rows'[e] = payload)
    BY <1>1, <1>2, LexicalType
<1> QED
    BY <1>1, <1>2, <1>4, <1>5, <1>6, <1>7, StartReach

LEMMA StatusReach ==
    ASSUME TypeOK, TypeOK', ReachInv, NEW w \in Processes, NEW d \in Docs, NEW status \in Status,
           SetStatus(w, d, status)
    PROVE  ReachInv'
<1> DEFINE row == IF rows[d] = NoRow THEN NoRow
                  ELSE [rows[d] EXCEPT !.status = status, !.meta = status]
<1>1. row \in Payload \cup {NoRow} /\ status \in Value("status") /\ w \in Workers
      /\ "status" \in Kinds
    BY RowType DEF Value, Workers, Kinds
<1>2. /\ Lexical(d, row) /\ Start(w, "status", d, status, "active")
      /\ open' = [open EXCEPT ![d] = IF status = "active" THEN @ \cup 0..gen[d] ELSE @]
      /\ points' = points /\ gen' = gen /\ granted' = granted
    BY DEF SetStatus
<1> HIDE DEF row
<1>0. PICK c : c = row
    OBVIOUS
<1>3. Grow
    <2>1. \A e \in Docs : gen[e] <= gen'[e] /\ open[e] \subseteq open'[e]
        BY <1>2 DEF TypeOK
    <2> QED
        BY <1>2, <2>1 DEF Grow
<1>4. Allowed("status", d, status)'
    BY <1>2 DEF Allowed, TypeOK
<1>5. c # NoRow => Held(d, c)'
    <2> SUFFICES ASSUME c # NoRow PROVE Held(d, c)'
        OBVIOUS
    <2>1. rows[d] # NoRow /\ rows[d] \in Payload /\ Held(d, rows[d])
        BY <1>0, RowType DEF row, ReachInv
    <2>2. c.gen = rows[d].gen /\ c.groups = rows[d].groups /\ c.status = status
        BY <1>0, <2>1 DEF row, Payload
    <2>3. /\ c.gen \in 0..gen'[d] /\ c.groups \in granted'[d][c.gen]
          /\ c.status = "active" => c.gen \in open'[d]
        BY <1>2, <2>1, <2>2 DEF Held, TypeOK
    <2> QED
        BY <2>3 DEF Held
<1>6. \A e \in Docs : rows'[e] = rows[e] \/ (e = d /\ rows'[e] = c)
    BY <1>0, <1>1, <1>2, LexicalType
<1> QED
    BY <1>1, <1>2, <1>3, <1>4, <1>5, <1>6, StartReach

LEMMA GrantGrows ==
    ASSUME TypeOK, NEW d \in Docs, NEW groups \in Acls, Grant(d, groups), gen' = gen, open' = open
    PROVE  Grow /\ \A g \in 0..gen'[d] : groups \in granted'[d][g]
<1>1. \A e \in Docs : gen[e] <= gen'[e]
    BY DEF TypeOK
<1> QED
    BY <1>1, GrantType DEF Grow

LEMMA AclReach ==
    ASSUME TypeOK, TypeOK', ReachInv, NEW w \in Processes, NEW d \in Docs, NEW groups \in Acls,
           UpdateAcl(w, d, groups)
    PROVE  ReachInv'
<1> DEFINE row == IF rows[d] = NoRow THEN NoRow ELSE [rows[d] EXCEPT !.groups = groups]
<1>1. row \in Payload \cup {NoRow} /\ groups \in Value("acl") /\ w \in Workers /\ "acl" \in Kinds
    BY RowType DEF Value, Workers, Kinds
<1>2. /\ Lexical(d, row) /\ Start(w, "acl", d, groups, "active") /\ Grant(d, groups)
      /\ points' = points /\ gen' = gen /\ open' = open
    BY DEF UpdateAcl
<1> HIDE DEF row
<1>3. PICK c : c = row
    OBVIOUS
<1>4. Grow /\ \A g \in 0..gen'[d] : groups \in granted'[d][g]
    BY <1>2, GrantGrows
<1>5. Allowed("acl", d, groups)'
    BY <1>4 DEF Allowed
<1>6. c # NoRow => Held(d, c)'
    <2> SUFFICES ASSUME c # NoRow PROVE Held(d, c)'
        OBVIOUS
    <2>1. rows[d] # NoRow /\ rows[d] \in Payload /\ Held(d, rows[d])
        BY <1>3, RowType DEF row, ReachInv
    <2>2. c.gen = rows[d].gen /\ c.groups = groups /\ c.status = rows[d].status
        BY <1>3, <2>1 DEF row, Payload
    <2> QED
        BY <1>2, <1>4, <2>1, <2>2 DEF Held
<1>7. \A e \in Docs : rows'[e] = rows[e] \/ (e = d /\ rows'[e] = c)
    BY <1>1, <1>2, <1>3, LexicalType
<1> QED
    BY <1>1, <1>2, <1>4, <1>5, <1>6, <1>7, StartReach

LEMMA ToolReach ==
    ASSUME TypeOK, TypeOK', ReachInv, NEW t \in Tools, NEW d \in Docs, NEW groups \in Acls,
           Backfill(t, d, groups)
    PROVE  ReachInv'
<1>1. groups \in Value("tool") /\ t \in Workers /\ "tool" \in Kinds
    BY DEF Value, Workers, Kinds
<1>2. /\ \E meta : Start(t, "tool", d, groups, meta)
      /\ Grant(d, groups)
      /\ rows' = rows /\ points' = points /\ gen' = gen /\ open' = open
    BY DEF Backfill
<1>3. Grow /\ \A g \in 0..gen'[d] : groups \in granted'[d][g]
    BY <1>2, GrantGrows
<1>4. Allowed("tool", d, groups)'
    BY <1>3 DEF Allowed
<1> QED
    BY <1>1, <1>2, <1>3, <1>4, StartReach

LEMMA DeleteReach ==
    ASSUME TypeOK, TypeOK', ReachInv, NEW w \in Processes, NEW d \in Docs, DeleteDocument(w, d)
    PROVE  ReachInv'
<1>1. Absent \in Value("delete") /\ w \in Workers /\ "delete" \in Kinds
    BY DEF Value, Workers, Kinds
<1>2. /\ Lexical(d, NoRow) /\ Start(w, "delete", d, Absent, "active")
      /\ points' = points /\ gen' = gen /\ open' = open /\ granted' = granted
    BY DEF DeleteDocument, versions
<1>3. Grow
    <2>1. \A e \in Docs : gen[e] <= gen'[e]
        BY <1>2 DEF TypeOK
    <2> QED
        BY <1>2, <2>1 DEF Grow
<1>4. Allowed("delete", d, Absent)'
    BY DEF Allowed
<1>5. \A e \in Docs : rows'[e] = rows[e] \/ (e = d /\ rows'[e] = NoRow)
    BY <1>2, LexicalType
<1> QED
    BY <1>1, <1>2, <1>3, <1>4, <1>5, StartReach

\* A request keeps the invariant if what it stores, and what it reads, is held.
LEMMA RequestReach ==
    ASSUME TypeOK, ReachInv, NEW w \in Workers, work[w] # NoJob, UNCHANGED <<rows, versions>>,
           \A v \in Workers \ {w} : work'[v] = work[v],
           \/ work'[w] = NoJob
           \/ /\ work'[w].kind = work[w].kind /\ work'[w].doc = work[w].doc
              /\ work'[w].value = work[w].value /\ PageHeld(work[w].doc, work'[w].page),
           \A k \in Points : points'[k] = NoPoint \/ Held(k[1], points'[k])
    PROVE  ReachInv'
<1>1. UNCHANGED <<rows, gen, open, granted>>
    BY DEF versions
<1>2. \A d, c : Held(d, c)' <=> Held(d, c)
    BY <1>1 DEF Held
<1>3. \A kind, d, value : Allowed(kind, d, value)' <=> Allowed(kind, d, value)
    BY <1>1, <1>2 DEF Allowed
<1>4. \A d, page : PageHeld(d, page)' <=> PageHeld(d, page)
    BY <1>2 DEF PageHeld
<1>5. ASSUME NEW v \in Workers, work'[v] # NoJob
      PROVE  Allowed(work[v].kind, work[v].doc, work[v].value)'
             /\ PageHeld(work[v].doc, work[v].page)'
    <2>1. PICK k2, d2, v2, p2 : /\ k2 = work'[v].kind /\ d2 = work'[v].doc
                                /\ v2 = work'[v].value /\ p2 = work'[v].page
        OBVIOUS
    <2>2. Allowed(k2, d2, v2) /\ PageHeld(d2, p2)
        BY <1>5, <2>1 DEF ReachInv
    <2>3. Allowed(k2, d2, v2)' /\ PageHeld(d2, p2)'
        BY <1>3, <1>4, <2>2
    <2> QED
        BY <2>1, <2>3 DEF Allowed, Held, PageHeld
<1>6. ASSUME NEW d \in Docs, rows'[d] # NoRow PROVE Held(d, rows[d])'
    BY <1>1, <1>6 DEF ReachInv, Held
<1>7. ASSUME NEW k \in Points, points'[k] # NoPoint PROVE Held(k[1], points[k])'
    BY <1>1, <1>7 DEF Held
<1> QED
    BY <1>5, <1>6, <1>7 DEF ReachInv

\* Where the worker is after a request.
LEMMA CompleteWork ==
    ASSUME TypeOK, NEW w \in Workers, Complete(w)
    PROVE  work'[w] = NoJob /\ \A v \in Workers \ {w} : work'[v] = work[v]
BY DEF Complete, Raise, TypeOK

LEMMA ProceedWork ==
    ASSUME TypeOK, NEW w \in Workers, NEW job, Proceed(w, job)
    PROVE  work'[w] \in {NoJob, job} /\ \A v \in Workers \ {w} : work'[v] = work[v]
BY DEF Proceed, Raise, TypeOK

LEMMA RewrittenHeld ==
    ASSUME TypeOK, ReachInv, NEW w \in Workers, work[w] # NoJob, work[w].kind # "ingest",
           NEW k \in Read(work[w])
    PROVE  Rewritten(work[w], k) = NoPoint \/ Held(k[1], Rewritten(work[w], k))
<1>1. PICK job : job = work[w]
    OBVIOUS
<1>2. job.kind \in Kinds /\ job.page \in Page /\ job.doc \in Docs
    BY <1>1, KindOfJob DEF TypeOK, Working
<1>3. Allowed(job.kind, job.doc, job.value) /\ PageHeld(job.doc, job.page)
    BY <1>1 DEF ReachInv
<1>4. k \in Points /\ k[1] = job.doc /\ job.page[k] \in Payload /\ Held(job.doc, job.page[k])
    BY <1>1, <1>2, <1>3 DEF Read, Page, PageHeld
<1>5. CASE job.kind = "status"
    <2>1. Rewritten(job, k) = WithStatus(job.page[k], job.value)
        BY <1>5 DEF Rewritten
    <2>2. /\ Rewritten(job, k).gen = job.page[k].gen
          /\ Rewritten(job, k).groups = job.page[k].groups
          /\ Rewritten(job, k).status = job.value
        BY <1>4, <2>1 DEF WithStatus, Payload
    <2> QED
        BY <1>1, <1>3, <1>4, <1>5, <2>2 DEF Allowed, Held
<1>6. CASE job.kind = "acl"
    <2>1. Rewritten(job, k) = WithGroups(job.page[k], job.value)
        BY <1>6 DEF Rewritten
    <2>2. /\ Rewritten(job, k).gen = job.page[k].gen
          /\ Rewritten(job, k).groups = job.value
          /\ Rewritten(job, k).status = job.page[k].status
        BY <1>4, <2>1 DEF WithGroups, Payload
    <2> QED
        BY <1>1, <1>3, <1>4, <1>6, <2>2 DEF Allowed, Held
<1>7. CASE job.kind = "tool"
    <2>1. Rewritten(job, k) = Patched(job, k)
        BY <1>7 DEF Rewritten
    <2>2. CASE points[k] = NoPoint
        BY <1>1, <2>1, <2>2 DEF Patched
    <2>3. CASE points[k] # NoPoint
        <3>1. points[k] \in Payload /\ Held(job.doc, points[k])
            BY <1>4, <2>3 DEF TypeOK, Page, ReachInv
        <3>2. /\ Rewritten(job, k).gen = points[k].gen
              /\ Rewritten(job, k).groups = job.value
              /\ Rewritten(job, k).status = points[k].status
            BY <2>1, <2>3, <3>1 DEF Patched, Payload
        <3> QED
            BY <1>1, <1>3, <1>4, <1>7, <3>1, <3>2 DEF Allowed, Held
    <2> QED
        BY <2>2, <2>3
<1>8. CASE job.kind = "delete"
    BY <1>1, <1>8 DEF Rewritten
<1> QED
    BY <1>1, <1>2, <1>5, <1>6, <1>7, <1>8 DEF Kinds

LEMMA ClearReach == ASSUME TypeOK, ReachInv, NEW w \in Workers, Clear(w) PROVE ReachInv'
<1>1. work[w] # NoJob /\ work[w] \in Job(work[w].kind) /\ UNCHANGED <<rows, versions>>
    BY KindOfJob DEF Clear, At, TypeOK, Working
<1> DEFINE job == [work[w] EXCEPT !.step = "upsert"]
<1>2. /\ job.kind = work[w].kind /\ job.doc = work[w].doc
      /\ job.value = work[w].value /\ job.page = work[w].page
    BY <1>1 DEF Job
<1>3. Complete(w) \/ Proceed(w, job)
    BY DEF Clear
<1> HIDE DEF job
<1>4. /\ work'[w] = NoJob \/ work'[w] = job
      /\ \A v \in Workers \ {w} : work'[v] = work[v]
    BY <1>3, CompleteWork, ProceedWork
<1>5. PageHeld(work[w].doc, work[w].page)
    BY <1>1 DEF ReachInv
<1>6. \A k \in Points : points'[k] = NoPoint \/ Held(k[1], points'[k])
    BY DEF Clear, ReachInv
<1> QED
    BY <1>1, <1>2, <1>4, <1>5, <1>6, RequestReach

LEMMA UpsertReach == ASSUME TypeOK, ReachInv, NEW w \in Workers, Upsert(w) PROVE ReachInv'
<1>1. work[w] # NoJob /\ work[w].kind = "ingest" /\ UNCHANGED <<rows, versions>>
    BY KindIsKnown DEF Upsert, At, TypeOK, Working
<1>2. /\ work'[w] = NoJob
      /\ \A v \in Workers \ {w} : work'[v] = work[v]
    BY CompleteWork DEF Upsert
<1>3. Held(work[w].doc, work[w].value)
    BY <1>1 DEF ReachInv, Allowed
<1>4. \A k \in Points : points'[k] = NoPoint \/ Held(k[1], points'[k])
    BY <1>3 DEF Upsert, ReachInv, Chunks
<1> QED
    BY <1>1, <1>2, <1>4, RequestReach

LEMMA ScrollReach == ASSUME TypeOK, ReachInv, NEW w \in Workers, Scroll(w) PROVE ReachInv'
<1>1. work[w] # NoJob /\ work[w] \in Job(work[w].kind) /\ UNCHANGED <<rows, points, versions>>
    BY KindOfJob DEF Scroll, At, TypeOK, Working, data
<1> DEFINE S == From(work[w].doc, work[w].from)
           page == [k \in Points |-> IF k \in First(S) THEN points[k] ELSE NoPoint]
           job == [work[w] EXCEPT !.step = "write", !.page = page, !.next = Offset(S \ First(S))]
<1>2. /\ job.kind = work[w].kind /\ job.doc = work[w].doc
      /\ job.value = work[w].value /\ job.page = page
    BY <1>1 DEF Job
<1>3. Complete(w) \/ Proceed(w, job)
    BY DEF Scroll
<1>4. PageHeld(work[w].doc, page)
    BY DEF PageHeld, ReachInv, First, From, Keys
<1> HIDE DEF job, page, S
<1>5. /\ work'[w] = NoJob \/ work'[w] = job
      /\ \A v \in Workers \ {w} : work'[v] = work[v]
    BY <1>3, CompleteWork, ProceedWork
<1>6. \A k \in Points : points'[k] = NoPoint \/ Held(k[1], points'[k])
    BY <1>1 DEF ReachInv
<1> QED
    BY <1>1, <1>2, <1>4, <1>5, <1>6, RequestReach

LEMMA WriteReach == ASSUME TypeOK, ReachInv, NEW w \in Workers, WritePage(w) PROVE ReachInv'
<1>1. work[w] # NoJob /\ work[w] \in Job(work[w].kind) /\ work[w].kind # "ingest"
      /\ UNCHANGED <<rows, versions>>
    BY KindIsKnown, KindOfJob DEF WritePage, At, TypeOK, Working
<1> DEFINE job == [work[w] EXCEPT !.step = "scroll", !.from = work[w].next,
                                  !.page = NoPage, !.next = NoOffset]
<1>2. /\ job.kind = work[w].kind /\ job.doc = work[w].doc
      /\ job.value = work[w].value /\ job.page = NoPage
    BY <1>1 DEF Job
<1>3. Complete(w) \/ Proceed(w, job)
    BY DEF WritePage
<1>4. PageHeld(work[w].doc, NoPage)
    BY DEF PageHeld, NoPage
<1> HIDE DEF job
<1>5. /\ work'[w] = NoJob \/ work'[w] = job
      /\ \A v \in Workers \ {w} : work'[v] = work[v]
    BY <1>3, CompleteWork, ProceedWork
<1>6. \A k \in Points : points'[k] = NoPoint \/ Held(k[1], points'[k])
    <2>1. points' = [k \in Points |-> IF k \in Read(work[w]) THEN Rewritten(work[w], k)
                                       ELSE points[k]]
        BY DEF WritePage
    <2>2. \A k \in Read(work[w]) :
            Rewritten(work[w], k) = NoPoint \/ Held(k[1], Rewritten(work[w], k))
        BY <1>1, RewrittenHeld
    <2> QED
        BY <2>1, <2>2 DEF ReachInv
<1> QED
    BY <1>1, <1>2, <1>4, <1>5, <1>6, RequestReach

\* A worker that stops leaves what is stored as it is.
LEMMA StopReach ==
    ASSUME TypeOK, ReachInv, NEW w \in Workers, work' = [work EXCEPT ![w] = NoJob],
           UNCHANGED <<data, versions>>
    PROVE  ReachInv'
<1>1. CASE work[w] # NoJob
    <2>1. /\ UNCHANGED <<rows, points, versions>> /\ work'[w] = NoJob
          /\ \A v \in Workers \ {w} : work'[v] = work[v]
        BY DEF data, TypeOK
    <2>2. \A k \in Points : points'[k] = NoPoint \/ Held(k[1], points'[k])
        BY <2>1 DEF ReachInv
    <2> QED
        BY <1>1, <2>1, <2>2, RequestReach
<1>2. CASE work[w] = NoJob
    <2>1. \A v \in Workers : work'[v] = work[v]
        BY <1>2 DEF TypeOK
    <2>2. /\ rows' = rows /\ points' = points /\ versions' = versions
        BY DEF data
    <2>3. /\ \A d : \A x : Held(d, x) => Held(d, x)'
          /\ \A d : \A x : PageHeld(d, x) => PageHeld(d, x)'
          /\ \A k : \A d : \A x : Allowed(k, d, x) => Allowed(k, d, x)'
        BY <2>2 DEF versions, Held, PageHeld, Allowed
    <2> QED
        BY <2>1, <2>2, <2>3 DEF ReachInv
<1> QED
    BY <1>1, <1>2

LEMMA ReachStep == TypeOK /\ TypeOK' /\ ReachInv /\ [Next]_vars => ReachInv'
<1> SUFFICES ASSUME TypeOK, TypeOK', ReachInv, [Next]_vars PROVE ReachInv'
    OBVIOUS
<1>1. ASSUME NEW w \in Workers, Request(w) PROVE ReachInv'
    BY <1>1, ClearReach, UpsertReach, ScrollReach, WriteReach DEF Request
<1>2. ASSUME NEW w \in Workers, Lose(w) PROVE ReachInv'
    BY <1>2, StopReach DEF Lose, Raise
<1>3. ASSUME NEW p \in Processes, Restart(p) PROVE ReachInv'
    BY <1>3, StopReach DEF Restart, Workers
<1>4. CASE Begin
    BY <1>4, IngestReach, SeedReach, StatusReach, AclReach, DeleteReach, ToolReach DEF Begin
<1>6. ASSUME NEW t \in Tools, Tool(t) PROVE ReachInv'
    <2>1. UNCHANGED <<data, versions, work>>
        BY <1>6 DEF Tool, PlanBackfill, ListBackfill, SkipUnchanged
    <2> QED
        BY <2>1 DEF data, versions, ReachInv, Held, Allowed, PageHeld
<1>5. CASE UNCHANGED vars
    BY <1>5 DEF vars, data, versions, ReachInv, Held, Allowed, PageHeld
<1> QED
    BY <1>1, <1>2, <1>3, <1>4, <1>5, <1>6 DEF Next

\* SQLite searches by the metadata; of a row, that says what the status says.
RowsAgree == \A d \in Docs : rows[d] # NoRow => rows[d].meta = rows[d].status

LEMMA LexicalAgrees ==
    ASSUME TypeOK, RowsAgree, NEW d \in Docs, NEW row, Lexical(d, row),
           row # NoRow => row.meta = row.status
    PROVE  RowsAgree'
BY DEF RowsAgree, Lexical, TypeOK

LEMMA RowsStep == TypeOK /\ RowsAgree /\ [Next]_vars => RowsAgree'
<1> SUFFICES ASSUME TypeOK, RowsAgree, [Next]_vars PROVE RowsAgree'
    OBVIOUS
<1>1. ASSUME rows' = rows PROVE RowsAgree'
    BY <1>1 DEF RowsAgree
<1>2. ASSUME NEW w \in Processes, NEW d \in Docs, NEW n \in 0..MaxChunks, NEW groups \in Acls,
             NEW status \in Status, Ingest(w, d, n, groups, status)
      PROVE  RowsAgree'
    BY <1>2, LexicalAgrees DEF Ingest
<1>3. ASSUME NEW p \in Processes, NEW d \in Docs, SeedSample(p, d) PROVE RowsAgree'
    BY <1>3, LexicalAgrees DEF SeedSample
<1>4. ASSUME NEW w \in Processes, NEW d \in Docs, NEW status \in Status, SetStatus(w, d, status)
      PROVE  RowsAgree'
    <2> DEFINE row == IF rows[d] = NoRow THEN NoRow
                      ELSE [rows[d] EXCEPT !.status = status, !.meta = status]
    <2>1. row # NoRow => row.meta = row.status
        BY RowType DEF Payload
    <2> QED
        BY <1>4, <2>1, LexicalAgrees DEF SetStatus
<1>5. ASSUME NEW w \in Processes, NEW d \in Docs, NEW groups \in Acls, UpdateAcl(w, d, groups)
      PROVE  RowsAgree'
    <2> DEFINE row == IF rows[d] = NoRow THEN NoRow ELSE [rows[d] EXCEPT !.groups = groups]
    <2>1. row # NoRow => row.meta = row.status
        BY RowType DEF Payload, RowsAgree
    <2> QED
        BY <1>5, <2>1, LexicalAgrees DEF UpdateAcl
<1>6. ASSUME NEW w \in Processes, NEW d \in Docs, DeleteDocument(w, d) PROVE RowsAgree'
    BY <1>6, LexicalAgrees DEF DeleteDocument
<1>7. CASE Begin
    BY <1>1, <1>2, <1>3, <1>4, <1>5, <1>6, <1>7 DEF Begin, Backfill
<1>8. ASSUME NEW t \in Tools, Tool(t) PROVE rows' = rows
    BY <1>8 DEF Tool, PlanBackfill, ListBackfill, SkipUnchanged, data
<1>9. ASSUME NEW w \in Workers, Request(w) \/ Lose(w) PROVE rows' = rows
    BY <1>9 DEF Request, Clear, Upsert, Scroll, WritePage, Lose, data
<1>10. ASSUME NEW p \in Processes, Restart(p) PROVE rows' = rows
    BY <1>10 DEF Restart, data
<1>11. CASE UNCHANGED vars
    BY <1>1, <1>11 DEF vars, data
<1> QED
    BY <1>1, <1>7, <1>8, <1>9, <1>10, <1>11 DEF Next

LEMMA ReachImplies == TypeOK /\ RowsAgree /\ ReachInv => ReachIsGranted
<1> SUFFICES ASSUME TypeOK, RowsAgree, ReachInv, NEW u \in Users, NEW k \in Found(u)
             PROVE  /\ Hit(u, k).gen \in open[k[1]]
                    /\ granted[k[1]][Hit(u, k).gen] \cap u # {}
    BY DEF ReachIsGranted
<1>1. k \in Points /\ k[1] \in Docs
    BY DEF Found, LexicalHits, VectorHits, Points
<1>2. ASSUME k \in LexicalHits(u)
      PROVE  Held(k[1], Hit(u, k)) /\ Hit(u, k).groups \in u /\ Hit(u, k).status = "active"
    <2>1. rows[k[1]] # NoRow /\ rows[k[1]] \in Payload /\ Hit(u, k) = rows[k[1]]
        BY <1>1, <1>2 DEF LexicalHits, Hit, TypeOK
    <2>2. rows[k[1]].meta # "quarantined" /\ rows[k[1]].groups \in u
        BY <1>2 DEF LexicalHits
    <2>3. rows[k[1]].status = rows[k[1]].meta
        BY <1>1, <2>1 DEF RowsAgree
    <2> QED
        BY <1>1, <2>1, <2>2, <2>3 DEF ReachInv, Payload, Status
<1>3. ASSUME k \notin LexicalHits(u)
      PROVE  Held(k[1], Hit(u, k)) /\ Hit(u, k).groups \in u /\ Hit(u, k).status = "active"
    <2>1. points[k] # NoPoint /\ points[k] \in Payload /\ Hit(u, k) = points[k]
        BY <1>1, <1>3 DEF Found, VectorHits, Hit, TypeOK, Page
    <2>2. points[k].status # "quarantined" /\ points[k].groups \in u
        BY <1>3 DEF Found, VectorHits, Passes
    <2> QED
        BY <1>1, <2>1, <2>2 DEF ReachInv, Payload, Status
<1> QED
    BY <1>2, <1>3 DEF Held

\* Whatever writers do at the same time, fail at or leave half-done, a search finds no
\* version that was not released and none under an ACL nobody gave it.
THEOREM ReachGranted == Spec => []ReachIsGranted
<1>1. Init => ReachInv /\ RowsAgree
    BY DEF Init, ReachInv, RowsAgree
<1> QED
    BY <1>1, TypeInit, TypeStep, ReachStep, RowsStep, ReachImplies, PTL DEF Spec
-----------------------------------------------------------------------------
(* Promises.  While a write goes on, its document is promised only what the *)
(* write leaves alone; the one writer of a document knows which of its      *)
(* points it has been through, and others promise nothing.                  *)

\* What a write leaves in each copy it has been through.
Written(job, copy) ==
    CASE job.kind = "ingest" -> copy = job.value
      [] job.kind = "status" -> copy.status = job.value /\ copy.meta = job.value
      [] job.kind \in {"acl", "tool"} -> copy.groups = job.value
      [] job.kind = "delete" -> FALSE

\* What a write has yet to come to: the page in its hands and what is behind it.
Ahead(job, k) ==
    IF job.step = "scroll" THEN Order[k] >= job.from
    ELSE k \in Read(job) \/ (job.next # NoOffset /\ Order[k] >= job.next)

TakenBack(job, promise) ==
    /\ job.raced \/ job.kind \in {"ingest", "delete"} => promise = Nothing
    /\ job.kind = "status" => promise.status = Unknown
    /\ job.kind \in {"acl", "tool"} => promise.groups = Unknown
    /\ job.kind = "tool" /\ promise.status # Unknown => job.meta \in {"active", promise.status}

Undisturbed(job) ==
    /\ job.kind # "tool" /\ rows[job.doc] # NoRow => Written(job, rows[job.doc])
    /\ job.kind = "ingest" /\ Hybrid => rows[job.doc] # NoRow
    /\ job.step = "upsert" => Keys(job.doc) = {}
    /\ job.kind # "ingest" =>
         /\ \A k \in Read(job) : job.page[k] = points[k]
         /\ \A k \in Keys(job.doc) : Ahead(job, k) \/ Written(job, points[k])

JobInv(w, job) ==
    /\ \A k \in Read(job) : k[1] = job.doc
    /\ job.kind = "ingest" => job.value.meta = job.value.status
    /\ TakenBack(job, want[job.doc])
    /\ ~job.raced => Undisturbed(job)
    /\ \A v \in Busy(job.doc) \ {w} : job.raced

\* StoresAgree, of any promise.
Agrees(d, promise) ==
    /\ promise.gen = Absent => Copies(d) = {}
    /\ promise.gen \in Nat =>
         /\ Keys(d) = Chunks(d, size[d][promise.gen])
         /\ \A c \in Copies(d) : c.gen = promise.gen
         /\ Hybrid => rows[d] # NoRow
    /\ promise.groups # Unknown => \A c \in Copies(d) : c.groups = promise.groups
    /\ promise.status # Unknown =>
         \A c \in Copies(d) : c.status = promise.status /\ c.meta = promise.status

KeptInv ==
    /\ ~Hybrid => \A d \in Docs : rows[d] = NoRow
    /\ \A w \in Workers : \A job \in {work[w]} \ {NoJob} : JobInv(w, job)
    /\ \A d \in Docs : StoresAgree(d)

LEMMA NothingIsUnknown ==
    /\ Nothing.gen = Unknown /\ Nothing.groups = Unknown /\ Nothing.status = Unknown
    /\ Unknown # Absent /\ Unknown \notin Nat
BY SentinelAssumption DEF Nothing

LEMMA NothingAgrees == ASSUME NEW d PROVE Agrees(d, Nothing)'
BY NothingIsUnknown DEF Agrees

LEMMA StoresAgreeOn ==
    ASSUME NEW d \in Docs, NEW promise
    PROVE  /\ want[d] = promise => (StoresAgree(d) <=> Agrees(d, promise))
           /\ want'[d] = promise => (StoresAgree(d)' <=> Agrees(d, promise)')
BY DEF StoresAgree, Agrees

\* Copies of a document depend on its own row and points.
LEMMA SameCopies ==
    ASSUME NEW d \in Docs, rows'[d] = rows[d], size'[d] = size[d],
           \A k \in Points : k[1] = d => points'[k] = points[k]
    PROVE  /\ Keys(d)' = Keys(d) /\ Copies(d)' = Copies(d)
           /\ \A promise : Agrees(d, promise) => Agrees(d, promise)'
<1>1. Keys(d)' = Keys(d)
    BY DEF Keys
<1>2. \A k \in Keys(d) : points'[k] = points[k]
    BY DEF Keys
<1>3. Copies(d)' = Copies(d)
    BY <1>1, <1>2 DEF Copies
<1> QED
    BY <1>1, <1>3 DEF Agrees

\* Writers of the same document promise nothing.
LEMMA RacedJob ==
    ASSUME NEW v \in Workers, NEW job, job.raced, \A k \in Read(job) : k[1] = job.doc,
           job.kind = "ingest" => job.value.meta = job.value.status,
           want'[job.doc] = Nothing
    PROVE  JobInv(v, job)'
BY NothingIsUnknown DEF JobInv, TakenBack

\* Writers of other documents are not concerned.
LEMMA OtherJob ==
    ASSUME NEW v \in Workers, NEW job, job.doc \in Docs, JobInv(v, job),
           want'[job.doc] = want[job.doc], rows'[job.doc] = rows[job.doc],
           \A k \in Points : k[1] = job.doc => points'[k] = points[k],
           Busy(job.doc)' \subseteq Busy(job.doc)
    PROVE  JobInv(v, job)'
<1>1. Keys(job.doc)' = Keys(job.doc)
    BY DEF Keys
<1>2. \A k \in Keys(job.doc) : points'[k] = points[k]
    BY DEF Keys
<1>3. \A k \in Read(job) : points'[k] = points[k]
    BY DEF JobInv, Read
<1>4. Undisturbed(job) => Undisturbed(job)'
    BY <1>1, <1>2, <1>3 DEF Undisturbed
<1> QED
    BY <1>4 DEF JobInv

\* A write begins.
LEMMA StartKept ==
    ASSUME TypeOK, KeptInv, NEW w \in Workers, NEW kind \in Kinds, NEW d \in Docs,
           NEW value, NEW meta, Start(w, kind, d, value, meta), points' = points,
           \A e \in Docs : e # d => rows'[e] = rows[e] /\ size'[e] = size[e],
           ~Hybrid => \A e \in Docs : rows'[e] = NoRow,
           kind = "ingest" => value.meta = value.status,
           \A job : job.kind = kind /\ job.value = value /\ kind # "tool" /\ rows'[d] # NoRow
                      => Written(job, rows'[d]),
           kind = "ingest" /\ Hybrid => rows'[d] # NoRow,
           \A promise : Busy(d) = {} /\ promise = Touched(want[d], kind, meta)
                         => Agrees(d, promise)'
    PROVE  KeptInv'
<1> DEFINE new == [kind |-> kind, doc |-> d, value |-> value,
                   step |-> IF kind = "ingest" THEN "clear" ELSE "scroll",
                   from |-> 0, page |-> NoPage, next |-> NoOffset,
                   raced |-> Busy(d) # {}, meta |-> meta]
<1>1. PICK job : job = new
    OBVIOUS
<1>2. /\ job.kind = kind /\ job.doc = d /\ job.value = value /\ job.from = 0
      /\ job.step = (IF kind = "ingest" THEN "clear" ELSE "scroll")
      /\ job.page = NoPage /\ job.raced = (Busy(d) # {}) /\ job.meta = meta
    BY <1>1
<1>3. /\ work[w] = NoJob
      /\ work' = [v \in Workers |-> IF v = w THEN job
                                    ELSE IF v \in Busy(d) THEN [work[v] EXCEPT !.raced = TRUE]
                                    ELSE work[v]]
      /\ want' = [want EXCEPT ![d] = IF Busy(d) = {} THEN Touched(@, kind, meta) ELSE Nothing]
    BY <1>1 DEF Start
<1> HIDE DEF new
<1>4. /\ work'[w] = job
      /\ \A v \in Workers \ {w} : v \notin Busy(d) => work'[v] = work[v]
      /\ \A v \in Workers \ {w} : v \in Busy(d) => work'[v] = [work[v] EXCEPT !.raced = TRUE]
    BY <1>3
<1>5. /\ \A e \in Docs : e # d => want'[e] = want[e]
      /\ Busy(d) = {} => want'[d] = Touched(want[d], kind, meta)
      /\ Busy(d) # {} => want'[d] = Nothing
    BY <1>3 DEF TypeOK
<1>6. \A v \in Busy(d) :
        /\ v \in Workers /\ v # w /\ work[v] # NoJob /\ work[v].doc = d
        /\ work'[v].raced /\ work'[v].doc = d /\ work'[v].kind = work[v].kind
        /\ work'[v].value = work[v].value /\ Read(work'[v]) = Read(work[v])
  <2> SUFFICES ASSUME NEW v \in Busy(d)
               PROVE  /\ v \in Workers /\ v # w /\ work[v] # NoJob /\ work[v].doc = d
                      /\ work'[v].raced /\ work'[v].doc = d /\ work'[v].kind = work[v].kind
                      /\ work'[v].value = work[v].value /\ Read(work'[v]) = Read(work[v])
    OBVIOUS
  <2>1. v \in Workers /\ v # w /\ work[v] # NoJob /\ work[v].doc = d
    BY <1>3 DEF Busy
  <2>2. work[v] \in Job(work[v].kind)
    BY <2>1, KindOfJob DEF TypeOK, Working
  <2>3. PICK old : old = work[v]
    OBVIOUS
  <2>4. old \in Job(old.kind) /\ work'[v] = [old EXCEPT !.raced = TRUE]
    BY <1>4, <2>1, <2>2, <2>3
  <2>5. /\ work'[v].raced /\ work'[v].doc = old.doc /\ work'[v].kind = old.kind
        /\ work'[v].value = old.value /\ work'[v].page = old.page
    BY <2>4 DEF Job
  <2> QED
    BY <2>1, <2>3, <2>5 DEF Read
<1>7. \A e \in Docs : Busy(e)' \subseteq Busy(e) \cup (IF e = d THEN {w} ELSE {})
  <2> SUFFICES ASSUME NEW e \in Docs, NEW v \in Workers, work'[v] # NoJob, work'[v].doc = e,
                      v \notin Busy(e)
               PROVE  e = d /\ v = w
    BY DEF Busy
  <2>1. CASE v = w
    BY <1>2, <1>4, <2>1
  <2>2. CASE v # w /\ v \in Busy(d)
    BY <1>6, <2>2 DEF Busy
  <2>3. CASE v # w /\ v \notin Busy(d)
    BY <1>4, <2>3 DEF Busy
  <2> QED
    BY <2>1, <2>2, <2>3
<1>8. JobInv(w, job)'
  <2>1. Read(job) = {}
    BY <1>2 DEF Read, NoPage
  <2>2. TakenBack(job, want'[d])
    <3>1. CASE Busy(d) # {}
      BY <1>2, <1>5, <3>1, NothingIsUnknown DEF TakenBack
    <3>2. CASE Busy(d) = {}
      <4>1. want[d] \in Wanted /\ want'[d] = Touched(want[d], kind, meta)
        BY <1>5, <3>2 DEF TypeOK
      <4>2. CASE kind = "status"
        BY <1>2, <3>2, <4>1, <4>2 DEF Touched, TakenBack, Wanted
      <4>3. CASE kind = "acl"
        BY <1>2, <3>2, <4>1, <4>3 DEF Touched, TakenBack, Wanted
      <4>4. CASE kind = "tool"
        <5>1. /\ want'[d].groups = Unknown
              /\ want'[d].status = IF meta \in {"active", want[d].status} THEN want[d].status
                                   ELSE Unknown
          BY <4>1, <4>4 DEF Touched, Wanted
        <5> QED
          BY <1>2, <3>2, <4>4, <5>1 DEF TakenBack
      <4>5. CASE kind \in {"ingest", "delete"}
        BY <1>2, <3>2, <4>1, <4>5 DEF Touched, TakenBack
      <4> QED
        BY <4>2, <4>3, <4>4, <4>5 DEF Kinds
    <3> QED
      BY <3>1, <3>2
  <2>3. Undisturbed(job)'
    <3>1. \A k \in Points : Order[k] >= 0
      BY OrderAssumption
    <3>2. Keys(d)' \subseteq Points
      BY DEF Keys
    <3>3. kind # "tool" /\ rows'[d] # NoRow => Written(job, rows'[d])
      BY <1>2
    <3>4. kind # "ingest" => \A k \in Points : Ahead(job, k)
      BY <1>2, <3>1 DEF Ahead
    <3> QED
      BY <1>2, <2>1, <3>2, <3>3, <3>4 DEF Undisturbed
  <2>4. \A v \in Busy(d)' \ {w} : job.raced
    BY <1>2, <1>7
  <2> QED
    BY <1>2, <2>1, <2>2, <2>3, <2>4 DEF JobInv
<1>9. ASSUME NEW v \in Workers, work'[v] # NoJob, v # w 
      PROVE  \A other \in {work'[v]} : JobInv(v, other)'
  <2>1. PICK other : other = work'[v]
    OBVIOUS
  <2>2. CASE v \in Busy(d)
    <3>1. JobInv(v, work[v])
      BY <1>6, <2>2 DEF KeptInv
    <3>2. /\ other.raced /\ \A k \in Read(other) : k[1] = other.doc
          /\ other.kind = "ingest" => other.value.meta = other.value.status
      BY <1>6, <2>1, <2>2, <3>1 DEF JobInv
    <3>3. want'[other.doc] = Nothing
      BY <1>5, <1>6, <2>1, <2>2
    <3>4. JobInv(v, other)'
      BY <3>2, <3>3, RacedJob
    <3> QED
      BY <2>1, <3>4
  <2>3. CASE v \notin Busy(d)
    <3>1. other = work[v] /\ other # NoJob /\ JobInv(v, other)
      BY <1>4, <1>9, <2>1, <2>3 DEF KeptInv
    <3>2. other.doc # d /\ other.doc \in Docs
      BY <2>3, <3>1, KindOfJob DEF Busy, TypeOK, Working
    <3>3. Busy(other.doc)' \subseteq Busy(other.doc)
      BY <1>7, <3>2
    <3>4. JobInv(v, other)'
      BY <1>5, <3>1, <3>2, <3>3, OtherJob
    <3> QED
      BY <2>1, <3>4
  <2> QED
    BY <2>2, <2>3
<1>10. ASSUME NEW e \in Docs PROVE StoresAgree(e)'
  <2>1. CASE e # d
    <3>1. PICK promise : promise = want[e] /\ promise = want'[e]
      BY <1>5, <2>1
    <3>2. Agrees(e, promise)
      BY <3>1, StoresAgreeOn DEF KeptInv
    <3>3. Agrees(e, promise)'
      BY <2>1, <3>2, SameCopies
    <3> QED
      BY <3>1, <3>3, StoresAgreeOn
  <2>2. CASE e = d
    <3>1. PICK promise : promise = want'[d]
      OBVIOUS
    <3>2. CASE Busy(d) = {}
      BY <1>5, <2>2, <3>1, <3>2, StoresAgreeOn
    <3>3. CASE Busy(d) # {}
      BY <1>5, <2>2, <3>3, NothingAgrees, StoresAgreeOn
    <3> QED
      BY <3>2, <3>3
  <2> QED
    BY <2>1, <2>2
<1> QED
  <2>1. \A v \in Workers : \A other \in {work'[v]} \ {NoJob} : JobInv(v, other)'
    BY <1>4, <1>8, <1>9
  <2> QED
    BY <1>10, <2>1 DEF KeptInv

\* The row of a document is written with the first step, in SQLite.
LEMMA LexicalWrites ==
    ASSUME TypeOK, KeptInv, NEW d \in Docs, NEW row, Lexical(d, row)
    PROVE  /\ \A e \in Docs : e # d => rows'[e] = rows[e]
           /\ ~Hybrid => \A e \in Docs : rows'[e] = NoRow
           /\ Hybrid => rows'[d] = row
           /\ rows'[d] = row \/ rows'[d] = NoRow
           /\ rows'[d] = NoRow => row = NoRow \/ ~Hybrid
BY DEF Lexical, TypeOK, KeptInv

LEMMA IngestKept ==
    ASSUME TypeOK, KeptInv, NEW w \in Processes, NEW d \in Docs, NEW n \in 0..MaxChunks,
           NEW groups \in Acls, NEW status \in Status, Ingest(w, d, n, groups, status)
    PROVE  KeptInv'
<1>1. PICK payload : payload = [gen |-> gen[d] + 1, groups |-> groups,
                                status |-> status, meta |-> status]
    OBVIOUS
<1>2. payload \in Payload /\ payload.meta = payload.status /\ payload # NoRow
    BY <1>1, SentinelAssumption DEF Payload, TypeOK
<1>3. /\ Lexical(d, payload) /\ Start(w, "ingest", d, payload, "active") /\ points' = points
      /\ \A e \in Docs : e # d => size'[e] = size[e]
    BY <1>1 DEF Ingest, TypeOK
<1>4. w \in Workers /\ "ingest" \in Kinds
    BY DEF Workers, Kinds
<1>5. \A job : job.kind = "ingest" /\ job.value = payload /\ rows'[d] # NoRow
                 => Written(job, rows'[d])
    BY <1>3, LexicalWrites DEF Written
<1>6. \A promise : promise = Touched(want[d], "ingest", "active") => Agrees(d, promise)'
    BY NothingAgrees DEF Touched
<1> QED
    BY <1>2, <1>3, <1>4, <1>5, <1>6, LexicalWrites, StartKept

LEMMA SeedKept ==
    ASSUME TypeOK, KeptInv, NEW p \in Processes, NEW d \in Docs, SeedSample(p, d)
    PROVE  KeptInv'
<1>1. PICK payload : payload = [gen |-> 0, groups |-> SampleAcl,
                                status |-> "active", meta |-> "active"]
    OBVIOUS
<1>2. payload \in Payload /\ payload.meta = payload.status /\ payload # NoRow
    BY <1>1, SentinelAssumption, SampleAssumption DEF Payload, Status
<1>3. /\ Lexical(d, payload) /\ Start(p, "ingest", d, payload, "active") /\ points' = points
      /\ \A e \in Docs : e # d => size'[e] = size[e]
    BY <1>1 DEF SeedSample
<1>4. p \in Workers /\ "ingest" \in Kinds
    BY DEF Workers, Kinds
<1>5. \A job : job.kind = "ingest" /\ job.value = payload /\ rows'[d] # NoRow
                 => Written(job, rows'[d])
    BY <1>3, LexicalWrites DEF Written
<1>6. \A promise : promise = Touched(want[d], "ingest", "active") => Agrees(d, promise)'
    BY NothingAgrees DEF Touched
<1> QED
    BY <1>2, <1>3, <1>4, <1>5, <1>6, LexicalWrites, StartKept

LEMMA DeleteKept ==
    ASSUME TypeOK, KeptInv, NEW w \in Processes, NEW d \in Docs, DeleteDocument(w, d)
    PROVE  KeptInv'
<1>1. /\ Lexical(d, NoRow) /\ Start(w, "delete", d, Absent, "active") /\ points' = points
      /\ size' = size
    BY DEF DeleteDocument, versions
<1>2. w \in Workers /\ "delete" \in Kinds
    BY DEF Workers, Kinds
<1>3. rows'[d] = NoRow
    BY <1>1, LexicalWrites
<1>4. \A promise : promise = Touched(want[d], "delete", "active") => Agrees(d, promise)'
    BY NothingAgrees DEF Touched
<1> QED
    BY <1>1, <1>2, <1>3, <1>4, LexicalWrites, StartKept

\* A change of the row in one field leaves what was promised of the others.
LEMMA RowChanged ==
    ASSUME TypeOK, NEW d \in Docs, NEW old, NEW new, Agrees(d, old),
           points' = points, size'[d] = size[d],
           rows'[d] = NoRow <=> rows[d] = NoRow,
           rows'[d] # NoRow => rows'[d].gen = rows[d].gen,
           new.gen = old.gen,
           new.groups # Unknown =>
             /\ new.groups = old.groups
             /\ rows'[d] # NoRow => rows'[d].groups = rows[d].groups,
           new.status # Unknown =>
             /\ new.status = old.status
             /\ rows'[d] # NoRow => rows'[d].status = rows[d].status /\ rows'[d].meta = rows[d].meta
    PROVE  Agrees(d, new)'
<1>1. Keys(d)' = Keys(d) /\ \A k \in Keys(d) : points'[k] = points[k]
    BY DEF Keys
<1>2. Copies(d) = {points[k] : k \in Keys(d)} \cup ({rows[d]} \ {NoRow})
    BY DEF Copies
<1>3. Copies(d)' = {points[k] : k \in Keys(d)} \cup ({rows'[d]} \ {NoRow})
    BY <1>1 DEF Copies
<1>4. \A c \in Copies(d)' : \E b \in Copies(d) :
        /\ c.gen = b.gen
        /\ new.groups # Unknown => c.groups = b.groups
        /\ new.status # Unknown => c.status = b.status /\ c.meta = b.meta
    BY <1>2, <1>3
<1>5. Copies(d) = {} => Copies(d)' = {}
    BY <1>4
<1> QED
    BY <1>1, <1>4, <1>5 DEF Agrees

LEMMA StatusKept ==
    ASSUME TypeOK, KeptInv, NEW w \in Processes, NEW d \in Docs, NEW status \in Status,
           SetStatus(w, d, status)
    PROVE  KeptInv'
<1>1. PICK row : row = IF rows[d] = NoRow THEN NoRow
                       ELSE [rows[d] EXCEPT !.status = status, !.meta = status]
    OBVIOUS
<1>2. /\ Lexical(d, row) /\ Start(w, "status", d, status, "active") /\ points' = points
      /\ size' = size
    BY <1>1 DEF SetStatus
<1>3. w \in Workers /\ "status" \in Kinds
    BY DEF Workers, Kinds
<1>4. /\ row = NoRow <=> rows[d] = NoRow
      /\ row # NoRow => /\ row.status = status /\ row.meta = status
                        /\ row.gen = rows[d].gen /\ row.groups = rows[d].groups
  <2>1. CASE rows[d] = NoRow
    BY <1>1, <2>1
  <2>2. CASE rows[d] # NoRow
    <3>1. rows[d] \in Payload
      BY <2>2 DEF TypeOK
    <3>2. row = [rows[d] EXCEPT !.status = status, !.meta = status] /\ row \in Payload
      BY <1>1, <2>2, <3>1 DEF Payload
    <3>3. row # NoRow
      BY <3>2, SentinelAssumption
    <3> QED
      BY <2>2, <3>1, <3>2, <3>3 DEF Payload
  <2> QED
    BY <2>1, <2>2
<1>5. /\ rows'[d] = NoRow <=> rows[d] = NoRow
      /\ rows'[d] # NoRow => rows'[d] = row
    BY <1>2, <1>4, LexicalWrites DEF KeptInv
<1>6. \A job : job.kind = "status" /\ job.value = status /\ rows'[d] # NoRow
                 => Written(job, rows'[d])
    BY <1>4, <1>5 DEF Written
<1>7. ASSUME NEW promise, promise = Touched(want[d], "status", "active")
      PROVE  Agrees(d, promise)'
  <2>1. PICK old : old = want[d]
    OBVIOUS
  <2>2. Agrees(d, old)
    BY <2>1, StoresAgreeOn DEF KeptInv
  <2>3. promise.gen = old.gen /\ promise.groups = old.groups /\ promise.status = Unknown
    BY <1>7, <2>1 DEF Touched, TypeOK, Wanted
  <2> QED
    BY <1>2, <1>4, <1>5, <2>2, <2>3, RowChanged
<1> QED
    BY <1>2, <1>3, <1>6, <1>7, LexicalWrites, StartKept

LEMMA AclKept ==
    ASSUME TypeOK, KeptInv, NEW w \in Processes, NEW d \in Docs, NEW groups \in Acls,
           UpdateAcl(w, d, groups)
    PROVE  KeptInv'
<1>1. PICK row : row = IF rows[d] = NoRow THEN NoRow ELSE [rows[d] EXCEPT !.groups = groups]
    OBVIOUS
<1>2. /\ Lexical(d, row) /\ Start(w, "acl", d, groups, "active") /\ points' = points
      /\ size' = size
    BY <1>1 DEF UpdateAcl
<1>3. w \in Workers /\ "acl" \in Kinds
    BY DEF Workers, Kinds
<1>4. /\ row = NoRow <=> rows[d] = NoRow
      /\ row # NoRow => /\ row.groups = groups /\ row.gen = rows[d].gen
                        /\ row.status = rows[d].status /\ row.meta = rows[d].meta
  <2>1. CASE rows[d] = NoRow
    BY <1>1, <2>1
  <2>2. CASE rows[d] # NoRow
    <3>1. rows[d] \in Payload
      BY <2>2 DEF TypeOK
    <3>2. row = [rows[d] EXCEPT !.groups = groups] /\ row \in Payload
      BY <1>1, <2>2, <3>1 DEF Payload
    <3>3. row # NoRow
      BY <3>2, SentinelAssumption
    <3> QED
      BY <2>2, <3>1, <3>2, <3>3 DEF Payload
  <2> QED
    BY <2>1, <2>2
<1>5. /\ rows'[d] = NoRow <=> rows[d] = NoRow
      /\ rows'[d] # NoRow => rows'[d] = row
    BY <1>2, <1>4, LexicalWrites DEF KeptInv
<1>6. \A job : job.kind = "acl" /\ job.value = groups /\ rows'[d] # NoRow
                 => Written(job, rows'[d])
    BY <1>4, <1>5 DEF Written
<1>7. ASSUME NEW promise, promise = Touched(want[d], "acl", "active")
      PROVE  Agrees(d, promise)'
  <2>1. PICK old : old = want[d]
    OBVIOUS
  <2>2. Agrees(d, old)
    BY <2>1, StoresAgreeOn DEF KeptInv
  <2>3. promise.gen = old.gen /\ promise.groups = Unknown /\ promise.status = old.status
    BY <1>7, <2>1 DEF Touched, TypeOK, Wanted
  <2> QED
    BY <1>2, <1>4, <1>5, <2>2, <2>3, RowChanged
<1> QED
    BY <1>2, <1>3, <1>6, <1>7, LexicalWrites, StartKept

LEMMA BackfillKept ==
    ASSUME TypeOK, KeptInv, NEW t \in Tools, NEW d \in Docs, NEW groups \in Acls,
           Backfill(t, d, groups)
    PROVE  KeptInv'
<1>1. PICK meta : meta = IF listed[t][d] = Absent THEN "active" ELSE listed[t][d]
    OBVIOUS
<1>2. Start(t, "tool", d, groups, meta) /\ rows' = rows /\ points' = points /\ size' = size
    BY <1>1 DEF Backfill
<1>3. t \in Workers /\ "tool" \in Kinds
    BY DEF Workers, Kinds
<1>4. ASSUME NEW promise, promise = Touched(want[d], "tool", meta)
      PROVE  Agrees(d, promise)'
  <2>1. PICK old : old = want[d]
    OBVIOUS
  <2>2. Agrees(d, old)
    BY <2>1, StoresAgreeOn DEF KeptInv
  <2>3. promise.gen = old.gen /\ promise.groups = Unknown /\ promise.status \in {old.status, Unknown}
    BY <1>4, <2>1 DEF Touched, TypeOK, Wanted
  <2> QED
    BY <1>2, <2>2, <2>3, RowChanged
<1>5. ~Hybrid => \A e \in Docs : rows'[e] = NoRow
    BY <1>2 DEF KeptInv
<1> QED
    BY <1>2, <1>3, <1>4, <1>5, StartKept

\* A request of one writer concerns its own document.
LEMMA RequestKept ==
    ASSUME TypeOK, KeptInv, NEW w \in Workers, NEW job, job = work[w], job # NoJob,
           UNCHANGED <<rows, versions>>,
           \A v \in Workers \ {w} : work'[v] = work[v],
           \A k \in Points : k[1] # job.doc => points'[k] = points[k],
           \A e \in Docs : e # job.doc => want'[e] = want[e],
           job.raced \/ work'[w] # NoJob => want'[job.doc] = want[job.doc],
           ~job.raced => \A promise : promise = want'[job.doc] => Agrees(job.doc, promise)',
           \A new \in {work'[w]} \ {NoJob} :
             /\ new.kind = job.kind /\ new.doc = job.doc /\ new.value = job.value
             /\ new.raced = job.raced /\ new.meta = job.meta
             /\ \A k \in Read(new) : k[1] = job.doc
             /\ ~job.raced => Undisturbed(new)'
    PROVE  KeptInv'
<1>1. rows' = rows /\ size' = size
    BY DEF versions
<1>2. JobInv(w, job) /\ job.doc \in Docs
    BY KindOfJob DEF KeptInv, TypeOK, Working
<1>3. \A e \in Docs : Busy(e)' \subseteq Busy(e)
    BY DEF Busy
<1>4. job.raced => want'[job.doc] = Nothing
    BY <1>2 DEF JobInv, TakenBack
<1>5. ASSUME NEW e \in Docs PROVE StoresAgree(e)'
  <2>1. PICK promise : promise = want'[e]
    OBVIOUS
  <2>2. CASE e # job.doc
    <3>1. Agrees(e, promise)
      BY <2>1, <2>2, StoresAgreeOn DEF KeptInv
    <3>2. Agrees(e, promise)'
      BY <1>1, <2>2, <3>1, SameCopies
    <3> QED
      BY <2>1, <3>2, StoresAgreeOn
  <2>3. CASE e = job.doc
    <3>1. Agrees(e, promise)'
      BY <1>4, <2>1, <2>3, NothingAgrees
    <3> QED
      BY <2>1, <3>1, StoresAgreeOn
  <2> QED
    BY <2>2, <2>3
<1>6. ASSUME NEW v \in Workers, v # w, NEW other \in {work'[v]} \ {NoJob}
      PROVE  JobInv(v, other)'
  <2>1. other = work[v] /\ JobInv(v, other) /\ other.doc \in Docs
    BY <1>6, KindOfJob DEF KeptInv, TypeOK, Working
  <2>2. CASE other.doc # job.doc
    <3>1. want'[other.doc] = want[other.doc]
      BY <2>1, <2>2
    <3>2. \A k \in Points : k[1] = other.doc => points'[k] = points[k]
      BY <2>2
    <3> QED
      BY <1>1, <1>3, <2>1, <3>1, <3>2, OtherJob
  <2>3. CASE other.doc = job.doc
    <3>1. v \in Busy(job.doc) \ {w} /\ w \in Busy(other.doc) \ {v}
      BY <1>6, <2>1, <2>3 DEF Busy
    <3>2. job.raced /\ other.raced
      BY <1>2, <2>1, <3>1 DEF JobInv
    <3>3. want'[other.doc] = Nothing
      BY <1>4, <2>3, <3>2
    <3>4. /\ \A k \in Read(other) : k[1] = other.doc
          /\ other.kind = "ingest" => other.value.meta = other.value.status
      BY <2>1 DEF JobInv
    <3> QED
      BY <3>2, <3>3, <3>4, RacedJob
  <2> QED
    BY <2>2, <2>3
<1>7. ASSUME NEW new \in {work'[w]} \ {NoJob} PROVE JobInv(w, new)'
  <2>1. /\ new.kind = job.kind /\ new.doc = job.doc /\ new.value = job.value
        /\ new.raced = job.raced /\ new.meta = job.meta
        /\ \A k \in Read(new) : k[1] = job.doc
        /\ ~job.raced => Undisturbed(new)'
        /\ want'[new.doc] = want[job.doc]
    BY <1>7
  <2>2. TakenBack(new, want[job.doc])
    BY <1>2, <2>1 DEF JobInv, TakenBack
  <2>3. \A v \in Busy(new.doc)' \ {w} : new.raced
    BY <1>2, <1>3, <2>1 DEF JobInv
  <2> QED
    BY <1>2, <2>1, <2>2, <2>3 DEF JobInv
<1> QED
    BY <1>1, <1>5, <1>6, <1>7 DEF KeptInv

\* A write that ends promises what it did, if nobody disturbed it.
LEMMA CompleteEnds ==
    ASSUME TypeOK, NEW w \in Workers, NEW job, job = work[w], job # NoJob, Complete(w)
    PROVE  /\ work'[w] = NoJob /\ \A v \in Workers \ {w} : work'[v] = work[v]
           /\ \A e \in Docs : e # job.doc => want'[e] = want[e]
           /\ \/ want'[job.doc] = want[job.doc]
              \/ ~job.raced /\ want'[job.doc] = Settled(want[job.doc], job)
<1>1. job.doc \in Docs
    BY KindOfJob DEF TypeOK, Working
<1> QED
    BY <1>1 DEF Complete, Raise, TypeOK

LEMMA ProceedEnds ==
    ASSUME TypeOK, NEW w \in Workers, NEW job, Proceed(w, job)
    PROVE  /\ work'[w] \in {NoJob, job} /\ \A v \in Workers \ {w} : work'[v] = work[v]
           /\ want' = want
BY DEF Proceed, Raise, TypeOK

\* An ingest knows the collection by what it has written itself.
LEMMA IngestAgrees ==
    ASSUME TypeOK, NEW job, job.kind = "ingest", job.doc \in Docs, job.value \in Payload,
           job.value.meta = job.value.status, Undisturbed(job), UNCHANGED <<rows, versions>>,
           Keys(job.doc)' = Chunks(job.doc, size[job.doc][job.value.gen]),
           \A k \in Keys(job.doc)' : points'[k] = job.value,
           NEW promise, promise = Settled(want[job.doc], job)
    PROVE  Agrees(job.doc, promise)'
<1>1. rows' = rows /\ size' = size
    BY DEF versions
<1>2. /\ promise.gen = job.value.gen /\ promise.groups = job.value.groups
      /\ promise.status = job.value.status
    BY DEF Settled
<1>3. rows[job.doc] # NoRow => rows[job.doc] = job.value
    BY DEF Undisturbed, Written
<1>4. \A c \in Copies(job.doc)' : c = job.value
    BY <1>1, <1>3 DEF Copies
<1>5. promise.gen # Absent
    BY <1>2, SentinelAssumption DEF Payload
<1>6. Hybrid => rows'[job.doc] # NoRow
    BY <1>1 DEF Undisturbed
<1>7. size'[job.doc][promise.gen] = size[job.doc][job.value.gen]
    BY <1>1, <1>2
<1>8. Keys(job.doc)' = Chunks(job.doc, size'[job.doc][promise.gen])
    BY <1>7
<1> QED
    BY <1>2, <1>4, <1>5, <1>6, <1>8 DEF Agrees, Chunks

LEMMA ClearKept == ASSUME TypeOK, KeptInv, NEW w \in Workers, Clear(w) PROVE KeptInv'
<1>1. PICK job : job = work[w]
    OBVIOUS
<1>2. /\ job # NoJob /\ job.step = "clear" /\ job.kind = "ingest" /\ job.value \in Payload
      /\ job.doc \in Docs /\ job \in Job("ingest") /\ JobInv(w, job)
    BY <1>1, KindIsKnown, KindOfJob DEF Clear, At, TypeOK, Working, KeptInv
<1>3. PICK next : next = [job EXCEPT !.step = "upsert"]
    OBVIOUS
<1>4. /\ points' = [k \in Points |-> IF k[1] = job.doc THEN NoPoint ELSE points[k]]
      /\ UNCHANGED <<rows, versions>>
      /\ \/ size[job.doc][job.value.gen] = 0 /\ Complete(w)
         \/ Proceed(w, next)
    BY <1>1, <1>3 DEF Clear
<1>5. Keys(job.doc)' = {}
    BY <1>4 DEF Keys
<1>6. \A k \in Points : k[1] # job.doc => points'[k] = points[k]
    BY <1>4
<1>7. want[job.doc] = Nothing
    BY <1>2 DEF JobInv, TakenBack
<1>8. CASE size[job.doc][job.value.gen] = 0 /\ Complete(w)
  <2>1. Chunks(job.doc, 0) = {}
    BY DEF Chunks, Points
  <2>2. ASSUME ~job.raced, NEW promise, promise = want'[job.doc] PROVE Agrees(job.doc, promise)'
    <3>1. promise = Nothing \/ promise = Settled(want[job.doc], job)
      BY <1>1, <1>2, <1>7, <1>8, <2>2, CompleteEnds
    <3>2. Undisturbed(job) /\ job.value.meta = job.value.status
      BY <1>2, <2>2 DEF JobInv
    <3> QED
      BY <1>2, <1>4, <1>5, <1>8, <2>1, <3>1, <3>2, NothingAgrees, IngestAgrees
  <2> QED
    BY <1>1, <1>2, <1>4, <1>6, <1>8, <2>2, CompleteEnds, RequestKept
<1>9. CASE Proceed(w, next)
  <2>1. /\ next.kind = job.kind /\ next.doc = job.doc /\ next.value = job.value
        /\ next.raced = job.raced /\ next.meta = job.meta /\ next.page = job.page
        /\ next.step = "upsert"
    BY <1>2, <1>3 DEF Job
  <2>2. \A k \in Read(next) : k[1] = job.doc
    BY <1>2, <2>1 DEF JobInv, Read
  <2>3. rows' = rows
    BY <1>4
  <2>4. Undisturbed(job) => Undisturbed(next)'
    BY <1>2, <1>5, <2>1, <2>3 DEF Undisturbed, Written
  <2>5. ~job.raced => Undisturbed(next)'
    BY <1>2, <2>4 DEF JobInv
  <2>6. want' = want /\ work'[w] \in {NoJob, next} /\ \A v \in Workers \ {w} : work'[v] = work[v]
    BY <1>9, ProceedEnds
  <2>7. \A promise : promise = want'[job.doc] => Agrees(job.doc, promise)'
    BY <1>7, <2>6, NothingAgrees
  <2> QED
    BY <1>1, <1>2, <1>4, <1>6, <2>1, <2>2, <2>5, <2>6, <2>7, RequestKept
<1> QED
    BY <1>4, <1>8, <1>9

LEMMA UpsertKept == ASSUME TypeOK, KeptInv, NEW w \in Workers, Upsert(w) PROVE KeptInv'
<1>1. PICK job : job = work[w]
    OBVIOUS
<1>2. /\ job # NoJob /\ job.step = "upsert" /\ job.kind = "ingest" /\ job.value \in Payload
      /\ job.doc \in Docs /\ JobInv(w, job)
    BY <1>1, KindIsKnown, KindOfJob DEF Upsert, At, TypeOK, Working, KeptInv
<1>3. PICK written : written = Chunks(job.doc, size[job.doc][job.value.gen])
    OBVIOUS
<1>4. /\ points' = [k \in Points |-> IF k \in written THEN job.value ELSE points[k]]
      /\ UNCHANGED <<rows, versions>> /\ Complete(w)
    BY <1>1, <1>3 DEF Upsert
<1>5. written \subseteq {k \in Points : k[1] = job.doc}
    BY <1>3 DEF Chunks
<1>6. \A k \in Points : k[1] # job.doc => points'[k] = points[k]
    BY <1>4, <1>5
<1>7. want[job.doc] = Nothing
    BY <1>2 DEF JobInv, TakenBack
<1>8. ASSUME ~job.raced, NEW promise, promise = want'[job.doc] PROVE Agrees(job.doc, promise)'
  <2>1. promise = Nothing \/ promise = Settled(want[job.doc], job)
    BY <1>1, <1>2, <1>4, <1>7, <1>8, CompleteEnds
  <2>2. Undisturbed(job) /\ job.value.meta = job.value.status
    BY <1>2, <1>8 DEF JobInv
  <2>3. Keys(job.doc) = {}
    BY <1>2, <2>2 DEF Undisturbed
  <2>4. Keys(job.doc)' = written /\ \A k \in written : points'[k] = job.value
    <3>1. job.value # NoPoint
      BY <1>2, SentinelAssumption
    <3> QED
      BY <1>4, <1>5, <2>3, <3>1 DEF Keys
  <2> QED
    BY <1>2, <1>3, <1>4, <2>1, <2>2, <2>4, NothingAgrees, IngestAgrees
<1> QED
    BY <1>1, <1>2, <1>4, <1>6, <1>8, CompleteEnds, RequestKept

\* A write of another kind that has been through all points has settled its field.
LEMMA WriteAgrees ==
    ASSUME KeptInv, NEW job, job.kind \in Kinds \ {"ingest"}, job.doc \in Docs,
           want[job.doc] \in Wanted, rows' = rows, Undisturbed(job),
           NEW old, old = want[job.doc], Agrees(job.doc, old)',
           \A k \in Keys(job.doc)' : Written(job, points'[k]),
           NEW promise, promise = Settled(old, job)
    PROVE  Agrees(job.doc, promise)'
<1>1. \A c \in Copies(job.doc)' : job.kind # "tool" => Written(job, c)
    BY DEF Copies, Undisturbed
<1>2. CASE job.kind = "status"
  <2>1. /\ promise.gen = old.gen /\ promise.groups = old.groups /\ promise.status = job.value
    BY <1>2 DEF Settled, Wanted
  <2>2. \A c \in Copies(job.doc)' : c.status = job.value /\ c.meta = job.value
    BY <1>1, <1>2 DEF Written
  <2> QED
    BY <2>1, <2>2 DEF Agrees
<1>3. CASE job.kind = "acl"
  <2>1. /\ promise.gen = old.gen /\ promise.status = old.status /\ promise.groups = job.value
    BY <1>3 DEF Settled, Wanted
  <2>2. \A c \in Copies(job.doc)' : c.groups = job.value
    BY <1>1, <1>3 DEF Written
  <2> QED
    BY <2>1, <2>2 DEF Agrees
<1>4. CASE job.kind = "tool"
  <2>1. CASE Hybrid
    BY <1>4, <2>1 DEF Settled
  <2>2. CASE ~Hybrid
    <3>1. /\ promise.gen = old.gen /\ promise.status = old.status /\ promise.groups = job.value
      BY <1>4, <2>2 DEF Settled, Wanted
    <3>2. rows'[job.doc] = NoRow
      BY <2>2 DEF KeptInv
    <3>3. \A c \in Copies(job.doc)' : c.groups = job.value
      BY <1>4, <3>2 DEF Written, Copies
    <3> QED
      BY <3>1, <3>3 DEF Agrees
  <2> QED
    BY <2>1, <2>2
<1>5. CASE job.kind = "delete"
  <2>1. promise.gen = Absent /\ promise.groups = Unknown /\ promise.status = Unknown
    BY <1>5 DEF Settled, Nothing
  <2>2. Copies(job.doc)' = {}
    BY <1>1, <1>5 DEF Written
  <2> QED
    BY <2>1, <2>2, SentinelAssumption DEF Agrees
<1> QED
    BY <1>2, <1>3, <1>4, <1>5 DEF Kinds

LEMMA ScrollKept == ASSUME TypeOK, KeptInv, NEW w \in Workers, Scroll(w) PROVE KeptInv'
<1>1. PICK job : job = work[w]
    OBVIOUS
<1>2. /\ job # NoJob /\ job.step = "scroll" /\ job.kind \in Kinds \ {"ingest"}
      /\ job.doc \in Docs /\ job \in Job(job.kind) /\ JobInv(w, job)
      /\ want[job.doc] \in Wanted
    BY <1>1, KindIsKnown, KindOfJob DEF Scroll, At, TypeOK, Working, KeptInv
<1>3. PICK S : S = From(job.doc, job.from)
    OBVIOUS
<1>4. PICK page : page = [k \in Points |-> IF k \in First(S) THEN points[k] ELSE NoPoint]
    OBVIOUS
<1>5. PICK next : next = [job EXCEPT !.step = "write", !.page = page, !.next = Offset(S \ First(S))]
    OBVIOUS
<1>6. /\ UNCHANGED <<data, versions>>
      /\ (S = {} /\ Complete(w)) \/ Proceed(w, next)
    BY <1>1, <1>3, <1>4, <1>5 DEF Scroll
<1>7. rows' = rows /\ points' = points /\ UNCHANGED <<rows, versions>> /\ size' = size
    BY <1>6 DEF data, versions
<1>8. \A k \in Keys(job.doc) : Order[k] >= job.from <=> k \in S
    BY <1>3 DEF From
<1>9. ASSUME NEW old, old = want[job.doc] PROVE Agrees(job.doc, old)'
  <2>1. Agrees(job.doc, old)
    BY <1>2, <1>9, StoresAgreeOn DEF KeptInv
  <2> QED
    BY <1>2, <1>7, <2>1, SameCopies
<1>10. CASE S = {} /\ Complete(w)
  <2>1. ASSUME ~job.raced, NEW promise, promise = want'[job.doc] PROVE Agrees(job.doc, promise)'
    <3>1. PICK old : old = want[job.doc]
      OBVIOUS
    <3>2. promise = old \/ promise = Settled(old, job)
      BY <1>1, <1>2, <1>10, <2>1, <3>1, CompleteEnds
    <3>3. Undisturbed(job)
      BY <1>2, <2>1 DEF JobInv
    <3>4. \A k \in Keys(job.doc) : Written(job, points[k])
      BY <1>2, <1>8, <1>10, <3>3 DEF Undisturbed, Ahead
    <3>5. Keys(job.doc)' = Keys(job.doc)
      BY <1>7 DEF Keys
    <3>6. \A k \in Keys(job.doc)' : Written(job, points'[k])
      BY <1>7, <3>4, <3>5
    <3> QED
      BY <1>2, <1>7, <1>9, <3>1, <3>2, <3>3, <3>6, WriteAgrees
  <2> QED
    BY <1>1, <1>2, <1>7, <1>10, <2>1, CompleteEnds, RequestKept
<1>11. CASE Proceed(w, next)
  <2>1. /\ next.kind = job.kind /\ next.doc = job.doc /\ next.value = job.value
        /\ next.raced = job.raced /\ next.meta = job.meta /\ next.page = page
        /\ next.step = "write" /\ next.next = Offset(S \ First(S))
    BY <1>2, <1>5 DEF Job
  <2>2. First(S) \subseteq Keys(job.doc) /\ S \subseteq Points
    BY <1>3 DEF First, From, Keys
  <2>3. Read(next) = First(S)
    BY <1>4, <2>1, <2>2 DEF Read, Keys
  <2>4. \A k \in Read(next) : k[1] = job.doc /\ next.page[k] = points[k]
    BY <1>4, <2>1, <2>2, <2>3 DEF Keys
  <2>5. ASSUME NEW k \in Keys(job.doc), Ahead(job, k) PROVE Ahead(next, k)
    <3>1. k \in S
      BY <1>2, <1>8, <2>5 DEF Ahead
    <3>2. CASE k \in First(S)
      BY <2>1, <2>3, <3>2 DEF Ahead
    <3>3. CASE k \notin First(S)
      <4>1. PICK T : T = S \ First(S)
        OBVIOUS
      <4>2. k \in T /\ T \subseteq Points
        BY <2>2, <3>1, <3>3, <4>1
      <4>3. Least(T) \in Points /\ Order[Least(T)] <= Order[k]
        BY <4>2, LeastIsOne
      <4>4. next.next = Order[Least(T)] /\ next.next \in Nat
        BY <2>1, <4>1, <4>2, <4>3, OrderAssumption DEF Offset
      <4>5. Order[k] >= next.next
        BY <4>2, <4>3, <4>4, OrderAssumption
      <4> QED
        BY <2>1, <4>4, <4>5, SentinelAssumption DEF Ahead
    <3> QED
      BY <3>2, <3>3
  <2>6. ASSUME ~job.raced PROVE Undisturbed(next)'
    <3>1. Undisturbed(job)
      BY <1>2, <2>6 DEF JobInv
    <3>2. Keys(job.doc)' = Keys(job.doc)
      BY <1>7 DEF Keys
    <3>3. \A copy : Written(next, copy) <=> Written(job, copy)
      BY <2>1 DEF Written
    <3>4. \A k \in Keys(job.doc) : Ahead(next, k) \/ Written(next, points[k])
      BY <1>2, <2>5, <3>1, <3>3 DEF Undisturbed
    <3>5. job.kind # "tool" /\ rows[job.doc] # NoRow => Written(next, rows[job.doc])
      BY <3>1, <3>3 DEF Undisturbed
    <3> QED
      BY <1>2, <1>7, <2>1, <2>4, <3>2, <3>4, <3>5 DEF Undisturbed
  <2>7. want' = want /\ work'[w] \in {NoJob, next} /\ \A v \in Workers \ {w} : work'[v] = work[v]
    BY <1>11, ProceedEnds
  <2>8. \A promise : promise = want'[job.doc] => Agrees(job.doc, promise)'
    BY <1>9, <2>7
  <2> QED
    BY <1>1, <1>2, <1>7, <2>1, <2>4, <2>6, <2>7, <2>8, RequestKept
<1> QED
    BY <1>6, <1>10, <1>11

\* What the one writer of a document writes back differs from what is there in the
\* field of the write alone.
LEMMA RewrittenFields ==
    ASSUME TypeOK, NEW w \in Workers, NEW job, job = work[w], job # NoJob,
           job.kind \in Kinds \ {"ingest"}, \A i \in Read(job) : job.page[i] = points[i],
           NEW k \in Read(job)
    PROVE  /\ points[k] # NoPoint /\ points[k] \in Payload
           /\ job.kind = "delete" <=> Rewritten(job, k) = NoPoint
           /\ job.kind # "delete" =>
                /\ Written(job, Rewritten(job, k))
                /\ Rewritten(job, k).gen = points[k].gen
           /\ job.kind = "status" => Rewritten(job, k).groups = points[k].groups
           /\ job.kind = "acl" =>
                /\ Rewritten(job, k).status = points[k].status
                /\ Rewritten(job, k).meta = points[k].meta
           /\ job.kind = "tool" =>
                /\ Rewritten(job, k).status = points[k].status
                /\ \/ job.meta # "active" /\ Rewritten(job, k).meta = job.meta
                   \/ \E i \in Read(job) : Rewritten(job, k).meta = points[i].meta
<1>1. k \in Points /\ points[k] # NoPoint /\ points[k] \in Payload /\ job.page[k] = points[k]
    BY DEF Read, TypeOK, Page
<1>2. /\ job.value \in Value(job.kind) /\ job.meta \in Status
      /\ Rewritten(job, k) \in Payload \cup {NoPoint}
    BY KindOfJob, RewrittenType DEF TypeOK, Working
<1>3. NoPoint \notin Payload
    BY SentinelAssumption
<1>4. CASE job.kind = "status"
  <2>1. Rewritten(job, k) = [points[k] EXCEPT !.status = job.value, !.meta = job.value]
    BY <1>1, <1>4 DEF Rewritten, WithStatus
  <2>2. job.value \in Status
    BY <1>2, <1>4 DEF Value
  <2>3. /\ Rewritten(job, k) \in Payload /\ Rewritten(job, k).gen = points[k].gen
        /\ Rewritten(job, k).groups = points[k].groups
        /\ Rewritten(job, k).status = job.value /\ Rewritten(job, k).meta = job.value
    BY <1>1, <2>1, <2>2 DEF Payload
  <2> QED
    BY <1>1, <1>3, <1>4, <2>3 DEF Written
<1>5. CASE job.kind = "acl"
  <2>1. Rewritten(job, k) = [points[k] EXCEPT !.groups = job.value]
    BY <1>1, <1>5 DEF Rewritten, WithGroups
  <2>2. job.value \in Acls
    BY <1>2, <1>5 DEF Value
  <2>3. /\ Rewritten(job, k) \in Payload /\ Rewritten(job, k).gen = points[k].gen
        /\ Rewritten(job, k).status = points[k].status /\ Rewritten(job, k).meta = points[k].meta
        /\ Rewritten(job, k).groups = job.value
    BY <1>1, <2>1, <2>2 DEF Payload
  <2> QED
    BY <1>1, <1>3, <1>5, <2>3 DEF Written
<1>6. CASE job.kind = "tool"
  <2>1. PICK meta : meta = IF job.meta = "active" THEN job.page[Least(Read(job))].meta
                           ELSE job.meta
    OBVIOUS
  <2>2. Rewritten(job, k) = [points[k] EXCEPT !.groups = job.value, !.meta = meta]
    BY <1>1, <1>6, <2>1 DEF Rewritten, Patched
  <2>3. job.value \in Acls
    BY <1>2, <1>6 DEF Value
  <2>4. Least(Read(job)) \in Read(job)
    BY LeastIsOne DEF Read
  <2>5. /\ Rewritten(job, k) # NoPoint /\ Rewritten(job, k).gen = points[k].gen
        /\ Rewritten(job, k).status = points[k].status /\ Rewritten(job, k).meta = meta
        /\ Rewritten(job, k).groups = job.value
    <3>1. meta \in Status
      <4>1. points[Least(Read(job))] \in Payload
        BY <2>4 DEF Read, TypeOK, Page
      <4> QED
        BY <1>2, <2>1, <2>4, <4>1 DEF Payload
    <3>2. Rewritten(job, k) \in Payload
      BY <1>1, <2>2, <2>3, <3>1 DEF Payload
    <3> QED
      BY <1>1, <1>3, <2>2, <3>2 DEF Payload
  <2> QED
    BY <1>1, <1>6, <2>1, <2>4, <2>5 DEF Written
<1>7. CASE job.kind = "delete"
  <2>1. Rewritten(job, k) = NoPoint
    BY <1>7 DEF Rewritten
  <2> QED
    BY <1>1, <1>7, <2>1
<1> QED
    BY <1>4, <1>5, <1>6, <1>7 DEF Kinds

\* So it keeps what the document is still promised.
LEMMA PageAgrees ==
    ASSUME TypeOK, NEW w \in Workers, NEW job, job = work[w], job # NoJob, job.doc \in Docs,
           job.kind \in Kinds \ {"ingest"}, \A i \in Read(job) : job.page[i] = points[i],
           \A k \in Read(job) : k[1] = job.doc,
           rows' = rows, size' = size,
           points' = [k \in Points |-> IF k \in Read(job) THEN Rewritten(job, k) ELSE points[k]],
           NEW old, TakenBack(job, old), Agrees(job.doc, old)
    PROVE  Agrees(job.doc, old)'
<1>1. CASE job.kind = "delete"
    BY <1>1, NothingAgrees DEF TakenBack
<1>2. CASE job.kind # "delete"
  <2>1. Read(job) \subseteq Keys(job.doc)
    BY RewrittenFields DEF Keys, Read
  <2>2. Keys(job.doc)' = Keys(job.doc)
    BY <1>2, <2>1, RewrittenFields DEF Keys
  <2>3. \A k \in Keys(job.doc) : /\ k \in Read(job) => points'[k] = Rewritten(job, k)
                                 /\ k \notin Read(job) => points'[k] = points[k]
    BY DEF Keys
  <2>4. /\ \A k \in Keys(job.doc) : points[k] \in Copies(job.doc)
        /\ rows[job.doc] # NoRow => rows[job.doc] \in Copies(job.doc)
    BY DEF Copies
  <2>5. ASSUME NEW k \in Keys(job.doc)
        PROVE  /\ points'[k].gen = points[k].gen
               /\ old.groups # Unknown => points'[k].groups = points[k].groups
               /\ old.status # Unknown => /\ points'[k].status = points[k].status
                                          /\ points'[k].meta = old.status
    <3>1. CASE k \notin Read(job)
      BY <2>3, <2>4, <3>1 DEF Agrees
    <3>2. CASE k \in Read(job)
      <4>1. points'[k] = Rewritten(job, k) /\ points'[k].gen = points[k].gen
        BY <1>2, <2>3, <3>2, RewrittenFields
      <4>2. CASE job.kind = "status"
        BY <3>2, <4>1, <4>2, RewrittenFields DEF TakenBack
      <4>3. CASE job.kind = "acl"
        BY <2>4, <3>2, <4>1, <4>3, RewrittenFields DEF TakenBack, Agrees
      <4>4. CASE job.kind = "tool"
        <5>1. old.status # Unknown => \A i \in Read(job) : points[i].meta = old.status
          BY <2>1, <2>4 DEF Agrees
        <5>2. /\ old.groups = Unknown
              /\ old.status # Unknown => job.meta \in {"active", old.status}
          BY <4>4 DEF TakenBack
        <5>3. /\ points'[k].status = points[k].status
              /\ \/ job.meta # "active" /\ points'[k].meta = job.meta
                 \/ \E i \in Read(job) : points'[k].meta = points[i].meta
          <6>1. /\ Rewritten(job, k).status = points[k].status
                /\ \/ job.meta # "active" /\ Rewritten(job, k).meta = job.meta
                   \/ \E i \in Read(job) : Rewritten(job, k).meta = points[i].meta
            BY <3>2, <4>4, RewrittenFields
          <6> QED
            BY <4>1, <6>1
        <5> QED
          BY <4>1, <5>1, <5>2, <5>3
      <4> QED
        BY <1>2, <4>2, <4>3, <4>4 DEF Kinds
    <3> QED
      BY <3>1, <3>2
  <2>6. Copies(job.doc)' = {points'[k] : k \in Keys(job.doc)} \cup ({rows[job.doc]} \ {NoRow})
    BY <2>2 DEF Copies
  <2>7. Copies(job.doc) = {} => Copies(job.doc)' = {}
    BY <2>4, <2>6
  <2>8. old.gen \in Nat => \A c \in Copies(job.doc)' : c.gen = old.gen
    BY <2>4, <2>5, <2>6 DEF Agrees
  <2>9. old.groups # Unknown => \A c \in Copies(job.doc)' : c.groups = old.groups
    BY <2>4, <2>5, <2>6 DEF Agrees
  <2>10. old.status # Unknown =>
           \A c \in Copies(job.doc)' : c.status = old.status /\ c.meta = old.status
    BY <2>4, <2>5, <2>6 DEF Agrees
  <2> QED
    BY <2>2, <2>7, <2>8, <2>9, <2>10 DEF Agrees
<1> QED
    BY <1>1, <1>2

LEMMA WriteKept == ASSUME TypeOK, KeptInv, NEW w \in Workers, WritePage(w) PROVE KeptInv'
<1>1. PICK job : job = work[w]
    OBVIOUS
<1>2. /\ job # NoJob /\ job.step = "write" /\ job.kind \in Kinds \ {"ingest"}
      /\ job.doc \in Docs /\ job \in Job(job.kind) /\ JobInv(w, job)
      /\ want[job.doc] \in Wanted
    BY <1>1, KindIsKnown, KindOfJob DEF WritePage, At, TypeOK, Working, KeptInv
<1>3. PICK next : next = [job EXCEPT !.step = "scroll", !.from = job.next,
                                     !.page = NoPage, !.next = NoOffset]
    OBVIOUS
<1>4. /\ points' = [k \in Points |-> IF k \in Read(job) THEN Rewritten(job, k) ELSE points[k]]
      /\ UNCHANGED <<rows, versions>>
      /\ IF job.next = NoOffset THEN Complete(w) ELSE Proceed(w, next)
    BY <1>1, <1>3 DEF WritePage
<1>5. rows' = rows /\ size' = size
    BY <1>4 DEF versions
<1>6. \A k \in Points : k[1] # job.doc => points'[k] = points[k]
    BY <1>2, <1>4 DEF JobInv
<1>7. ASSUME ~job.raced, NEW old, old = want[job.doc] PROVE Agrees(job.doc, old)'
  <2>1. Agrees(job.doc, old)
    BY <1>2, <1>7, StoresAgreeOn DEF KeptInv
  <2>2. TakenBack(job, old) /\ Undisturbed(job) /\ \A k \in Read(job) : k[1] = job.doc
    BY <1>2, <1>7 DEF JobInv
  <2>3. \A i \in Read(job) : job.page[i] = points[i]
    BY <1>2, <2>2 DEF Undisturbed
  <2> QED
    BY <1>1, <1>2, <1>4, <1>5, <2>1, <2>2, <2>3, PageAgrees
<1>8. ASSUME ~job.raced, NEW k \in Keys(job.doc)'
      PROVE  \/ Written(job, points'[k])
             \/ k \in Keys(job.doc) /\ job.next # NoOffset /\ Order[k] >= job.next
  <2>1. Undisturbed(job)
    BY <1>2, <1>8 DEF JobInv
  <2>2. \A i \in Read(job) : job.page[i] = points[i]
    BY <1>2, <2>1 DEF Undisturbed
  <2>3. k \in Points /\ k[1] = job.doc /\ points'[k] # NoPoint
    BY <1>8 DEF Keys
  <2>4. CASE k \in Read(job)
    BY <1>1, <1>2, <1>4, <2>2, <2>3, <2>4, RewrittenFields
  <2>5. CASE k \notin Read(job)
    <3>1. points'[k] = points[k] /\ k \in Keys(job.doc)
      BY <1>4, <2>3, <2>5 DEF Keys
    <3>2. Ahead(job, k) \/ Written(job, points[k])
      BY <1>2, <2>1, <3>1 DEF Undisturbed
    <3> QED
      BY <1>2, <2>5, <3>1, <3>2 DEF Ahead
  <2> QED
    BY <2>4, <2>5
<1>9. CASE job.next = NoOffset
  <2>1. Complete(w)
    BY <1>4, <1>9
  <2>2. ASSUME ~job.raced, NEW promise, promise = want'[job.doc] PROVE Agrees(job.doc, promise)'
    <3>1. PICK old : old = want[job.doc]
      OBVIOUS
    <3>2. promise = old \/ promise = Settled(old, job)
      BY <1>1, <1>2, <2>1, <2>2, <3>1, CompleteEnds
    <3>3. Undisturbed(job) /\ Agrees(job.doc, old)'
      BY <1>2, <1>7, <2>2, <3>1 DEF JobInv
    <3>4. \A k \in Keys(job.doc)' : Written(job, points'[k])
      BY <1>8, <1>9, <2>2
    <3> QED
      BY <1>2, <1>5, <3>1, <3>2, <3>3, <3>4, WriteAgrees
  <2> QED
    BY <1>1, <1>2, <1>4, <1>6, <2>1, <2>2, CompleteEnds, RequestKept
<1>10. CASE job.next # NoOffset
  <2>1. /\ next.kind = job.kind /\ next.doc = job.doc /\ next.value = job.value
        /\ next.raced = job.raced /\ next.meta = job.meta /\ next.page = NoPage
        /\ next.step = "scroll" /\ next.from = job.next
    BY <1>2, <1>3 DEF Job
  <2>2. Read(next) = {}
    BY <2>1 DEF Read, NoPage
  <2>3. ASSUME ~job.raced PROVE Undisturbed(next)'
    <3>1. Undisturbed(job)
      BY <1>2, <2>3 DEF JobInv
    <3>2. \A copy : Written(next, copy) <=> Written(job, copy)
      BY <2>1 DEF Written
    <3>3. \A k \in Keys(job.doc)' : Ahead(next, k) \/ Written(next, points'[k])
      BY <1>8, <2>1, <2>3, <3>2 DEF Ahead
    <3>4. job.kind # "tool" /\ rows[job.doc] # NoRow => Written(next, rows[job.doc])
      BY <3>1, <3>2 DEF Undisturbed
    <3> QED
      BY <1>2, <1>5, <2>1, <2>2, <3>3, <3>4 DEF Undisturbed
  <2>4. want' = want /\ work'[w] \in {NoJob, next} /\ \A v \in Workers \ {w} : work'[v] = work[v]
    BY <1>4, <1>10, ProceedEnds
  <2>5. ~job.raced => \A promise : promise = want'[job.doc] => Agrees(job.doc, promise)'
    BY <1>7, <2>4
  <2> QED
    BY <1>1, <1>2, <1>4, <1>6, <2>1, <2>2, <2>3, <2>4, <2>5, RequestKept
<1> QED
    BY <1>9, <1>10

\* A worker that stops half-way has taken its promise back already.
LEMMA StopKept ==
    ASSUME TypeOK, KeptInv, NEW w \in Workers, work' = [work EXCEPT ![w] = NoJob],
           UNCHANGED <<data, versions>>, want' = want
    PROVE  KeptInv'
<1>1. PICK job : job = work[w]
    OBVIOUS
<1>2. /\ rows' = rows /\ points' = points /\ size' = size /\ UNCHANGED <<rows, versions>>
      /\ work'[w] = NoJob /\ \A v \in Workers \ {w} : work'[v] = work[v]
    BY DEF data, versions, TypeOK
<1>3. ASSUME NEW e \in Docs, NEW promise, promise = want'[e] PROVE Agrees(e, promise)'
  <2>1. Agrees(e, promise)
    BY <1>3, StoresAgreeOn DEF KeptInv
  <2> QED
    BY <1>2, <2>1, SameCopies
<1>4. CASE job # NoJob
  <2>1. job.doc \in Docs
    BY <1>1, <1>4, KindOfJob DEF TypeOK, Working
  <2> QED
    BY <1>1, <1>2, <1>3, <1>4, <2>1, RequestKept
<1>5. CASE job = NoJob
  <2>1. \A v \in Workers : work'[v] = work[v]
    BY <1>1, <1>2, <1>5
  <2>2. \A e : Busy(e)' = Busy(e) /\ Keys(e)' = Keys(e)
    BY <1>2, <2>1 DEF Busy, Keys
  <2>3. \A v, other : JobInv(v, other) => JobInv(v, other)'
    BY <1>2, <2>2 DEF JobInv, Undisturbed
  <2>4. \A e \in Docs : StoresAgree(e)'
    BY <1>3, StoresAgreeOn
  <2> QED
    BY <1>2, <2>1, <2>3, <2>4 DEF KeptInv
<1> QED
    BY <1>4, <1>5

LEMMA SameKept ==
    ASSUME KeptInv, UNCHANGED <<data, versions, work, want>>
    PROVE  KeptInv'
<1>1. rows' = rows /\ points' = points /\ size' = size /\ work' = work /\ want' = want
    BY DEF data, versions
<1>2. \A e : Busy(e)' = Busy(e) /\ Keys(e)' = Keys(e)
    BY <1>1 DEF Busy, Keys
<1>3. \A v, other : JobInv(v, other) => JobInv(v, other)'
    BY <1>1, <1>2 DEF JobInv, Undisturbed
<1>4. \A e : StoresAgree(e) => StoresAgree(e)'
    BY <1>1, <1>2 DEF StoresAgree, Copies
<1> QED
    BY <1>1, <1>3, <1>4 DEF KeptInv

LEMMA KeptStep == TypeOK /\ KeptInv /\ [Next]_vars => KeptInv'
<1> SUFFICES ASSUME TypeOK, KeptInv, [Next]_vars PROVE KeptInv'
    OBVIOUS
<1>1. ASSUME NEW w \in Workers, Request(w) PROVE KeptInv'
    BY <1>1, ClearKept, UpsertKept, ScrollKept, WriteKept DEF Request
<1>2. ASSUME NEW w \in Workers, Lose(w) PROVE KeptInv'
    BY <1>2, StopKept DEF Lose, Raise
<1>3. ASSUME NEW p \in Processes, Restart(p) PROVE KeptInv'
    BY <1>3, StopKept DEF Restart, Workers
<1>4. CASE Begin
    BY <1>4, IngestKept, SeedKept, StatusKept, AclKept, DeleteKept, BackfillKept DEF Begin
<1>5. ASSUME NEW t \in Tools, Tool(t) PROVE KeptInv'
  <2>1. UNCHANGED <<data, versions, work, want>>
    BY <1>5 DEF Tool, PlanBackfill, ListBackfill, SkipUnchanged
  <2> QED
    BY <2>1, SameKept
<1>6. CASE UNCHANGED vars
    BY <1>6, SameKept DEF vars
<1> QED
    BY <1>1, <1>2, <1>3, <1>4, <1>5, <1>6 DEF Next

LEMMA KeptInit == Init => KeptInv
<1> SUFFICES ASSUME Init PROVE KeptInv
    OBVIOUS
<1>1. \A w \in Workers : work[w] = NoJob
    BY DEF Init
<1>2. ASSUME NEW d \in Docs PROVE StoresAgree(d)
  <2>1. /\ want[d].gen = Absent /\ want[d].groups = Unknown /\ want[d].status = Unknown
        /\ Absent \notin Nat
    BY SentinelAssumption DEF Init, Nothing
  <2>2. Copies(d) = {}
    BY DEF Init, Copies, Keys
  <2> QED
    BY <2>1, <2>2 DEF StoresAgree
<1> QED
    BY <1>1, <1>2 DEF Init, KeptInv

LEMMA LexicalAnswers ==
    ASSUME TypeOK, Hybrid, NEW d \in Docs, NEW u \in Users, NEW k \in Traced(d)
    PROVE  k \in Found(u) <=> Outcome(u, k) = "selected"
<1>1. rows[d] # NoRow /\ k \in Chunks(d, size[d][rows[d].gen])
    BY DEF Traced
<1>2. k \in Points /\ k[1] = d
    BY <1>1 DEF Chunks
<1>3. CASE k \in Found(u)
    BY <1>3 DEF Outcome
<1>4. CASE k \notin Found(u)
  <2>1. ~(rows[d].meta # "quarantined" /\ rows[d].groups \in u)
    BY <1>1, <1>2, <1>4 DEF Found, LexicalHits
  <2> QED
    BY <1>2, <1>4, <2>1 DEF Outcome, LexicalOutcome
<1> QED
    BY <1>3, <1>4

LEMMA VectorAnswers ==
    ASSUME TypeOK, ~Hybrid, NEW d \in Docs, NEW u \in Users, NEW k \in Traced(d),
           points[k].meta = points[k].status
    PROVE  k \in Found(u) <=> Outcome(u, k) = "selected"
<1>1. k \in Keys(d) /\ k \in Points /\ points[k] # NoPoint
    BY DEF Traced, Keys
<1>2. k \in Found(u) <=> k \in VectorHits(u)
    BY DEF Found, LexicalHits
<1>3. k \in VectorHits(u) <=> points[k].status # "quarantined" /\ points[k].groups \in u
    BY <1>1 DEF VectorHits, Passes
<1>4. Outcome(u, k) = VectorOutcome(u, k)
    BY DEF Outcome
<1> QED
    BY <1>2, <1>3, <1>4 DEF VectorOutcome

LEMMA AnswersFollow ==
    ASSUME TypeOK, NEW d \in Docs, StoresAgree(d)
    PROVE  AnswersAgree(d)
<1>1. /\ rows[d] # NoRow => rows[d] \in Copies(d)
      /\ \A k \in Keys(d) : points[k] \in Copies(d)
      /\ want[d].status \in Status \cup {Unknown}
    BY DEF Copies, TypeOK, Wanted
<1>2. ASSUME want[d].status # Unknown, NEW c \in Copies(d)
      PROVE  c.status = want[d].status /\ c.meta = want[d].status
    BY <1>2 DEF StoresAgree
<1>3. ASSUME want[d].status # Unknown, d \in ListDocuments PROVE want[d].status = "active"
  <2>1. CASE Hybrid
    BY <1>1, <1>2, <1>3, <2>1 DEF ListDocuments, LexicalList
  <2>2. CASE ~Hybrid
    <3>1. Keys(d) # {} /\ Keys(d) \subseteq Points /\ points[Least(Keys(d))].meta = "active"
      BY <1>3, <2>2 DEF ListDocuments, VectorList, Keys
    <3>2. points[Least(Keys(d))] \in Copies(d)
      BY <1>1, <3>1, LeastIsOne
    <3> QED
      BY <1>2, <1>3, <3>1, <3>2
  <2> QED
    BY <2>1, <2>2
<1>4. ASSUME want[d].status # Unknown, d \in ListQuarantined
      PROVE  want[d].status = "quarantined"
    BY <1>1, <1>2, <1>4 DEF ListQuarantined, LexicalList, VectorQuarantined
<1>5. ASSUME want[d].status # Unknown, NEW u \in Users, NEW k \in Traced(d)
      PROVE  k \in Found(u) <=> Outcome(u, k) = "selected"
  <2>1. CASE Hybrid
    BY <2>1, LexicalAnswers
  <2>2. CASE ~Hybrid
    <3>1. k \in Keys(d)
      BY <2>2 DEF Traced
    <3>2. points[k].meta = points[k].status
      BY <1>1, <1>2, <1>5, <3>1
    <3> QED
      BY <2>2, <3>2, VectorAnswers
  <2> QED
    BY <2>1, <2>2
<1>6. ASSUME want[d].status # Unknown, want[d].groups # Unknown, NEW u \in Users,
             NEW k \in Found(u), k[1] = d
      PROVE  want[d].status = "active" /\ want[d].groups \in u
  <2>1. \E c \in Copies(d) : /\ c.status # "quarantined" \/ c.meta # "quarantined"
                             /\ c.groups \in u
    <3>1. CASE k \in LexicalHits(u)
      <4>1. /\ rows[d] # NoRow /\ rows[d].meta # "quarantined" /\ rows[d].groups \in u
        BY <1>6, <3>1 DEF LexicalHits
      <4> QED
        BY <1>1, <4>1
    <3>2. CASE k \in VectorHits(u)
      <4>1. k \in Keys(d) /\ points[k].status # "quarantined" /\ points[k].groups \in u
        BY <1>6, <3>2 DEF VectorHits, Passes, Keys
      <4> QED
        BY <1>1, <4>1
    <3> QED
      BY <1>6, <3>1, <3>2 DEF Found
  <2>2. PICK c \in Copies(d) : /\ c.status # "quarantined" \/ c.meta # "quarantined"
                               /\ c.groups \in u
    BY <2>1
  <2>3. c.status = want[d].status /\ c.meta = want[d].status /\ c.groups = want[d].groups
    BY <1>2, <1>6 DEF StoresAgree
  <2> QED
    BY <1>1, <1>6, <2>2, <2>3 DEF Status
<1> QED
    BY <1>3, <1>4, <1>5, <1>6 DEF AnswersAgree

\* An answered write that nobody disturbed is what both stores hold, and what searches,
\* traces and listings show, for all numbers of writers, pages, faults and restarts
\* (VectorDocumentStore, HybridDocumentStore, QdrantWriter.update_acl).
THEOREM AnsweredWritesHold == Spec => []PromisesKept
<1>1. TypeOK /\ KeptInv => PromisesKept
    BY AnswersFollow DEF KeptInv, PromisesKept
<1> QED
    BY <1>1, TypeInit, TypeStep, KeptInit, KeptStep, PTL DEF Spec
=============================================================================
