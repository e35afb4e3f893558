-------------------------- MODULE OperatorViewsProofs --------------------------
(* Theorems of OperatorViews, for any tokens, policies and access files and   *)
(* for windows of any length: the routes feed the monitor as ExtractionMonitor *)
(* says, queries and watch lists are judged by what is recent, and the checks  *)
(* of groups and tenants agree.                                                *)
EXTENDS OperatorViews, FiniteSetTheorems, SequenceTheorems, TLAPS

Ordered(p) == \A i, j \in 1..Len(p) : i <= j => p[i].ts <= p[j].ts

\* w is the end of p, and what it misses was too old at f or is more than MaxLen.
Trails(w, p, f) ==
    /\ w \in Seq(Entries) /\ p \in Seq(Entries)
    /\ Len(w) <= Len(p)
    /\ \A i \in 1..Len(w) : w[i] = p[Len(p) - Len(w) + i]
    /\ Len(w) >= MaxLen \/ \A i \in 1..Len(p) - Len(w) : p[i].ts < f

AllFresh(w, seconds) == \A i \in 1..Len(w) : Fresh(w[i], seconds)

Types ==
    /\ windows \in [Subjects -> Seq(Entries)]
    /\ past \in [Subjects -> Seq(Entries)]
    /\ \A s \in Subjects : Len(windows[s]) <= MaxLen
    /\ global \in RuleSets
    /\ own \in [Tenants -> RuleSets \cup {NoFile}]
    /\ corpus \in [Tenants -> Corpora]
    /\ now \in 0..MaxTime
    /\ floor \in [Subjects -> 0..MaxTime]
    /\ queries \in 0..MaxQueries
    /\ changes \in 0..MaxChanges

\* Every window is the end of what its subject retrieved.
Remembered ==
    \A s \in Subjects :
      /\ Trails(windows[s], past[s], floor[s])
      /\ Ordered(past[s])
      /\ \A i \in 1..Len(past[s]) : past[s][i].ts <= now

\* An answer tells of the windows as the call has pruned them.
Judged ==
    answer.call = "observe" =>
      \A s \in answer.who :
        LET r == RulesOf(s.tenant)
        IN /\ s \in Subjects
           /\ AllFresh(windows[s], r.window)
           /\ answer.severity = Severity(windows[s], corpus[s.tenant], r)
           /\ answer.paused => answer.severity = "severe"

Watched ==
    answer.call = "watch" =>
      /\ \A s \in Subjects : AllFresh(windows[s], global.window)
      /\ answer.who = {s \in Offenders(windows) : s.tenant \in answer.scope}

Inv == Types /\ Remembered /\ Judged /\ Watched

\* The access file that is loaded and the directory name what exists.
User == [token : STRING, user : Users, groups : SUBSET Groups, tenant : Tenants]
Operator == [token : STRING, user : Users, roles : SUBSET STRING,
             tenant : Tenants \cup {NoTenant}]
AccessTypes ==
    /\ acl.demo \subseteq User
    /\ acl.admins \subseteq Operator
    /\ acl.default \subseteq Groups
    /\ acl.inherits \in [Groups -> SUBSET Groups]
    /\ scim \in [Users -> SUBSET Groups]
-----------------------------------------------------------------------------
(* Pruning.                                                                *)

LEMMA Times ==
    /\ MaxTime \in Nat /\ MaxLen \in Nat \ {0}
    /\ \A e \in Entries : e.ts \in Nat
    /\ \A r \in RuleSets : r.window \in Nat
<1>1. MaxTime \in Nat /\ MaxLen \in Nat \ {0}
    BY BoundsAssumption
<1>2. \A e \in Entries : e.ts \in Nat
    BY <1>1 DEF Entries
<1>3. \A r \in RuleSets : r.window \in Nat
    BY RulesAssumption DEF Rules
<1> QED
    BY <1>1, <1>2, <1>3

LEMMA StaleIsOld ==
    ASSUME NEW e \in Entries, NEW seconds \in Nat, now \in Nat
    PROVE  /\ Cutoff(seconds) \in Nat /\ Cutoff(seconds) <= now
           /\ ~Fresh(e, seconds) <=> e.ts < Cutoff(seconds)
BY Times DEF Cutoff, Fresh

\* The stale entries that prune pops from the left are a prefix.
LEMMA StalePrefix ==
    ASSUME NEW w \in Seq(Entries), NEW seconds \in Nat
    PROVE  LET stale == {i \in 1..Len(w) : \A j \in 1..i : ~Fresh(w[j], seconds)}
           IN Cardinality(stale) \in 0..Len(w) /\ stale = 1..Cardinality(stale)
<1> DEFINE stale == {i \in 1..Len(w) : \A j \in 1..i : ~Fresh(w[j], seconds)}
           k == Cardinality(stale)
<1>1. Len(w) \in Nat
    OBVIOUS
<1>2. \A n \in Nat : IsFiniteSet(1..n) /\ Cardinality(1..n) = n
    BY FS_Interval
<1>3. IsFiniteSet(stale) /\ k \in Nat /\ k <= Len(w)
    BY <1>1, <1>2, FS_Subset, FS_CardinalityType
<1>4. \A i \in stale : i \in Nat /\ 1 <= i /\ 1..i \subseteq stale
    BY <1>1
<1>5. \A i \in stale : i <= k
  <2> SUFFICES ASSUME NEW i \in stale PROVE i <= k
    OBVIOUS
  <2> HIDE DEF stale
  <2>1. i \in Nat /\ 1..i \in SUBSET stale
    BY <1>4
  <2>2. Cardinality(1..i) <= k
    BY <1>3, <2>1, FS_Subset
  <2> QED
    BY <1>2, <2>1, <2>2
<1>6. stale \subseteq 1..k
  <2> HIDE DEF stale
  <2> QED
    BY <1>3, <1>4, <1>5
<1>7. stale = 1..k
  <2> HIDE DEF stale
  <2> QED
    BY <1>2, <1>3, <1>6, FS_Subset
<1> QED
    BY <1>1, <1>3, <1>7

LEMMA EndOf ==
    ASSUME NEW w \in Seq(Entries), NEW c \in 0..Len(w)
    PROVE  LET v == SubSeq(w, c + 1, Len(w))
           IN /\ v \in Seq(Entries) /\ Len(v) = Len(w) - c
              /\ \A i \in 1..Len(v) : v[i] = w[c + i]
<1> DEFINE v == SubSeq(w, c + 1, Len(w))
<1>1. Len(w) \in Nat /\ c \in Nat /\ c <= Len(w) /\ c + 1 \in Int /\ Len(w) \in Int
    OBVIOUS
<1>2. \A i \in (c + 1)..Len(w) : w[i] \in Entries
    BY <1>1
<1>3. /\ v \in Seq(Entries)
      /\ Len(v) = IF c + 1 <= Len(w) THEN Len(w) - (c + 1) + 1 ELSE 0
      /\ \A i \in 1..(Len(w) - (c + 1) + 1) : v[i] = w[c + 1 + i - 1]
    BY <1>1, <1>2, SubSeqProperties
<1>4. Len(v) = Len(w) - c /\ Len(w) - (c + 1) + 1 = Len(w) - c
  <2> HIDE DEF v
  <2> QED
    BY <1>1, <1>3
<1>5. \A i \in 1..Len(v) : c + 1 + i - 1 = c + i
  <2> HIDE DEF v
  <2> QED
    BY <1>1, <1>4
<1> QED
  <2> HIDE DEF v
  <2>1. \A i \in 1..Len(v) : v[i] = w[c + i]
    BY <1>3, <1>4, <1>5
  <2>2. v \in Seq(Entries) /\ Len(v) = Len(w) - c /\ \A i \in 1..Len(v) : v[i] = w[c + i]
    BY <1>3, <1>4, <2>1
  <2> QED
    BY <2>2 DEF v

\* prune drops a prefix: what is stale, or more when there is too much.
LEMMA PruneIsEnd ==
    ASSUME NEW w \in Seq(Entries), NEW seconds \in Nat, now \in Nat, Ordered(w)
    PROVE  LET v == Prune(w, seconds)
           IN \E c \in 0..Len(w) :
                /\ v \in Seq(Entries) /\ Len(v) = Len(w) - c /\ Len(v) <= MaxLen
                /\ \A i \in 1..Len(v) : v[i] = w[c + i]
                /\ \A i \in (c + 1)..Len(w) : Fresh(w[i], seconds)
                /\ Len(v) = MaxLen \/ \A i \in 1..c : ~Fresh(w[i], seconds)
<1> DEFINE stale == {i \in 1..Len(w) : \A j \in 1..i : ~Fresh(w[j], seconds)}
           k == Cardinality(stale)
           kept == SubSeq(w, k + 1, Len(w))
           v == Prune(w, seconds)
<1>1. k \in 0..Len(w) /\ stale = 1..k
    BY StalePrefix
<1>2. Len(w) \in Nat /\ MaxLen \in Nat \ {0}
    BY Times
<1>3. \A i \in 1..k : ~Fresh(w[i], seconds)
  <2>1. \A i \in stale : i \in 1..i /\ \A j \in 1..i : ~Fresh(w[j], seconds)
    OBVIOUS
  <2> HIDE DEF stale
  <2> QED
    BY <1>1, <2>1
<1>4. \A i \in (k + 1)..Len(w) : Fresh(w[i], seconds)
  <2>0. \A i \in 1..Len(w) : i \notin stale => \E j \in 1..i : Fresh(w[j], seconds)
    OBVIOUS
  <2> HIDE DEF stale, k
  <2>1. CASE k = Len(w)
    BY <1>2, <2>1
  <2>2. CASE k < Len(w)
    <3>1. k + 1 \in 1..Len(w) /\ k + 1 \notin stale
        BY <1>1, <1>2, <2>2
    <3>2. PICK j \in 1..(k + 1) : Fresh(w[j], seconds)
        BY <2>0, <3>1
    <3>3. j = k + 1
        BY <1>1, <1>3, <3>2
    <3>4. \A i \in (k + 1)..Len(w) : w[k + 1].ts <= w[i].ts
        BY <1>1, <1>2, <3>1 DEF Ordered
    <3>5. \A i \in (k + 1)..Len(w) : w[i] \in Entries
        BY <1>1, <1>2
    <3>6. \A i \in (k + 1)..Len(w) : w[i].ts \in Nat /\ w[k + 1].ts \in Nat
        BY <1>1, <1>2, <3>1, <3>5, Times
    <3> QED
        BY <3>2, <3>3, <3>4, <3>6 DEF Fresh
  <2> QED
    BY <1>1, <1>2, <2>1, <2>2
<1>5. kept \in Seq(Entries) /\ Len(kept) = Len(w) - k /\ \A i \in 1..Len(kept) : kept[i] = w[k + i]
  <2> HIDE DEF k
  <2> QED
    BY <1>1, EndOf
<1>6. v = IF Len(kept) > MaxLen THEN SubSeq(kept, Len(kept) - MaxLen + 1, Len(kept)) ELSE kept
    BY DEF Prune
<1> HIDE DEF stale, k, kept, v
<1>7. CASE ~(Len(kept) > MaxLen)
  <2>1. v = kept /\ Len(v) <= MaxLen
    BY <1>2, <1>5, <1>6, <1>7
  <2>2. /\ k \in 0..Len(w)
        /\ v \in Seq(Entries) /\ Len(v) = Len(w) - k /\ Len(v) <= MaxLen
        /\ \A i \in 1..Len(v) : v[i] = w[k + i]
        /\ \A i \in (k + 1)..Len(w) : Fresh(w[i], seconds)
        /\ \A i \in 1..k : ~Fresh(w[i], seconds)
    BY <1>1, <1>3, <1>4, <1>5, <2>1
  <2> QED
    BY <2>2 DEF v
<1>8. CASE Len(kept) > MaxLen
  <2> DEFINE d == Len(kept) - MaxLen
             c == Len(w) - MaxLen
  <2>0. k \in Nat /\ k <= Len(w) /\ Len(kept) \in Nat /\ Len(kept) = Len(w) - k
    BY <1>1, <1>2, <1>5
  <2>1. /\ d \in 0..Len(kept) /\ c \in 0..Len(w) /\ c = k + d /\ Len(kept) - d = MaxLen
        /\ Len(w) - c = MaxLen
    BY <1>2, <1>8, <2>0
  <2>2. v = SubSeq(kept, d + 1, Len(kept))
    BY <1>6, <1>8
  <2> HIDE DEF d, c
  <2>3. v \in Seq(Entries) /\ Len(v) = MaxLen /\ \A i \in 1..Len(v) : v[i] = kept[d + i]
    BY <1>5, <2>1, <2>2, EndOf
  <2>4. \A i \in 1..Len(v) : d + i \in 1..Len(kept) /\ k + (d + i) = c + i
    <3>1. d \in Nat /\ k \in Nat /\ c = k + d /\ Len(kept) \in Nat /\ Len(kept) = MaxLen + d
        BY <1>2, <2>0, <2>1
    <3>2. \A i \in 1..MaxLen : d + i \in 1..(MaxLen + d) /\ k + (d + i) = (k + d) + i
        BY <1>2, <3>1
    <3>3. Len(v) = MaxLen
        BY <2>3
    <3> QED
        BY <3>1, <3>2, <3>3
  <2>5. \A i \in 1..Len(v) : v[i] = w[c + i]
    BY <1>5, <2>3, <2>4
  <2>6. \A i \in (c + 1)..Len(w) : i \in (k + 1)..Len(w)
    BY <1>1, <1>2, <2>1
  <2>7. /\ c \in 0..Len(w)
        /\ v \in Seq(Entries) /\ Len(v) = Len(w) - c /\ Len(v) <= MaxLen
        /\ \A i \in 1..Len(v) : v[i] = w[c + i]
        /\ \A i \in (c + 1)..Len(w) : Fresh(w[i], seconds)
        /\ Len(v) = MaxLen
    BY <1>2, <1>4, <2>1, <2>3, <2>5, <2>6
  <2> QED
    BY <2>7 DEF v
<1> QED
    BY <1>7, <1>8

LEMMA PruneTrails ==
    ASSUME NEW w, NEW p, NEW f \in Nat, NEW seconds \in Nat, now \in Nat,
           Trails(w, p, f), Ordered(p)
    PROVE  LET v == Prune(w, seconds)
           IN /\ Trails(v, p, Later(f, Cutoff(seconds)))
              /\ Len(v) <= MaxLen
              /\ AllFresh(v, seconds)
<1> DEFINE v == Prune(w, seconds)
           g == Later(f, Cutoff(seconds))
           first == Len(p) - Len(w)
<1>1. /\ w \in Seq(Entries) /\ p \in Seq(Entries) /\ first \in Nat
      /\ Len(w) \in Nat /\ Len(p) \in Nat /\ Len(p) = first + Len(w)
      /\ \A i \in 1..Len(w) : w[i] = p[first + i]
      /\ Len(w) >= MaxLen \/ \A i \in 1..first : p[i].ts < f
    BY DEF Trails
<1>2. g \in Nat /\ f <= g /\ Cutoff(seconds) <= g /\ Cutoff(seconds) \in Nat /\ MaxLen \in Nat
    BY Times DEF Later, Cutoff
<1>3. \A i \in 1..Len(p) : p[i].ts \in Nat
    BY <1>1, Times
<1> HIDE DEF first, g
<1>4. Ordered(w)
  <2>1. \A i \in 1..Len(w) : first + i \in 1..Len(p)
    BY <1>1
  <2>2. \A i, j \in 1..Len(w) : i <= j => first + i <= first + j
    BY <1>1
  <2> QED
    BY <1>1, <2>1, <2>2 DEF Ordered
<1>5. PICK c \in 0..Len(w) :
        /\ v \in Seq(Entries) /\ Len(v) = Len(w) - c /\ Len(v) <= MaxLen
        /\ \A i \in 1..Len(v) : v[i] = w[c + i]
        /\ \A i \in (c + 1)..Len(w) : Fresh(w[i], seconds)
        /\ Len(v) = MaxLen \/ \A i \in 1..c : ~Fresh(w[i], seconds)
    BY <1>1, <1>4, PruneIsEnd
<1> HIDE DEF v
<1>6. c \in Nat /\ c <= Len(w) /\ Len(v) \in Nat /\ Len(p) - Len(v) = first + c
    BY <1>1, <1>5
<1>7. \A i \in 1..Len(v) : v[i] = p[Len(p) - Len(v) + i]
  <2>1. \A i \in 1..Len(v) : c + i \in 1..Len(w) /\ first + (c + i) = (first + c) + i
    BY <1>1, <1>5, <1>6
  <2> QED
    BY <1>1, <1>5, <1>6, <2>1
<1>8. AllFresh(v, seconds)
  <2>1. \A i \in 1..Len(v) : c + i \in (c + 1)..Len(w)
    BY <1>1, <1>5, <1>6
  <2> QED
    BY <1>5, <2>1 DEF AllFresh
<1>9. Len(v) >= MaxLen \/ \A i \in 1..Len(p) - Len(v) : p[i].ts < g
  <2> SUFFICES ASSUME ~(Len(v) >= MaxLen), NEW i \in 1..(first + c) PROVE p[i].ts < g
    BY <1>6
  <2>1. i \in 1..Len(p) /\ p[i].ts \in Nat
    BY <1>1, <1>3, <1>6
  <2>2. CASE c = 0
    <3>1. ~(Len(w) >= MaxLen) /\ i \in 1..first
        BY <1>1, <1>5, <1>6, <2>2
    <3> QED
        BY <1>1, <1>2, <2>1, <3>1
  <2>3. CASE c # 0
    <3>1. c \in 1..c /\ c \in 1..Len(w) /\ first + c \in 1..Len(p) /\ i <= first + c
        BY <1>1, <1>6, <2>3
    <3>2. ~Fresh(w[c], seconds)
        BY <1>2, <1>5, <1>6, <3>1
    <3>3. w[c] = p[first + c] /\ w[c] \in Entries
        BY <1>1, <3>1
    <3>4. p[first + c].ts < Cutoff(seconds) /\ p[first + c].ts \in Nat
        BY <1>3, <3>1, <3>2, <3>3, StaleIsOld
    <3>5. p[i].ts <= p[first + c].ts
        BY <2>1, <3>1 DEF Ordered
    <3> QED
        BY <1>2, <2>1, <3>4, <3>5
  <2> QED
    BY <2>2, <2>3
<1>10. Trails(v, p, g)
    BY <1>1, <1>5, <1>6, <1>7, <1>9 DEF Trails
<1> QED
    BY <1>5, <1>8, <1>10 DEF v, g

LEMMA AppendTrails ==
    ASSUME NEW w, NEW p, NEW f, NEW e \in Entries,
           Trails(w, p, f), Ordered(p), \A i \in 1..Len(p) : p[i].ts <= e.ts
    PROVE  /\ Trails(Append(w, e), Append(p, e), f)
           /\ Ordered(Append(p, e))
           /\ \A i \in 1..Len(Append(p, e)) : Append(p, e)[i].ts <= e.ts
<1> DEFINE u == Append(w, e)
           q == Append(p, e)
<1>1. /\ w \in Seq(Entries) /\ p \in Seq(Entries)
      /\ Len(w) \in Nat /\ Len(p) \in Nat /\ Len(w) <= Len(p) /\ MaxLen \in Nat
      /\ \A i \in 1..Len(w) : w[i] = p[Len(p) - Len(w) + i]
      /\ Len(w) >= MaxLen \/ \A i \in 1..Len(p) - Len(w) : p[i].ts < f
    BY Times DEF Trails
<1>2. /\ u \in Seq(Entries) /\ Len(u) = Len(w) + 1
      /\ \A i \in 1..Len(w) : u[i] = w[i]
      /\ u[Len(w) + 1] = e
    BY <1>1
<1>3. /\ q \in Seq(Entries) /\ Len(q) = Len(p) + 1
      /\ \A i \in 1..Len(p) : q[i] = p[i]
      /\ q[Len(p) + 1] = e
    BY <1>1
<1> HIDE DEF u, q
<1>4. e.ts \in Nat
    BY Times
<1>5. \A i \in 1..Len(q) : q[i].ts <= e.ts
  <2>1. \A i \in 1..Len(q) : i \in 1..Len(p) \/ i = Len(p) + 1
    BY <1>1, <1>3
  <2> QED
    BY <1>3, <1>4, <2>1
<1>6. Ordered(q)
  <2> SUFFICES ASSUME NEW i \in 1..Len(q), NEW j \in 1..Len(q), i <= j PROVE q[i].ts <= q[j].ts
    BY DEF Ordered
  <2>1. CASE j = Len(p) + 1
    BY <1>3, <1>5, <2>1
  <2>2. CASE j # Len(p) + 1
    <3>1. i \in 1..Len(p) /\ j \in 1..Len(p)
        BY <1>1, <1>3, <2>2
    <3> QED
        BY <1>3, <3>1 DEF Ordered
  <2> QED
    BY <2>1, <2>2
<1>7. Len(q) - Len(u) = Len(p) - Len(w) /\ Len(u) <= Len(q)
    BY <1>1, <1>2, <1>3
<1>8. \A i \in 1..Len(u) : u[i] = q[Len(q) - Len(u) + i]
  <2> SUFFICES ASSUME NEW i \in 1..Len(u) PROVE u[i] = q[Len(p) - Len(w) + i]
    BY <1>7
  <2>1. CASE i = Len(w) + 1
    <3>1. Len(p) - Len(w) + i = Len(p) + 1
        BY <1>1, <2>1
    <3> QED
        BY <1>2, <1>3, <2>1, <3>1
  <2>2. CASE i # Len(w) + 1
    <3>1. i \in 1..Len(w) /\ Len(p) - Len(w) + i \in 1..Len(p)
        BY <1>1, <1>2, <2>2
    <3> QED
        BY <1>1, <1>2, <1>3, <3>1
  <2> QED
    BY <2>1, <2>2
<1>9. Len(u) >= MaxLen \/ \A i \in 1..Len(q) - Len(u) : q[i].ts < f
  <2>1. CASE Len(w) >= MaxLen
    BY <1>1, <1>2, <2>1
  <2>2. CASE \A i \in 1..Len(p) - Len(w) : p[i].ts < f
    <3>1. \A i \in 1..Len(p) - Len(w) : i \in 1..Len(p)
        BY <1>1
    <3> QED
        BY <1>3, <1>7, <2>2, <3>1
  <2> QED
    BY <1>1, <2>1, <2>2
<1>10. Trails(u, q, f)
    BY <1>2, <1>3, <1>7, <1>8, <1>9 DEF Trails
<1> QED
    BY <1>5, <1>6, <1>10 DEF u, q

\* A pruned window is what Recent picks from the past, if that is still there.
LEMMA WindowIsRecent ==
    ASSUME Types, Remembered, NEW s \in Subjects, NEW seconds \in Nat,
           AllFresh(windows[s], seconds)
    PROVE  /\ Cardinality(FreshIn(s, seconds)) \in Nat
           /\ Len(windows[s]) <= Cardinality(FreshIn(s, seconds))
           /\ Intact(s, seconds) => windows[s] = Recent(s, seconds)
<1> DEFINE w == windows[s]
           p == past[s]
           F == FreshIn(s, seconds)
           first == Len(p) - Len(w)
           end == (first + 1)..Len(p)
<1>1. /\ w \in Seq(Entries) /\ p \in Seq(Entries) /\ first \in Nat
      /\ Len(w) \in Nat /\ Len(p) \in Nat /\ Len(p) = first + Len(w)
      /\ \A i \in 1..Len(w) : w[i] = p[first + i]
      /\ Len(w) >= MaxLen \/ \A i \in 1..first : p[i].ts < floor[s]
      /\ Len(w) <= MaxLen
  <2>1. Trails(w, p, floor[s]) /\ Len(w) <= MaxLen
    BY DEF Types, Remembered
  <2> HIDE DEF w, p
  <2> QED
    BY <2>1 DEF Trails
<1>2. MaxLen \in Nat /\ now \in Nat /\ floor[s] \in Nat
    BY Times DEF Types
<1>3. F = {i \in 1..Len(p) : Fresh(p[i], seconds)}
    BY DEF FreshIn
<1>4. IsFiniteSet(F) /\ Cardinality(F) \in Nat
  <2>1. IsFiniteSet(1..Len(p))
    <3> HIDE DEF p
    <3> QED
        BY <1>1, FS_Interval
  <2>2. F \in SUBSET (1..Len(p))
    BY <1>3
  <2> HIDE DEF F, p
  <2> QED
    BY <2>1, <2>2, FS_Subset, FS_CardinalityType
<1>5. \A i \in 1..Len(w) : Fresh(w[i], seconds)
    BY DEF AllFresh
<1> HIDE DEF w, p, F, first, end
<1>6. IsFiniteSet(end) /\ Cardinality(end) = Len(w)
  <2>1. first + 1 \in Int /\ Len(p) \in Int
    BY <1>1
  <2>2. /\ IsFiniteSet(end)
        /\ Cardinality(end) = IF first + 1 > Len(p) THEN 0 ELSE Len(p) - (first + 1) + 1
    BY <2>1, FS_Interval DEF end
  <2> QED
    BY <1>1, <2>2
<1>7. end \in SUBSET F
  <2> SUFFICES ASSUME NEW i \in end PROVE i \in F
    OBVIOUS
  <2>1. i \in 1..Len(p) /\ i - first \in 1..Len(w) /\ first + (i - first) = i
    BY <1>1 DEF end
  <2> QED
    BY <1>1, <1>3, <1>5, <2>1
<1>8. Len(w) <= Cardinality(F)
    BY <1>4, <1>6, <1>7, FS_Subset
<1>9. ASSUME Intact(s, seconds) PROVE w = Recent(s, seconds)
  <2> DEFINE n == Cardinality(F)
             newest == IF n > MaxLen THEN MaxLen ELSE n
  <2>1. newest = Len(w)
    <3>1. CASE Len(w) >= MaxLen
        BY <1>1, <1>2, <1>4, <1>8, <3>1
    <3>2. CASE \A i \in 1..first : p[i].ts < floor[s]
      <4>1. \A i \in 1..first : i \notin F
        <5> SUFFICES ASSUME NEW i \in 1..first PROVE i \notin F
            OBVIOUS
        <5>1. i \in 1..Len(p) /\ p[i] \in Entries
            BY <1>1
        <5>2. p[i].ts < floor[s] /\ p[i].ts \in Nat
            BY <3>2, <5>1, Times
        <5>3. floor[s] <= Cutoff(seconds) /\ Cutoff(seconds) \in Nat
            BY <1>2, <1>9, <5>1, StaleIsOld DEF Intact
        <5>4. p[i].ts < Cutoff(seconds)
            BY <1>2, <5>2, <5>3
        <5>5. ~Fresh(p[i], seconds)
            BY <1>2, <5>1, <5>4, StaleIsOld
        <5> QED
            BY <1>3, <5>5
      <4>2. F \subseteq 1..Len(p)
        BY <1>3
      <4>3. \A i \in 1..Len(p) : i \in 1..first \/ i \in end
        BY <1>1 DEF end
      <4>4. F = end
        BY <1>7, <4>1, <4>2, <4>3
      <4> QED
        BY <1>1, <1>2, <1>6, <4>4
    <3> QED
        BY <1>1, <3>1, <3>2
  <2>2. Recent(s, seconds) = SubSeq(p, Len(p) - newest + 1, Len(p))
    BY DEF Recent, F, p
  <2> HIDE DEF newest
  <2>3. /\ Recent(s, seconds) = SubSeq(p, first + 1, Len(p))
        /\ first \in 0..Len(p) /\ Len(p) - first = Len(w)
    BY <1>1, <2>1, <2>2 DEF first
  <2> DEFINE v == SubSeq(p, first + 1, Len(p))
  <2>4. v \in Seq(Entries) /\ Len(v) = Len(w) /\ \A i \in 1..Len(v) : v[i] = p[first + i]
    BY <1>1, <2>3, EndOf
  <2> HIDE DEF v
  <2>5. v = w
    BY <1>1, <2>4
  <2> QED
    BY <2>3, <2>5 DEF v
<1> QED
    BY <1>4, <1>8, <1>9 DEF w, F
-----------------------------------------------------------------------------
(* The monitor.                                                            *)

LEMMA RulesOfType ==
    ASSUME Types, NEW s \in Subjects
    PROVE  /\ s.tenant \in Tenants
           /\ RulesOf(s.tenant) \in RuleSets /\ RulesOf(s.tenant).window \in Nat
           /\ global \in RuleSets /\ global.window \in Nat
<1>1. s.tenant \in Tenants
    BY DEF Subjects
<1>2. RulesOf(s.tenant) \in RuleSets
    BY <1>1 DEF RulesOf, Types
<1>3. global \in RuleSets
    BY DEF Types
<1> QED
    BY <1>1, <1>2, <1>3, Times

\* The dropped part is never younger than now.
LEMMA FloorType ==
    ASSUME Types, NEW s \in Subjects, NEW seconds \in Nat
    PROVE  /\ now \in Nat /\ floor[s] \in Nat
           /\ Later(floor[s], Cutoff(seconds)) \in 0..MaxTime
<1>1. now \in Nat /\ now <= MaxTime /\ MaxTime \in Nat /\ floor[s] \in 0..MaxTime
    BY Times DEF Types
<1>2. Cutoff(seconds) \in 0..MaxTime
    BY <1>1 DEF Cutoff
<1> QED
    BY <1>1, <1>2 DEF Later

LEMMA NothingYet ==
    /\ Trails(<< >>, << >>, 0) /\ Ordered(<< >>)
    /\ Len(<< >>) = 0 /\ << >> \in Seq(Entries)
<1>1. Len(<< >>) = 0 /\ << >> \in Seq(Entries)
    OBVIOUS
<1> QED
    BY <1>1 DEF Trails, Ordered

LEMMA Unanswered ==
    /\ Nothing.call = "none"
    /\ Quiet => Judged' /\ Watched'
<1>1. Nothing.call = "none"
    BY DEF Nothing, Answer
<1> QED
    BY <1>1 DEF Quiet, Judged, Watched

LEMMA MonitorInit == Init => Inv
<1> SUFFICES ASSUME Init PROVE Inv
    OBVIOUS
<1>1. Types
  <2>1. /\ 0 \in 0..MaxTime /\ 0 \in 0..MaxQueries /\ 0 \in 0..MaxChanges /\ 0 <= MaxLen
    BY BoundsAssumption
  <2>2. /\ windows \in [Subjects -> Seq(Entries)] /\ past \in [Subjects -> Seq(Entries)]
        /\ \A s \in Subjects : Len(windows[s]) = 0
    BY NothingYet DEF Init
  <2>3. global \in RuleSets /\ own \in [Tenants -> RuleSets \cup {NoFile}]
    BY RulesAssumption DEF Init
  <2>4. corpus \in [Tenants -> Corpora]
    BY DEF Init
  <2>5. now = 0 /\ floor = [s \in Subjects |-> 0] /\ queries = 0 /\ changes = 0
    BY DEF Init
  <2> QED
    BY <2>1, <2>2, <2>3, <2>4, <2>5 DEF Types
<1>2. Remembered
    BY NothingYet DEF Init, Remembered
<1>3. answer.call = "none"
    BY Unanswered DEF Init
<1> QED
    BY <1>1, <1>2, <1>3 DEF Inv, Judged, Watched

LEMMA ObserveStep ==
    ASSUME Inv, NEW s \in Subjects, NEW docs \in Retrievals, Observe(s, docs)
    PROVE  Inv'
<1> DEFINE r == RulesOf(s.tenant)
           e == [ts |-> now, docs |-> docs]
           w == Prune(Append(windows[s], e), r.window)
           p == Append(past[s], e)
           f == Later(floor[s], Cutoff(r.window))
<1>0. Types /\ Remembered
    BY DEF Inv
<1>1. r \in RuleSets /\ r.window \in Nat /\ s.tenant \in Tenants
    BY <1>0, RulesOfType
<1>2. now \in Nat /\ floor[s] \in Nat /\ f \in 0..MaxTime
    BY <1>0, <1>1, FloorType
<1>3. e \in Entries /\ e.ts = now
    BY <1>0 DEF Entries, Types
<1>4. /\ windows' = [windows EXCEPT ![s] = w]
      /\ past' = [past EXCEPT ![s] = p]
      /\ floor' = [floor EXCEPT ![s] = f]
      /\ answer'.call = "observe" /\ answer'.who = {s}
      /\ answer'.severity = Severity(w, corpus[s.tenant], r)
      /\ answer'.paused => answer'.severity = "severe"
      /\ queries < MaxQueries /\ queries' = queries + 1
      /\ UNCHANGED <<global, own, corpus, now, changes>>
    BY DEF Observe, Key, Answer, config
<1> HIDE DEF r, e
<1>5. /\ Trails(Append(windows[s], e), p, floor[s]) /\ Ordered(p)
      /\ \A i \in 1..Len(p) : p[i].ts <= now
  <2>1. /\ Trails(windows[s], past[s], floor[s]) /\ Ordered(past[s])
        /\ \A i \in 1..Len(past[s]) : past[s][i].ts <= e.ts
    BY <1>0, <1>3 DEF Remembered
  <2>2. /\ Trails(Append(windows[s], e), p, floor[s]) /\ Ordered(p)
        /\ \A i \in 1..Len(p) : p[i].ts <= e.ts
    BY <1>3, <2>1, AppendTrails
  <2> QED
    BY <1>3, <2>2
<1> HIDE DEF p
<1>6. Trails(w, p, f) /\ Len(w) <= MaxLen /\ AllFresh(w, r.window)
    BY <1>1, <1>2, <1>5, PruneTrails
<1>7. w \in Seq(Entries) /\ p \in Seq(Entries)
    BY <1>6 DEF Trails
<1> HIDE DEF w, f
<1>8. \A t \in Subjects :
        /\ windows'[t] = IF t = s THEN w ELSE windows[t]
        /\ past'[t] = IF t = s THEN p ELSE past[t]
        /\ floor'[t] = IF t = s THEN f ELSE floor[t]
    BY <1>0, <1>4 DEF Types
<1>9. Types'
  <2>1. /\ windows' \in [Subjects -> Seq(Entries)] /\ past' \in [Subjects -> Seq(Entries)]
        /\ floor' \in [Subjects -> 0..MaxTime]
    BY <1>0, <1>2, <1>4, <1>7 DEF Types
  <2>2. \A t \in Subjects : Len(windows'[t]) <= MaxLen
    BY <1>0, <1>6, <1>8 DEF Types
  <2>3. queries' \in 0..MaxQueries
    BY <1>0, <1>4, BoundsAssumption DEF Types
  <2> QED
    BY <1>0, <1>4, <2>1, <2>2, <2>3 DEF Types
<1>10. Remembered'
    BY <1>0, <1>4, <1>5, <1>6, <1>8 DEF Remembered
<1>11. Judged'
  <2>1. RulesOf(s.tenant)' = r
    BY <1>4 DEF RulesOf, r
  <2>2. \A i \in 1..Len(windows'[s]) : windows'[s][i].ts + r.window >= now'
    BY <1>4, <1>6, <1>8 DEF AllFresh, Fresh
  <2>3. answer'.severity = Severity(windows'[s], corpus'[s.tenant], r)
    BY <1>4, <1>8
  <2> QED
    BY <1>4, <2>1, <2>2, <2>3 DEF Judged, AllFresh, Fresh
<1>12. Watched'
    BY <1>4 DEF Watched
<1> QED
    BY <1>9, <1>10, <1>11, <1>12 DEF Inv

LEMMA WatchStep ==
    ASSUME Inv, NEW scope \in SUBSET Tenants, Watch(scope)
    PROVE  Inv'
<1> DEFINE w(s) == Prune(windows[s], global.window)
           f(s) == Later(floor[s], Cutoff(global.window))
<1>0. Types /\ Remembered
    BY DEF Inv
<1>1. /\ windows' = [s \in Subjects |-> w(s)]
      /\ floor' = [s \in Subjects |-> f(s)]
      /\ answer'.call = "watch" /\ answer'.scope = scope
      /\ answer'.who = {s \in Offenders(windows') : s.tenant \in scope}
      /\ UNCHANGED <<global, own, corpus, now, past, queries, changes>>
    BY DEF Watch, Answer, config
<1>2. now \in Nat /\ global.window \in Nat
  <2>1. global \in RuleSets /\ now \in Nat
    BY <1>0 DEF Types
  <2> QED
    BY <2>1, Times
<1>3. ASSUME NEW s \in Subjects
      PROVE  /\ Trails(w(s), past[s], f(s)) /\ Len(w(s)) <= MaxLen
             /\ AllFresh(w(s), global.window)
             /\ w(s) \in Seq(Entries) /\ f(s) \in 0..MaxTime
  <2>1. floor[s] \in Nat /\ f(s) \in 0..MaxTime
    BY <1>0, <1>2, FloorType
  <2>2. Trails(windows[s], past[s], floor[s]) /\ Ordered(past[s])
    BY <1>0 DEF Remembered
  <2>3. Trails(w(s), past[s], f(s)) /\ Len(w(s)) <= MaxLen /\ AllFresh(w(s), global.window)
    BY <1>2, <2>1, <2>2, PruneTrails
  <2> QED
    BY <2>1, <2>3 DEF Trails
<1> HIDE DEF w, f
<1>4. \A s \in Subjects : windows'[s] = w(s) /\ floor'[s] = f(s)
    BY <1>1
<1>5. Types'
  <2>1. windows' \in [Subjects -> Seq(Entries)] /\ floor' \in [Subjects -> 0..MaxTime]
    BY <1>1, <1>3
  <2>2. \A s \in Subjects : Len(windows'[s]) <= MaxLen
    BY <1>3, <1>4
  <2> QED
    BY <1>0, <1>1, <2>1, <2>2 DEF Types
<1>6. Remembered'
    BY <1>0, <1>1, <1>3, <1>4 DEF Remembered
<1>7. Watched'
  <2>1. \A s \in Subjects : \A i \in 1..Len(windows'[s]) :
          windows'[s][i].ts + global'.window >= now'
    BY <1>1, <1>3, <1>4 DEF AllFresh, Fresh
  <2>2. Offenders(windows') = Offenders(windows)'
    BY <1>1 DEF Offenders
  <2>3. answer'.who = {s \in Offenders(windows)' : s.tenant \in answer'.scope}
    BY <1>1, <2>2
  <2> QED
    BY <2>1, <2>3 DEF Watched, AllFresh, Fresh
<1>8. Judged'
    BY <1>1 DEF Judged
<1> QED
    BY <1>5, <1>6, <1>7, <1>8 DEF Inv

LEMMA WorldStep ==
    ASSUME Inv, World \/ Restart \/ \E g \in RuleSets : Reload(g)
    PROVE  Inv'
<1>0. Types /\ Remembered
    BY DEF Inv
<1>1. MaxTime \in Nat /\ MaxChanges \in Nat
    BY BoundsAssumption
<1>2. Quiet
    BY DEF World, Tick, ChangeCorpus, EditFile, Restart, Reload, Change
<1>3. CASE Tick
  <2>1. now' \in 0..MaxTime /\ now <= now' /\ now \in Nat
    BY <1>0, <1>1, <1>3 DEF Tick, Types
  <2>2. UNCHANGED <<windows, global, own, corpus, past, floor, queries, changes>>
    BY <1>3 DEF Tick, config
  <2>3. Types'
    BY <1>0, <2>1, <2>2 DEF Types
  <2>4. \A s \in Subjects : \A i \in 1..Len(past[s]) : past[s][i].ts <= now'
    <3> SUFFICES ASSUME NEW s \in Subjects, NEW i \in 1..Len(past[s]) PROVE past[s][i].ts <= now'
        OBVIOUS
    <3>1. past[s] \in Seq(Entries)
        BY <1>0 DEF Types
    <3>2. past[s][i] \in Entries
        BY <3>1
    <3>3. past[s][i].ts \in Nat /\ past[s][i].ts <= now
        BY <1>0, <3>2, Times DEF Remembered
    <3> QED
        BY <2>1, <3>3
  <2>5. Remembered'
    BY <1>0, <2>2, <2>4 DEF Remembered
  <2> QED
    BY <1>2, <2>3, <2>5, Unanswered DEF Inv
<1>4. CASE (\E t \in Tenants, n \in Corpora : ChangeCorpus(t, n))
           \/ (\E t \in Tenants, r \in RuleSets \cup {NoFile} : EditFile(t, r))
           \/ \E g \in RuleSets : Reload(g)
  <2>1. /\ global' \in RuleSets
        /\ own' \in [Tenants -> RuleSets \cup {NoFile}]
        /\ corpus' \in [Tenants -> Corpora]
    <3>1. global \in RuleSets /\ own \in [Tenants -> RuleSets \cup {NoFile}]
          /\ corpus \in [Tenants -> Corpora]
        BY <1>0 DEF Types
    <3> QED
        BY <1>4, <3>1 DEF ChangeCorpus, EditFile, Reload
  <2>2. changes' = changes + 1 /\ changes < MaxChanges
    BY <1>4 DEF ChangeCorpus, EditFile, Reload, Change
  <2>3. changes' \in 0..MaxChanges
    BY <1>0, <1>1, <2>2 DEF Types
  <2>4. UNCHANGED <<windows, now, past, floor, queries>>
    BY <1>4 DEF ChangeCorpus, EditFile, Reload
  <2>5. Types'
    BY <1>0, <2>1, <2>3, <2>4 DEF Types
  <2>6. Remembered'
    BY <1>0, <2>4 DEF Remembered
  <2> QED
    BY <1>2, <2>5, <2>6, Unanswered DEF Inv
<1>5. CASE Restart
  <2>1. /\ windows' = [s \in Subjects |-> << >>] /\ past' = [s \in Subjects |-> << >>]
        /\ floor' = [s \in Subjects |-> 0]
        /\ changes' = changes + 1 /\ changes < MaxChanges
        /\ UNCHANGED <<global, own, corpus, now, queries>>
    BY <1>5 DEF Restart, Change, config
  <2>2. \A s \in Subjects : windows'[s] = << >> /\ past'[s] = << >> /\ floor'[s] = 0
    BY <2>1
  <2>3. changes' \in 0..MaxChanges
    BY <1>0, <1>1, <2>1 DEF Types
  <2>4. /\ windows' \in [Subjects -> Seq(Entries)] /\ past' \in [Subjects -> Seq(Entries)]
        /\ floor' \in [Subjects -> 0..MaxTime]
    BY <1>1, <2>1, NothingYet
  <2>5. \A s \in Subjects : Len(windows'[s]) <= MaxLen
    BY <2>2, NothingYet, Times
  <2>6. Types'
    BY <1>0, <2>1, <2>3, <2>4, <2>5 DEF Types
  <2>7. Remembered'
    BY <2>2, NothingYet DEF Remembered
  <2> QED
    BY <1>2, <2>6, <2>7, Unanswered DEF Inv
<1> QED
    BY <1>3, <1>4, <1>5 DEF World

LEMMA MonitorStep == Inv /\ [Next]_vars => Inv'
<1> SUFFICES ASSUME Inv, [Next]_vars PROVE Inv'
    OBVIOUS
<1>1. CASE UNCHANGED vars
  <2>1. UNCHANGED <<windows, global, own, corpus, now, answer, past, floor, queries, changes>>
    BY <1>1 DEF vars, config
  <2>2. Types' /\ Remembered'
    BY <2>1 DEF Inv, Types, Remembered
  <2>3. Judged'
    BY <2>1 DEF Inv, Judged, AllFresh, Fresh, RulesOf
  <2>4. Watched'
    BY <2>1 DEF Inv, Watched, AllFresh, Fresh, Offenders
  <2> QED
    BY <2>2, <2>3, <2>4 DEF Inv
<1> QED
    BY <1>1, ObserveStep, WatchStep, WorldStep DEF Next

LEMMA MonitorInvariant == Spec => []Inv
BY MonitorInit, MonitorStep, PTL DEF Spec

\* An answer is about the windows, and the windows are what is recent.
LEMMA AnswersAreRecent == Inv => TypeOK /\ JudgedByRecent /\ WatchListIsRecent
<1> SUFFICES ASSUME Types, Remembered, Judged, Watched
             PROVE  TypeOK /\ JudgedByRecent /\ WatchListIsRecent
    BY DEF Inv
<1>1. TypeOK
  <2>1. ASSUME NEW s \in Subjects,
               NEW i \in 1..Len(windows[s]), NEW j \in 1..Len(windows[s]), i <= j
        PROVE  windows[s][i].ts <= windows[s][j].ts
    <3> DEFINE w == windows[s]
               p == past[s]
               first == Len(p) - Len(w)
    <3>1. Trails(w, p, floor[s]) /\ Ordered(p) /\ i \in 1..Len(w) /\ j \in 1..Len(w)
        BY DEF Remembered
    <3> HIDE DEF w, p
    <3>2. /\ Len(w) \in Nat /\ Len(p) \in Nat /\ Len(w) <= Len(p)
          /\ w[i] = p[first + i] /\ w[j] = p[first + j]
        BY <3>1 DEF Trails
    <3>3. first + i \in 1..Len(p) /\ first + j \in 1..Len(p) /\ first + i <= first + j
        BY <2>1, <3>1, <3>2
    <3>4. w[i].ts <= w[j].ts
        BY <3>1, <3>2, <3>3 DEF Ordered
    <3> QED
        BY <3>4 DEF w
  <2> QED
    BY <2>1 DEF TypeOK, Types
<1>2. JudgedByRecent
  <2> SUFFICES ASSUME answer.call = "observe", NEW s \in answer.who
               PROVE  LET r == RulesOf(s.tenant)
                      IN /\ Intact(s, r.window) =>
                              answer.severity = Severity(Recent(s, r.window), corpus[s.tenant], r)
                         /\ answer.paused => Cardinality(FreshIn(s, r.window)) >= r.full
    BY DEF JudgedByRecent
  <2> DEFINE r == RulesOf(s.tenant)
             n == Cardinality(FreshIn(s, r.window))
  <2>1. /\ s \in Subjects /\ AllFresh(windows[s], r.window)
        /\ answer.severity = Severity(windows[s], corpus[s.tenant], r)
        /\ answer.paused => answer.severity = "severe"
    BY DEF Judged
  <2>2. r.window \in Nat /\ r.full \in Nat
    BY <2>1, RulesOfType, RulesAssumption DEF Rules
  <2>3. /\ n \in Nat /\ Len(windows[s]) <= n
        /\ Intact(s, r.window) => windows[s] = Recent(s, r.window)
    BY <2>1, <2>2, WindowIsRecent
  <2>4. answer.severity = "severe" => ~(Len(windows[s]) < r.full)
    BY <2>1 DEF Severity
  <2>5. Len(windows[s]) \in Nat
    BY <2>1 DEF Types
  <2> HIDE DEF r, n
  <2>6. answer.paused => n >= r.full
    BY <2>1, <2>2, <2>3, <2>4, <2>5
  <2> QED
    BY <2>1, <2>3, <2>6 DEF r, n
<1>3. WatchListIsRecent
  <2> SUFFICES ASSUME answer.call = "watch", \A s \in Subjects : Intact(s, global.window)
               PROVE  answer.who = {s \in Subjects :
                        /\ s.tenant \in answer.scope
                        /\ Recent(s, global.window) # << >>
                        /\ Severity(Recent(s, global.window), corpus[s.tenant], global) # "none"}
    BY DEF WatchListIsRecent
  <2>1. \A s \in Subjects : windows[s] = Recent(s, global.window)
    <3> SUFFICES ASSUME NEW s \in Subjects PROVE windows[s] = Recent(s, global.window)
        OBVIOUS
    <3>1. AllFresh(windows[s], global.window) /\ Intact(s, global.window) /\ global.window \in Nat
        BY RulesOfType DEF Watched
    <3> QED
        BY <3>1, WindowIsRecent
  <2>2. answer.who = {s \in Offenders(windows) : s.tenant \in answer.scope}
    BY DEF Watched
  <2> QED
    BY <2>1, <2>2 DEF Offenders
<1> QED
    BY <1>1, <1>2, <1>3
-----------------------------------------------------------------------------
(* Access.                                                                 *)

\* load_acl_policy fills in what the file leaves out.
LEMMA LoadAclType ==
    ASSUME NEW text \in AclTexts
    PROVE  LET a == LoadAcl(text)
           IN /\ a.demo \subseteq User
              /\ a.admins \subseteq Operator
              /\ a.default \subseteq Groups
              /\ a.inherits \in [Groups -> SUBSET Groups]
<1> DEFINE a == LoadAcl(text)
           Given == [token : STRING, user : Users, groups : SUBSET Groups,
                     tenant : Tenants \cup {NoTenant}]
           fill(u) == IF u.tenant = NoTenant THEN [u EXCEPT !.tenant = DefaultTenant] ELSE u
<1>1. text.demo \subseteq Given /\ text.default \subseteq Groups
      /\ text.inherits \in [Groups -> SUBSET Groups]
    BY AclAssumption
<1>2. /\ a.demo = {fill(u) : u \in text.demo}
      /\ a.default = IF text.default = {} THEN {"all-staff"} ELSE text.default
      /\ a.inherits = text.inherits
    BY AclAssumption DEF LoadAcl
<1>0. a.admins \subseteq Operator
    BY AclAssumption DEF LoadAcl, Operator
<1> HIDE DEF a
<1>3. \A u \in Given : fill(u) \in User
  <2> SUFFICES ASSUME NEW u \in Given PROVE fill(u) \in User
    OBVIOUS
  <2>1. CASE u.tenant = NoTenant
    BY <2>1, NamesAssumption DEF User
  <2>2. CASE u.tenant # NoTenant
    BY <2>2 DEF User
  <2> QED
    BY <2>1, <2>2
<1>4. a.demo \subseteq User
  <2> HIDE DEF Given, fill
  <2> QED
    BY <1>1, <1>2, <1>3
<1> QED
    BY <1>0, <1>1, <1>2, <1>4, NamesAssumption DEF a

\* Who a token stands for, and what they are given before the hierarchy.
LEMMA Identity ==
    ASSUME AccessTypes, NEW t \in Tokens, ResolveAuth(t) # Nobody
    PROVE  LET listed == {u \in acl.demo : u.token = t.id}
               named == IF listed # {} THEN (CHOOSE u \in listed : TRUE).groups ELSE t.groups
           IN \E user \in Users, tenant \in Tenants :
                /\ named \in SUBSET Groups
                /\ ResolveAuth(t) = Context(user, named, tenant)
<1> DEFINE listed == {u \in acl.demo : u.token = t.id}
           one == CHOOSE u \in listed : TRUE
<1>1. t.user \in Users /\ t.groups \subseteq Groups /\ t.tenant \in Tenants \cup {NoTenant}
    BY TokensAssumption
<1>2. CASE listed # {}
  <2>1. one \in listed
    BY <1>2
  <2>2. one \in User
    BY <2>1 DEF AccessTypes
  <2>3. one.user \in Users /\ one.groups \in SUBSET Groups /\ one.tenant \in Tenants
    BY <2>2 DEF User
  <2>4. ResolveAuth(t) = Context(one.user, one.groups, one.tenant)
    BY <1>2 DEF ResolveAuth
  <2> QED
    BY <1>2, <2>3, <2>4
<1>3. CASE listed = {}
  <2>1. ResolveAuth(t) = Context(t.user, t.groups, ClaimedTenant(t))
    BY <1>3 DEF ResolveAuth
  <2>2. ClaimedTenant(t) \in Tenants
    BY <1>1, NamesAssumption DEF ClaimedTenant
  <2> QED
    BY <1>1, <1>3, <2>1, <2>2
<1> QED
    BY <1>2, <1>3

LEMMA Caller ==
    ASSUME AccessTypes, NEW t \in Tokens, ResolveAuth(t) # Nobody
    PROVE  ResolveAuth(t).user \in Users /\ ResolveAuth(t).tenant \in Tenants
<1>1. PICK user \in Users, tenant \in Tenants, named \in SUBSET Groups :
        ResolveAuth(t) = Context(user, named, tenant)
    BY Identity
<1>2. Context(user, named, tenant).user = user /\ Context(user, named, tenant).tenant = tenant
    BY DEF Context
<1> QED
    BY <1>1, <1>2

\* An operator is let in everywhere or to one tenant that exists.
LEMMA OperatorScope ==
    ASSUME AccessTypes, NEW t \in Tokens, NEW role, MayAct(t, role)
    PROVE  Scope(t) = Everywhere \/ Scope(t) \in Tenants
<1> DEFINE listed == {u \in acl.admins : u.token = t.id}
           one == CHOOSE u \in listed : TRUE
           groups == ExpandGroups(t.groups)
           signed == Vouched(t, "idp") \/ Vouched(t, "jwt")
<1>1. CASE Unguarded
    BY <1>1 DEF Scope
<1>2. CASE ~Unguarded
  <2>1. ResolveAdmin(t) # Nobody /\ Scope(t) = ResolveAdmin(t).scope
    BY <1>2 DEF MayAct, Scope
  <2>2. CASE listed # {}
    <3>1. one \in listed
        BY <2>2
    <3>2. one.tenant \in Tenants \cup {NoTenant}
        BY <3>1 DEF AccessTypes, Operator
    <3>3. ResolveAdmin(t).scope = IF one.tenant = NoTenant THEN Everywhere ELSE one.tenant
        BY <2>2 DEF ResolveAdmin
    <3> QED
        BY <2>1, <3>2, <3>3
  <2>3. CASE listed = {} /\ t.id = ApiKey
    <3>1. ResolveAdmin(t).scope = Everywhere
        BY <2>3 DEF ResolveAdmin
    <3> QED
        BY <2>1, <3>1
  <2>4. CASE listed = {} /\ t.id # ApiKey /\ signed /\ MappedRoles(groups) # {}
    <3>1. ResolveAdmin(t).scope = ClaimedScope(t, groups)
        BY <2>4 DEF ResolveAdmin
    <3>2. t.tenant \in Tenants \cup {NoTenant}
        BY TokensAssumption
    <3>3. ClaimedTenant(t) \in Tenants
        BY <3>2, NamesAssumption DEF ClaimedTenant
    <3> HIDE DEF groups
    <3> QED
        BY <2>1, <3>1, <3>3 DEF ClaimedScope
  <2>5. CASE listed = {} /\ t.id # ApiKey /\ ~(signed /\ MappedRoles(groups) # {})
    <3>1. ResolveAdmin(t) = Nobody
        BY <2>5 DEF ResolveAdmin
    <3> QED
        BY <2>1, <3>1
  <2> QED
    BY <2>2, <2>3, <2>4, <2>5
<1> QED
    BY <1>1, <1>2

\* One level of inheritance stays within every closed set.
LEMMA OneLevel ==
    ASSUME AccessTypes, NEW b \in SUBSET Groups, b # {} \/ acl.default = {}
    PROVE  /\ b \subseteq ExpandGroups(b) /\ ExpandGroups(b) \subseteq Groups
           /\ \A S : b \subseteq S /\ (\A g \in S : acl.inherits[g] \subseteq S)
                       => ExpandGroups(b) \subseteq S
<1>1. ExpandGroups(b) = b \cup UNION {acl.inherits[g] : g \in b}
    BY DEF ExpandGroups
<1>2. \A g \in b : acl.inherits[g] \subseteq Groups
    BY DEF AccessTypes
<1> QED
    BY <1>1, <1>2

LEMMA ContextGroups ==
    ASSUME AccessTypes, NEW user \in Users, NEW tenant, NEW named \in SUBSET Groups
    PROVE  LET base == (IF named = {} THEN acl.default ELSE named)
                         \cup (IF acl.useScim THEN scim[user] ELSE {})
               got == Context(user, named, tenant).groups
           IN base \subseteq got /\ got \subseteq Inherited(base)
<1> DEFINE b == IF named = {} THEN acl.default ELSE named
           s == scim[user]
           base == b \cup (IF acl.useScim THEN s ELSE {})
           x == ExpandGroups(named)
           got == Context(user, named, tenant).groups
<1>1. s \in SUBSET Groups /\ b \in SUBSET Groups
    BY DEF AccessTypes
<1>2. b = {} => acl.default = {}
    OBVIOUS
<1>3. x = ExpandGroups(b)
    BY <1>2 DEF ExpandGroups
<1>4. got = IF acl.useScim /\ s # {} THEN ExpandGroups(x \cup s) ELSE x
    BY DEF Context, MergeScimGroups
<1> HIDE DEF b, s, x, got
<1>5. /\ b \subseteq x /\ x \subseteq Groups
      /\ \A S : b \subseteq S /\ (\A g \in S : acl.inherits[g] \subseteq S) => x \subseteq S
    BY <1>1, <1>2, <1>3, OneLevel
<1>6. CASE acl.useScim /\ s # {}
  <2>1. x \cup s \in SUBSET Groups /\ x \cup s # {}
    BY <1>1, <1>5, <1>6
  <2>2. /\ x \cup s \subseteq ExpandGroups(x \cup s) /\ ExpandGroups(x \cup s) \subseteq Groups
        /\ \A S : x \cup s \subseteq S /\ (\A g \in S : acl.inherits[g] \subseteq S)
                    => ExpandGroups(x \cup s) \subseteq S
    BY <2>1, OneLevel
  <2>3. got = ExpandGroups(x \cup s) /\ base = b \cup s
    BY <1>4, <1>6
  <2> HIDE DEF base
  <2>4. base \subseteq got /\ got \subseteq Groups
    BY <1>5, <2>2, <2>3
  <2>5. \A S : base \subseteq S /\ (\A g \in S : acl.inherits[g] \subseteq S) => got \subseteq S
    BY <1>5, <2>2, <2>3
  <2>6. got \subseteq Inherited(base)
    BY <2>4, <2>5 DEF Inherited
  <2> QED
    BY <2>4, <2>6 DEF base, b, s, got
<1>7. CASE ~(acl.useScim /\ s # {})
  <2>1. got = x /\ base = b
    BY <1>4, <1>7
  <2> HIDE DEF base
  <2>2. got \subseteq Inherited(base)
    BY <1>5, <2>1 DEF Inherited
  <2> QED
    BY <1>5, <2>1, <2>2 DEF base, b, s, got
<1> QED
    BY <1>6, <1>7
-----------------------------------------------------------------------------
(* The routes.                                                             *)

\* What the routes do to the monitor is what ExtractionMonitor lets it do; a poll
\* of the directory is for the monitor a reload of the rules it has.
LEMMA RoutesStep == Types /\ AccessTypes /\ [NextViews]_allVars => [Next]_vars
<1> SUFFICES ASSUME Types, AccessTypes, [NextViews]_allVars PROVE [Next]_vars
    OBVIOUS
<1>1. ASSUME NEW t \in Tokens, NEW docs \in Retrievals, Query(t, docs) PROVE Next
  <2> DEFINE s == [tenant |-> ResolveAuth(t).tenant, user |-> ResolveAuth(t).user]
  <2>1. ResolveAuth(t) # Nobody /\ Observe(s, docs)
    BY <1>1 DEF Query
  <2>2. s \in Subjects
    BY <2>1, Caller DEF Subjects
  <2> HIDE DEF s
  <2> QED
    BY <2>1, <2>2 DEF Next
<1>2. ASSUME NEW t \in Tokens, Look(t) PROVE Next
  <2> DEFINE scope == AllowedTenants(Scope(t), Tenants)
  <2>1. Watch(scope)
    BY <1>2 DEF Look
  <2>2. Scope(t) = Everywhere \/ Scope(t) \in Tenants
    BY <1>2, OperatorScope DEF Look
  <2>3. scope \in SUBSET Tenants
    BY <2>2, NamesAssumption DEF AllowedTenants
  <2> HIDE DEF scope
  <2> QED
    BY <2>1, <2>3 DEF Next
<1>3. ASSUME NEW rules \in RuleSets, NEW text \in AclTexts, ReloadPolicy(rules, text) PROVE Next
    BY <1>3 DEF ReloadPolicy, Next
<1>4. ASSUME NEW u \in Users, NEW groups \in Directory, PollScim(u, groups) PROVE Next
  <2>1. Reload(global) /\ global \in RuleSets
    BY <1>4 DEF PollScim, Reload, config, Types
  <2> QED
    BY <2>1 DEF Next
<1>5. CASE Restart \/ World
    BY <1>5 DEF Next
<1>6. CASE UNCHANGED allVars
    BY <1>6 DEF allVars
<1> QED
    BY <1>1, <1>2, <1>3, <1>4, <1>5, <1>6 DEF NextViews

LEMMA AccessStep == AccessTypes /\ [NextViews]_allVars => AccessTypes'
<1> SUFFICES ASSUME AccessTypes, [NextViews]_allVars PROVE AccessTypes'
    OBVIOUS
<1>1. ASSUME NEW rules \in RuleSets, NEW text \in AclTexts, ReloadPolicy(rules, text)
      PROVE  AccessTypes'
  <2>1. acl' = LoadAcl(text) /\ scim' = scim
    BY <1>1 DEF ReloadPolicy, ReloadAcl
  <2> QED
    BY <2>1, LoadAclType DEF AccessTypes
<1>2. ASSUME NEW u \in Users, NEW groups \in Directory, PollScim(u, groups)
      PROVE  AccessTypes'
  <2>1. scim' = [scim EXCEPT ![u] = groups] /\ acl' = acl /\ groups \in SUBSET Groups
    BY <1>2, NamesAssumption DEF PollScim, SyncScim
  <2>2. scim' \in [Users -> SUBSET Groups]
    BY <2>1 DEF AccessTypes
  <2> QED
    BY <2>1, <2>2 DEF AccessTypes
<1>3. CASE UNCHANGED access
    BY <1>3 DEF access, AccessTypes
<1> QED
    BY <1>1, <1>2, <1>3 DEF NextViews, Query, Look, allVars

LEMMA ViewsInvariant == SpecViews => [](Inv /\ AccessTypes)
<1>1. InitViews => Inv /\ AccessTypes
  <2> SUFFICES ASSUME InitViews PROVE Inv /\ AccessTypes
    OBVIOUS
  <2>1. Inv
    BY MonitorInit DEF InitViews
  <2>2. PICK text \in AclTexts : acl = LoadAcl(text)
    BY DEF InitViews
  <2>3. scim \in [Users -> SUBSET Groups]
    BY DEF InitViews
  <2> QED
    BY <2>1, <2>2, <2>3, LoadAclType DEF AccessTypes
<1>2. Inv /\ AccessTypes /\ [NextViews]_allVars => (Inv /\ AccessTypes)'
    BY RoutesStep, MonitorStep, AccessStep DEF Inv
<1> QED
    BY <1>1, <1>2, PTL DEF SpecViews
-----------------------------------------------------------------------------
(* Theorems.                                                               *)

\* Behind its routes the monitor does what ExtractionMonitor says: every query is
\* observed for the user and the tenant of a token, the watch list is asked for by
\* operators only (_require_auth, extraction_watch), and nothing else reaches it.
THEOREM RoutesFeedMonitor == SpecViews => Spec
<1>1. InitViews => Init
    BY DEF InitViews
<1>2. Inv /\ AccessTypes /\ [NextViews]_allVars => [Next]_vars
    BY RoutesStep DEF Inv
<1> QED
    BY <1>1, <1>2, ViewsInvariant, PTL DEF SpecViews, Spec

\* The types, and windows in the order of time (WindowState.add, prune).
THEOREM WindowsAreOrdered == SpecViews => []TypeOK
BY ViewsInvariant, AnswersAreRecent, PTL

\* A query is judged by what its own subject retrieved of late (observe): by the
\* whole of it, whatever came before, and whoever looked in between.
THEOREM QueriesJudgedByRecent == SpecViews => []JudgedByRecent
BY ViewsInvariant, AnswersAreRecent, PTL

\* The watch list names whom the global rules accuse now, of the tenants the
\* operator may see (watch, admin_allowed_tenant_ids).
THEOREM WatchListJudgedByRecent == SpecViews => []WatchListIsRecent
BY ViewsInvariant, AnswersAreRecent, PTL

\* The routes agree on an operator's tenants, whatever the access file says
\* (admin_allowed_tenant_ids, admin_can_access_tenant, admin_effective_tenant_filter).
THEOREM TenantsAgree == SpecViews => []TenantChecksAgree
<1>1. AccessTypes => TenantChecksAgree
  <2> SUFFICES ASSUME AccessTypes, NEW t \in Tokens, NEW role \in Roles, MayAct(t, role)
               PROVE  LET s == Scope(t)
                      IN /\ s = Everywhere <=> TenantFilter(s, NoTenant) = NoTenant
                         /\ \A x \in Tenants :
                              /\ CanAccessTenant(s, x) <=> x \in AllowedTenants(s, Tenants)
                              /\ CanAccessTenant(s, x) <=> TenantFilter(s, x) = x
    BY DEF TenantChecksAgree
  <2>1. Scope(t) = Everywhere \/ Scope(t) \in Tenants
    BY OperatorScope
  <2>2. NoTenant \notin Tenants
    BY NamesAssumption
  <2> QED
    BY <2>1, <2>2 DEF TenantFilter, CanAccessTenant, AllowedTenants
<1> QED
    BY <1>1, ViewsInvariant, PTL

\* A caller's groups lie between what token, file and directory name and what the
\* hierarchy gives for these: the directory adds groups and takes none away.  These are
\* bounds; the code does not close its groups under the hierarchy (_expand_groups,
\* _merge_scim_groups).
THEOREM CallersInheritGroups == SpecViews => []GroupsAreInherited
<1>1. AccessTypes => GroupsAreInherited
  <2> SUFFICES ASSUME AccessTypes, NEW t \in Tokens, ResolveAuth(t) # Nobody
               PROVE  LET auth == ResolveAuth(t)
                          listed == {u \in acl.demo : u.token = t.id}
                          named == IF listed # {} THEN (CHOOSE u \in listed : TRUE).groups
                                   ELSE t.groups
                          base == (IF named = {} THEN acl.default ELSE named)
                                    \cup (IF acl.useScim THEN scim[auth.user] ELSE {})
                      IN base \subseteq auth.groups /\ auth.groups \subseteq Inherited(base)
    BY DEF GroupsAreInherited
  <2> DEFINE listed == {u \in acl.demo : u.token = t.id}
             named == IF listed # {} THEN (CHOOSE u \in listed : TRUE).groups ELSE t.groups
  <2>1. PICK user \in Users, tenant \in Tenants :
          named \in SUBSET Groups /\ ResolveAuth(t) = Context(user, named, tenant)
    BY Identity
  <2> HIDE DEF listed, named
  <2>2. ResolveAuth(t).user = user
    BY <2>1 DEF Context
  <2>3. LET base == (IF named = {} THEN acl.default ELSE named)
                      \cup (IF acl.useScim THEN scim[user] ELSE {})
            got == ResolveAuth(t).groups
        IN base \subseteq got /\ got \subseteq Inherited(base)
    BY <2>1, ContextGroups
  <2> QED
    BY <2>2, <2>3 DEF listed, named
<1> QED
    BY <1>1, ViewsInvariant, PTL
================================================================================
