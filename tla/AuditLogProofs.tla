---------------------------- MODULE AuditLogProofs ----------------------------
(* Theorems of AuditLog, for any events, policies, sizes and crashes: its types, *)
(* when an event leaves the disk and what a reader no longer sees, the hash      *)
(* chain, which verifies but for the two gaps that `cut` observes, and the       *)
(* recent-events view, which misses nothing of the file.                         *)
EXTENDS AuditLog, FiniteSetTheorems, SequenceTheorems, WellFoundedInduction, TLAPS

-----------------------------------------------------------------------------
(* Numbers and sequences.                                                  *)

LEMMA Least ==
    ASSUME NEW S \in SUBSET Nat, S # {}
    PROVE  \E n \in S : \A k \in S : n <= k
<1> DEFINE Below == {1..k : k \in S}
           R == StrictSubsetOrdering(Nat)
<1>1. IsWellFoundedOn(R, FiniteSubsetsOf(Nat))
    BY FS_StrictSubsetOrderingWellFounded
<1>2. \A k \in S : IsFiniteSet(1..k) /\ 1..k \subseteq Nat
    BY FS_Interval
<1>3. Below \subseteq FiniteSubsetsOf(Nat) /\ Below # {}
    BY <1>2 DEF FiniteSubsetsOf
<1>4. PICK T \in Below : \A U \in Below : ~(<<U, T>> \in R)
  <2> HIDE DEF Below, R
  <2> QED
    BY <1>1, <1>3, WFMin
<1>5. PICK n \in S : T = 1..n
    OBVIOUS
<1>6. ASSUME NEW k \in S, k < n PROVE FALSE
  <2>1. 1..k \in Below
    OBVIOUS
  <2>2. 1..k \subseteq 1..n
    BY <1>6
  <2>3. n \in 1..n /\ n \notin 1..k
    BY <1>6
  <2>4. 1..k # 1..n
    BY <2>3
  <2>5. 1..k \in SUBSET Nat /\ 1..n \in SUBSET Nat
    BY <1>2
  <2>6. <<1..k, 1..n>> \in R
    BY <2>2, <2>4, <2>5 DEF StrictSubsetOrdering
  <2> QED
    BY <1>4, <1>5, <2>1, <2>6
<1> QED
    BY <1>6

LEMMA Greatest ==
    ASSUME NEW b \in Nat, NEW S \in SUBSET (1..b), S # {}
    PROVE  \E n \in S : \A k \in S : k <= n
<1> DEFINE T == {b - k : k \in S}
<1>1. T \in SUBSET Nat /\ T # {}
  <2>1. \A k \in S : b - k \in Nat
    OBVIOUS
  <2> QED
    BY <2>1
<1>2. PICK m \in T : \A j \in T : m <= j
    BY <1>1, Least
<1>3. PICK n \in S : m = b - n
    OBVIOUS
<1>4. \A k \in S : b - n <= b - k
    BY <1>2, <1>3
<1> QED
    BY <1>4

LEMMA LastNType ==
    ASSUME NEW X, NEW s \in Seq(X), NEW n \in Nat \ {0}
    PROVE  LastN(s, n) \in Seq(X) /\ Len(LastN(s, n)) <= n
           /\ \A k \in DOMAIN LastN(s, n) : \E j \in DOMAIN s : LastN(s, n)[k] = s[j]
<1>1. CASE Len(s) <= n
    BY <1>1 DEF LastN
<1>2. CASE Len(s) > n
  <2> DEFINE a == Len(s) - n + 1
  <2>1. a \in 2..Len(s) /\ Len(s) \in Nat
    BY <1>2
  <2>2. LastN(s, n) = SubSeq(s, a, Len(s))
    BY <1>2 DEF LastN
  <2>3. /\ SubSeq(s, a, Len(s)) \in Seq(X)
        /\ Len(SubSeq(s, a, Len(s))) = n
        /\ \A k \in 1..n : SubSeq(s, a, Len(s))[k] = s[a + k - 1]
    BY <2>1
  <2>4. \A k \in 1..n : a + k - 1 \in DOMAIN s
    BY <2>1
  <2> QED
    BY <2>2, <2>3, <2>4
<1> QED
    BY <1>1, <1>2

\* Keeping the positions K loses nothing else: the result has the elements at K.
LEMMA KeptElements ==
    ASSUME NEW X, NEW s \in Seq(X), NEW K \in SUBSET (DOMAIN s), NEW r \in Kept(s, K)
    PROVE  /\ r \in Seq(X)
           /\ Len(r) <= Len(s)
           /\ \A k \in DOMAIN r : \E j \in K : r[k] = s[j]
           /\ \A j \in K : \E k \in DOMAIN r : r[k] = s[j]
<1> DEFINE n == Cardinality(K)
<1>1. IsFiniteSet(DOMAIN s) /\ Cardinality(DOMAIN s) = Len(s)
  <2>1. DOMAIN s = 1..Len(s) /\ Len(s) \in Nat
    OBVIOUS
  <2>2. \A m \in Nat : IsFiniteSet(1..m) /\ Cardinality(1..m) = m
    BY FS_Interval
  <2> QED
    BY <2>1, <2>2
<1>2. IsFiniteSet(K) /\ n <= Len(s) /\ n \in Nat
    BY <1>1, FS_Subset, FS_CardinalityType
<1>3. PICK f \in [1..n -> K] : /\ \A i, j \in DOMAIN f : i < j => f[i] < f[j]
                               /\ r = [k \in DOMAIN f |-> s[f[k]]]
    BY DEF Kept
<1>4. DOMAIN f = 1..n /\ DOMAIN r = 1..n /\ \A k \in 1..n : f[k] \in K /\ r[k] = s[f[k]]
    BY <1>3
<1>5. r \in Seq(X) /\ Len(r) = n
  <2>1. \A k \in 1..n : r[k] \in X
    BY <1>4
  <2>2. r = [k \in 1..n |-> r[k]]
    BY <1>3, <1>4
  <2> HIDE DEF n
  <2>3. n \in Nat
    BY <1>2
  <2>4. \A m \in Nat : \A t : t = [k \in 1..m |-> t[k]] /\ (\A k \in 1..m : t[k] \in X)
                               => t \in Seq(X) /\ Len(t) = m
    OBVIOUS
  <2> QED
    BY <2>1, <2>2, <2>3, <2>4
<1>6. \A j \in K : \E k \in 1..n : f[k] = j
  <2>1. IsFiniteSet(1..n) /\ Cardinality(1..n) = n
    BY <1>2, FS_Interval
  <2>2. f \in Injection(1..n, K)
    <3>2. \A i, j \in 1..n : f[i] = f[j] => i = j
      <4> SUFFICES ASSUME NEW i \in 1..n, NEW j \in 1..n, f[i] = f[j], i # j PROVE FALSE
        OBVIOUS
      <4>1. f[i] \in Nat /\ f[j] \in Nat
        <5>1. K \subseteq 1..Len(s) /\ Len(s) \in Nat
            OBVIOUS
        <5>2. f[i] \in K /\ f[j] \in K
            BY <1>4
        <5> QED
            BY <5>1, <5>2
      <4>2. (i < j => f[i] < f[j]) /\ (j < i => f[j] < f[i])
        BY <1>3, <1>4
      <4> HIDE DEF n
      <4> QED
        BY <1>2, <4>1, <4>2
    <3> QED
        BY <3>2 DEF Injection, IsInjective
  <2>3. f \in Surjection(1..n, K)
    <3> HIDE DEF n
    <3>1. Cardinality(1..n) = Cardinality(K)
        BY <2>1 DEF n
    <3> QED
        BY <1>2, <2>2, <3>1, FS_Injection
  <2> QED
    BY <2>3 DEF Surjection
<1> QED
    BY <1>2, <1>4, <1>5, <1>6
-----------------------------------------------------------------------------
(* Lines and chains.                                                       *)

LEMMA BodyType ==
    ASSUME NEW l \in Line \cup BodyRec
    PROVE  /\ Body(l) \in BodyRec
           /\ Body(l).event = l.event /\ Body(l).at = l.at /\ Body(l).debug = l.debug
BY DEF Body, Line, BodyRec

LEMMA LinkType ==
    ASSUME NEW b \in Line \cup BodyRec, NEW prev \in Seq(BodyRec)
    PROVE  /\ Link(b, prev) \in Line
           /\ Link(b, prev).event = b.event /\ Link(b, prev).at = b.at
           /\ Link(b, prev).debug = b.debug /\ Link(b, prev).prev = prev
           /\ Link(b, prev).hash = Append(prev, Body(b))
           /\ Link(b, prev).hash \in Seq(BodyRec)
<1>1. Body(b) \in BodyRec
    BY BodyType
<1>2. Append(prev, Body(b)) \in Seq(BodyRec)
    BY <1>1
<1> QED
    BY <1>2 DEF Link, Line, Hash, BodyRec

LEMMA UnchainedType ==
    ASSUME NEW b \in BodyRec
    PROVE  /\ Unchained(b) \in Line
           /\ Unchained(b).event = b.event /\ Unchained(b).at = b.at
           /\ Unchained(b).debug = b.debug
BY DEF Unchained, Line, Hash, BodyRec

LEMMA BodiesType ==
    ASSUME NEW s \in Seq(Line), NEW n \in 0..Len(s)
    PROVE  /\ [k \in 1..n |-> Body(s[k])] \in Seq(BodyRec)
           /\ Len([k \in 1..n |-> Body(s[k])]) = n
<1>1. \A k \in 1..n : s[k] \in Line
    OBVIOUS
<1>2. \A k \in 1..n : Body(s[k]) \in BodyRec
    BY <1>1, BodyType
<1> QED
    BY <1>2

\* Rechaining changes no body.
LEMMA RechainType ==
    ASSUME NEW s \in Seq(Line)
    PROVE  /\ Rechain(s) \in Seq(Line) /\ DOMAIN Rechain(s) = DOMAIN s
           /\ \A k \in DOMAIN s : /\ Rechain(s)[k].event = s[k].event
                                  /\ Rechain(s)[k].at = s[k].at
                                  /\ Rechain(s)[k].debug = s[k].debug
<1> DEFINE L(k) == Link(s[k], [j \in 1..k - 1 |-> Body(s[j])])
<1>1. \A k \in DOMAIN s : /\ L(k) \in Line /\ L(k).event = s[k].event
                          /\ L(k).at = s[k].at /\ L(k).debug = s[k].debug
  <2> TAKE k \in DOMAIN s
  <2>1. s[k] \in Line /\ k - 1 \in 0..Len(s)
    OBVIOUS
  <2>2. [j \in 1..k - 1 |-> Body(s[j])] \in Seq(BodyRec)
    BY <2>1, BodiesType
  <2> QED
    BY <2>1, <2>2, LinkType
<1>2. Rechain(s) = [k \in 1..Len(s) |-> L(k)] /\ DOMAIN s = 1..Len(s) /\ Len(s) \in Nat
    BY DEF Rechain
<1> HIDE DEF L
<1> QED
    BY <1>1, <1>2

LEMMA PriorType ==
    ASSUME NEW s \in Seq(Line), NEW k \in 1..Len(s) + 1
    PROVE  Prior(s, k) \in Seq(BodyRec)
<1> DEFINE J == {j \in 1..k - 1 : s[j].hash # NoHash}
<1>1. CASE J = {}
    BY <1>1 DEF Prior
<1>2. CASE J # {}
  <2> DEFINE j == CHOOSE j \in J : \A i \in J : i <= j
  <2>1. k - 1 \in Nat /\ J \in SUBSET (1..k - 1)
    OBVIOUS
  <2>2. \E n \in J : \A i \in J : i <= n
    BY <1>2, <2>1, Greatest
  <2>3. j \in J
    BY <2>2
  <2>4. Prior(s, k) = s[j].hash
    BY <1>2 DEF Prior
  <2> HIDE DEF j
  <2>5. s[j] \in Line /\ s[j].hash # NoHash
    BY <2>3
  <2> QED
    BY <2>4, <2>5 DEF Line, Hash
<1> QED
    BY <1>1, <1>2

LEMMA LastHashType ==
    ASSUME NEW s \in Seq(Line)
    PROVE  LastHash(s) \in Seq(BodyRec)
<1>1. BrokenAt(s) \in 0..Len(s)
  <2>1. CASE Breaks(s) = {}
    BY <2>1 DEF BrokenAt
  <2>2. CASE Breaks(s) # {}
    <3> DEFINE n == CHOOSE n \in Breaks(s) : \A j \in Breaks(s) : n <= j
    <3>1. Breaks(s) \in SUBSET Nat /\ Breaks(s) \subseteq 1..Len(s)
        BY DEF Breaks
    <3>2. \E m \in Breaks(s) : \A j \in Breaks(s) : m <= j
        BY <2>2, <3>1, Least
    <3>3. n \in Breaks(s)
        BY <3>2
    <3>4. BrokenAt(s) = n
        BY <2>2 DEF BrokenAt
    <3> HIDE DEF n
    <3> QED
        BY <3>1, <3>3, <3>4
  <2> QED
    BY <2>1, <2>2
<1>2. CASE BrokenAt(s) = 0
    BY <1>2, PriorType DEF LastHash
<1>3. CASE BrokenAt(s) # 0
    BY <1>1, <1>3, PriorType DEF LastHash
<1> QED
    BY <1>2, <1>3

LEMMA StrippedType ==
    ASSUME NEW S, S = Line \/ S = BodyRec, NEW b \in S
    PROVE  /\ Stripped(b) \in S
           /\ Stripped(b).event = b.event /\ Stripped(b).at = b.at
<1>1. CASE S = Line
    BY <1>1 DEF Stripped, Line
<1>2. CASE S = BodyRec
    BY <1>2 DEF Stripped, BodyRec
<1> QED
    BY <1>1, <1>2
-----------------------------------------------------------------------------
(* The steps of a handler.                                                 *)

\* Clearing, pruning and filling come first or not at all, and appending last.
Plan ==
    \A k \in DOMAIN todo :
        /\ todo[k] \in {"clear", "prune"} => k = 1
        /\ todo[k] = "fill" => k = 1 \/ (k = 2 /\ todo[1] = "prune")
        /\ todo[k] = "append" => k = Len(todo) /\ line \in Line

\* Steps that may be put before the rest of a handler's.
Prefix(s) ==
    /\ s \in Seq(Steps)
    /\ \A k \in DOMAIN s :
        /\ s[k] \notin {"append", "sync", "warm", "read"}
        /\ s[k] \in {"clear", "prune"} => k = 1
        /\ s[k] = "fill" => k = 1 \/ (k = 2 /\ s[1] = "prune")

LEMMA Prefixes ==
    /\ Prefix(<<>>) /\ Prefix(<<"clear", "sweep", "mark">>) /\ Prefix(Retention)
    /\ Prefix(<<"strip_memory", "strip">>)
    /\ Prefix(<<"trim", "strip_memory", "strip", "sweep">>)
    /\ Prefix(<<"prune", "fill", "trim", "strip_memory", "strip", "sweep">>)
    /\ Prefix(<<"fill">>)
BY DEF Prefix, Steps, Retention

LEMMA ThenSteps ==
    ASSUME TypeOK, ~Idle, NEW s \in Seq(Steps), Then(s)
    PROVE  /\ todo' \in Seq(Steps)
           /\ Len(todo') = Len(s) + Len(todo) - 1
           /\ \A k \in 1..Len(s) : todo'[k] = s[k]
           /\ \A k \in Len(s) + 1..Len(todo') : todo'[k] = todo[k - Len(s) + 1]
<1>1. todo \in Seq(Steps) /\ todo # <<>>
    BY DEF TypeOK, Idle
<1>2. /\ Tail(todo) \in Seq(Steps) /\ Len(Tail(todo)) = Len(todo) - 1
      /\ \A k \in 1..Len(todo) - 1 : Tail(todo)[k] = todo[k + 1]
    BY <1>1
<1> DEFINE t == Tail(todo)
<1>3. todo' = s \o t
    BY DEF Then
<1>4. t \in Seq(Steps) /\ Len(t) = Len(todo) - 1
    BY <1>2
<1>5. \A k \in 1..Len(todo) - 1 : t[k] = todo[k + 1]
    BY <1>2
<1> HIDE DEF t
<1>6. /\ s \o t \in Seq(Steps) /\ Len(s \o t) = Len(s) + Len(t)
      /\ \A k \in 1..Len(s) : (s \o t)[k] = s[k]
      /\ \A k \in Len(s) + 1..Len(s) + Len(t) : (s \o t)[k] = t[k - Len(s)]
    BY <1>4
<1>7. ASSUME NEW k \in Len(s) + 1..Len(s) + Len(t)
      PROVE  (s \o t)[k] = todo[k - Len(s) + 1]
  <2> DEFINE j == k - Len(s)
  <2>1. j \in 1..Len(todo) - 1
    BY <1>1, <1>4
  <2>2. (s \o t)[k] = t[j]
    BY <1>6
  <2>3. t[j] = todo[j + 1]
    BY <1>5, <2>1
  <2> QED
    BY <2>2, <2>3
<1> QED
    BY <1>3, <1>4, <1>6, <1>7

LEMMA PlanStep ==
    ASSUME TypeOK, Plan, ~Idle, NEW s, Prefix(s), Then(s), line' = line,
           Head(todo) = "prune" => s = <<>>
    PROVE  Plan'
<1>1. s \in Seq(Steps)
    BY DEF Prefix
<1>2. /\ todo' \in Seq(Steps)
      /\ Len(todo') = Len(s) + Len(todo) - 1
      /\ \A k \in 1..Len(s) : todo'[k] = s[k]
      /\ \A k \in Len(s) + 1..Len(todo') : todo'[k] = todo[k - Len(s) + 1]
    BY <1>1, ThenSteps
<1>3. todo \in Seq(Steps) /\ todo # <<>> /\ Head(todo) = todo[1]
    BY DEF TypeOK, Idle
<1> SUFFICES ASSUME NEW k \in DOMAIN todo'
             PROVE  /\ todo'[k] \in {"clear", "prune"} => k = 1
                    /\ todo'[k] = "fill" => k = 1 \/ (k = 2 /\ todo'[1] = "prune")
                    /\ todo'[k] = "append" => k = Len(todo') /\ line' \in Line
    BY DEF Plan
<1>4. CASE k <= Len(s)
  <2>1. k \in DOMAIN s /\ todo'[k] = s[k] /\ todo'[1] = s[1]
    BY <1>1, <1>2, <1>4
  <2> QED
    BY <2>1 DEF Prefix
<1>5. CASE k > Len(s)
  <2> DEFINE j == k - Len(s) + 1
  <2>1. j \in DOMAIN todo /\ j >= 2 /\ todo'[k] = todo[j]
    <3>1. k \in Len(s) + 1..Len(todo') /\ Len(s) \in Nat /\ Len(todo) \in Nat
        BY <1>1, <1>2, <1>3, <1>5
    <3>2. j \in 2..Len(todo)
        BY <1>2, <3>1
    <3>3. todo'[k] = todo[j]
        BY <1>2, <3>1
    <3>4. DOMAIN todo = 1..Len(todo)
        BY <1>3
    <3> HIDE DEF j
    <3> QED
        BY <3>1, <3>2, <3>3, <3>4
  <2>2. /\ todo[j] \notin {"clear", "prune"}
        /\ todo[j] = "fill" => j = 2 /\ todo[1] = "prune"
        /\ todo[j] = "append" => j = Len(todo) /\ line \in Line
    BY <2>1 DEF Plan
  <2>3. j = Len(todo) => k = Len(todo')
    BY <1>1, <1>2, <1>3
  <2>4. j = 2 /\ s = <<>> => k = 1
    BY <1>1, <1>2
  <2> HIDE DEF j
  <2> QED
    BY <1>3, <2>1, <2>2, <2>3, <2>4
<1> QED
    BY <1>1, <1>2, <1>4, <1>5

\* What restarting and reloading have to do holds no step that must come first.
LEMMA StartupSteps ==
    Startup \in Seq({"rotate", "retain", "warm", "sync"})
<1> DEFINE X == {"rotate", "retain", "warm", "sync"}
<1>1. <<"rotate">> \in Seq(X) /\ <<"warm">> \in Seq(X) /\ <<"sync">> \in Seq(X)
      /\ Retention \in Seq(X)
    BY DEF Retention
<1> HIDE DEF X
<1>2. \A s, t \in Seq(X) : s \o t \in Seq(X)
    OBVIOUS
<1>3. Warm \in Seq(X)
    BY <1>1, <1>2 DEF Warm
<1>4. Warm \o <<"rotate">> \in Seq(X)
    BY <1>1, <1>2, <1>3
<1>5. (Warm \o <<"rotate">>) \o Retention \in Seq(X)
    BY <1>1, <1>2, <1>4
<1>6. ((Warm \o <<"rotate">>) \o Retention) \o <<"sync">> \in Seq(X)
    BY <1>1, <1>2, <1>5
<1>7. (((Warm \o <<"rotate">>) \o Retention) \o <<"sync">>) \o Warm \in Seq(X)
    BY <1>2, <1>3, <1>6
<1> QED
    BY <1>7 DEF Startup, X
LEMMA ReadSteps ==
    LET s == Retention \o <<"read">>
    IN  /\ s \in Seq({"rotate", "retain", "read"})
        /\ Len(s) = 3 /\ s[1] = "rotate" /\ s[2] = "retain" /\ s[3] = "read"
<1> DEFINE X == {"rotate", "retain", "read"}
           a == Retention
           b == <<"read">>
<1>1. a \in Seq(X) /\ Len(a) = 2 /\ a[1] = "rotate" /\ a[2] = "retain"
    BY DEF Retention
<1>2. b \in Seq(X) /\ Len(b) = 1 /\ b[1] = "read"
    OBVIOUS
<1> HIDE DEF X, a, b
<1>3. /\ a \o b \in Seq(X) /\ Len(a \o b) = 3
      /\ (a \o b)[1] = a[1] /\ (a \o b)[2] = a[2] /\ (a \o b)[3] = b[1]
    BY <1>1, <1>2, ConcatProperties
<1> QED
    BY <1>1, <1>2, <1>3 DEF X, a, b

-----------------------------------------------------------------------------
(* Types.                                                                  *)

LEMMA RewriteType ==
    ASSUME TypeOK, NEW s \in Seq(Line), Rewrite(s)
    PROVE  /\ active' = <<>> /\ out' \in Seq(Line) /\ tip' \in Seq(BodyRec) /\ cut' \in BOOLEAN
           /\ DOMAIN out' = DOMAIN s
           /\ \A k \in DOMAIN s : out'[k].event = s[k].event /\ out'[k].at = s[k].at
                                  /\ out'[k].debug = s[k].debug
<1>1. [k \in 1..Len(s) |-> Body(s[k])] \in Seq(BodyRec) /\ DOMAIN s = 1..Len(s)
    BY BodiesType
<1>2. out' \in {Rechain(s), s} /\ active' = <<>>
    BY DEF Rewrite
<1>3. tip' \in Seq(BodyRec) /\ cut' \in BOOLEAN
    BY <1>1 DEF Rewrite, TypeOK
<1> QED
    BY <1>2, <1>3, RechainType

LEMMA ChainFieldsType ==
    ASSUME TypeOK, NEW b \in BodyRec, ChainFields(b)
    PROVE  line' \in Line /\ line'.event = b.event /\ line'.at = b.at /\ tip' \in Seq(BodyRec)
<1>1. tip \in Seq(BodyRec)
    BY DEF TypeOK
<1>2. CASE policy.chain
    BY <1>1, <1>2, LinkType DEF ChainFields
<1>3. CASE ~policy.chain
    BY <1>1, <1>3, UnchainedType DEF ChainFields
<1> QED
    BY <1>2, <1>3

LEMMA BackupType ==
    ASSUME TypeOK, NEW n \in Backups, NEW rows \in SUBSET BodyRec, AddRows(n, rows)
    PROVE  /\ backups' \in [Backups -> [mtime : Nat, rows : SUBSET BodyRec]]
           /\ backups'[n] = [mtime |-> now, rows |-> backups[n].rows \cup rows]
           /\ \A m \in Backups \ {n} : backups'[m] = backups[m]
           /\ rows \subseteq backups'[n].rows
           /\ \A m \in Backups : backups[m].rows \subseteq backups'[m].rows
<1>1. /\ backups \in [Backups -> [mtime : Nat, rows : SUBSET BodyRec]]
      /\ now \in Nat
    BY SizeAssumption DEF TypeOK
<1>2. backups' = [backups EXCEPT ![n] = [mtime |-> now, rows |-> backups[n].rows \cup rows]]
    BY DEF AddRows
<1>3. [mtime |-> now, rows |-> backups[n].rows \cup rows] \in [mtime : Nat, rows : SUBSET BodyRec]
    BY <1>1
<1>4. /\ backups' \in [Backups -> [mtime : Nat, rows : SUBSET BodyRec]]
      /\ backups'[n] = [mtime |-> now, rows |-> backups[n].rows \cup rows]
      /\ \A m \in Backups \ {n} : backups'[m] = backups[m]
    BY <1>1, <1>2, <1>3
<1>5. backups'[n].rows = backups[n].rows \cup rows
    BY <1>4
<1> QED
    BY <1>4, <1>5

LEMMA TodayType == TypeOK => Today \in Days
BY DEF TypeOK, Today, Days

LEMMA ActiveBodies ==
    ASSUME TypeOK
    PROVE  {Body(l) : l \in Elems(active)} \in SUBSET BodyRec
<1>1. \A l \in Elems(active) : l \in Line
    BY DEF TypeOK, Elems
<1> QED
    BY <1>1, BodyType

Typed == TypeOK /\ Plan

\* A step of a handler that leaves no type to the reader's care but the variables named.
LEMMA RunningStep ==
    ASSUME Typed, ~Idle, NEW s, Prefix(s), Then(s), line' = line,
           Head(todo) = "prune" => s = <<>>
    PROVE  Plan' /\ todo' \in Seq(Steps)
<1>1. s \in Seq(Steps)
    BY DEF Prefix
<1> QED
    BY <1>1, PlanStep, ThenSteps DEF Typed

\* The record ends with its line, unless retention follows.
LEMMA AppendEnds ==
    ASSUME Typed, AppendLine
    PROVE  line \in Line /\ \E s \in {<<>>, Retention} : todo' = s
<1>1. PICK s \in {<<>>, Retention} : Then(s)
    BY DEF AppendLine
<1>2. todo \in Seq(Steps) /\ todo # <<>> /\ todo[1] = "append"
    BY DEF AppendLine, Doing, Idle, Typed, TypeOK
<1>3. line \in Line /\ Len(todo) = 1
  <2>1. 1 \in DOMAIN todo
    BY <1>2
  <2> QED
    BY <1>2, <2>1 DEF Typed, Plan
<1>4. Tail(todo) \in Seq(Steps) /\ Len(Tail(todo)) = 0
    BY <1>2, <1>3
<1>5. Tail(todo) = <<>>
    BY <1>4, EmptySeq
<1>6. s \in Seq(Steps)
    BY Prefixes DEF Prefix
<1> QED
    BY <1>1, <1>3, <1>5, <1>6, ConcatEmptySeq DEF Then

LEMMA TypeInit == Init => Typed
<1> SUFFICES ASSUME Init PROVE Typed
    OBVIOUS
<1> USE DEF Init
<1>1. Start \in Nat /\ MaxTime \in Nat /\ Start <= MaxTime /\ 0 \in Nat
    BY SizeAssumption
<1>2. PICK s \in Shuffles(Legacy) :
        active = [k \in DOMAIN s |-> Unchained([event |-> s[k], at |-> 0, debug |-> s[k].debug])]
    OBVIOUS
<1>3. active \in Seq(Line)
  <2>1. PICK n \in 0..Cardinality(Legacy) : s \in [1..n -> Legacy]
    BY DEF Shuffles
  <2>2. \A e \in Legacy : [event |-> e, at |-> 0, debug |-> e.debug] \in BodyRec
    BY EventAssumption DEF BodyRec, Event
  <2>3. \A k \in 1..n : Unchained([event |-> s[k], at |-> 0, debug |-> s[k].debug]) \in Line
    BY <2>1, <2>2, UnchainedType
  <2>4. n \in Nat /\ DOMAIN s = 1..n
    BY <2>1
  <2> DEFINE L(k) == Unchained([event |-> s[k], at |-> 0, debug |-> s[k].debug])
  <2>5. active = [k \in 1..n |-> L(k)]
    BY <1>2, <2>4
  <2>6. \A k \in 1..n : L(k) \in Line
    BY <2>3
  <2> HIDE DEF L
  <2> QED
    BY <2>4, <2>5, <2>6
<1>4. backups \in [Backups -> [mtime : Nat, rows : SUBSET BodyRec]]
    OBVIOUS
<1>5. /\ policy = DefaultPolicy /\ tip \in Seq(BodyRec) /\ buffer \in Seq(BodyRec)
      /\ Len(buffer) <= BufferSize /\ since \in 0..PruneEvery - 1
    BY SizeAssumption DEF FreshMemory
<1>6. todo \in Seq(Steps) /\ \A k \in DOMAIN todo : todo[k] \in {"rotate", "retain", "warm", "sync"}
    BY StartupSteps DEF Steps
<1>7. stamp \in [Events -> Nat \cup {NoDay}]
    OBVIOUS
<1>8. out \in Seq(Line) /\ crashes \in 0..MaxCrashes
    BY SizeAssumption
<1>9. Plan
    BY <1>6 DEF Plan
<1> QED
  <2>1. now \in 0..MaxTime /\ marker \in Days \cup {NoDay} /\ filePolicy \in Policies
        /\ line \in Line \cup {NoHash} /\ cut \in BOOLEAN
    <3>1. now \in 0..MaxTime
        BY <1>1
    <3>2. marker \in Days \cup {NoDay} /\ filePolicy \in Policies
        OBVIOUS
    <3>3. line \in Line \cup {NoHash}
        OBVIOUS
    <3>4. cut \in BOOLEAN
        OBVIOUS
    <3> QED
        BY <3>1, <3>2, <3>3, <3>4
  <2> HIDE DEF Init
  <2> QED
    BY <1>3, <1>4, <1>5, <1>6, <1>7, <1>8, <1>9, <2>1 DEF Typed, TypeOK

LEMMA TypeStep == Typed /\ [Next]_vars => Typed'
<1> SUFFICES ASSUME Typed, [Next]_vars PROVE Typed'
    OBVIOUS
<1> USE DEF Typed, disk, memory, observers
<1>0. /\ now \in Nat /\ MaxTime \in Nat /\ BufferSize \in Nat \ {0} /\ PruneEvery \in Nat \ {0}
      /\ active \in Seq(Line) /\ out \in Seq(Line) /\ buffer \in Seq(BodyRec)
      /\ todo \in Seq(Steps)
    BY SizeAssumption DEF TypeOK
<1>1. ASSUME NEW e \in Events, Record(e) PROVE Typed'
  <2> DEFINE b == [event |-> e, at |-> now, debug |-> e.debug]
  <2>1. b \in BodyRec
    BY <1>0, EventAssumption DEF BodyRec, Event
  <2>2. buffer' = LastN(Append(buffer, b), BufferSize) /\ ChainFields(b) /\ todo' = <<"rotate", "append">>
    BY <1>1 DEF Record
  <2> HIDE DEF b
  <2>3. Append(buffer, b) \in Seq(BodyRec)
    BY <1>0, <2>1
  <2>4. buffer' \in Seq(BodyRec) /\ Len(buffer') <= BufferSize
    BY <1>0, <2>2, <2>3, LastNType
  <2>5. line' \in Line /\ tip' \in Seq(BodyRec)
    BY <2>1, <2>2, ChainFieldsType
  <2>6. todo' \in Seq(Steps) /\ Plan'
    BY <2>2, <2>5 DEF Plan, Steps
  <2>7. UNCHANGED <<now, active, marker, backups, filePolicy, policy, since, out, cut, stamp, crashes>>
    BY <1>1 DEF Record
  <2> QED
    BY <2>4, <2>5, <2>6, <2>7 DEF TypeOK
<1>2. CASE Read
  <2>1. todo' \in Seq({"rotate", "retain", "read"})
    BY <1>2, ReadSteps DEF Read
  <2>2. todo' \in Seq(Steps) /\ \A k \in DOMAIN todo' : todo'[k] \in {"rotate", "retain", "read"}
    BY <2>1 DEF Steps
  <2>3. Plan'
    BY <2>2 DEF Plan
  <2> QED
    BY <1>2, <2>2, <2>3 DEF Read, TypeOK
<1>3. CASE ReloadPolicy
  <2>1. todo' = <<"sync">>
    BY <1>3 DEF ReloadPolicy
  <2>2. todo' \in Seq(Steps) /\ Plan'
    BY <2>1 DEF Plan, Steps
  <2> QED
    BY <1>3, <2>2 DEF ReloadPolicy, TypeOK
<1>4. CASE EditPolicy
    BY <1>4 DEF EditPolicy, TypeOK, Plan
<1>5. CASE Tick
  <2>1. now' \in 0..MaxTime
    BY <1>0, <1>5 DEF Tick
  <2> QED
    BY <1>5, <2>1 DEF Tick, TypeOK, Plan
<1>6. CASE Restart
  <2>1. crashes' \in 0..MaxCrashes
    BY <1>6, SizeAssumption DEF Restart, TypeOK
  <2>2. /\ policy' = DefaultPolicy /\ tip' \in Seq(BodyRec) /\ buffer' \in Seq(BodyRec)
        /\ Len(buffer') <= BufferSize /\ since' \in 0..PruneEvery - 1
    BY <1>0, <1>6 DEF Restart, FreshMemory
  <2>3. todo' \in Seq({"rotate", "retain", "warm", "sync"})
    BY <1>6, StartupSteps DEF Restart
  <2>4. todo' \in Seq(Steps) /\ \A k \in DOMAIN todo' : todo'[k] \in {"rotate", "retain", "warm", "sync"}
    BY <2>3 DEF Steps
  <2>5. Plan'
    BY <2>4 DEF Plan
  <2> QED
    BY <1>6, <2>1, <2>2, <2>4, <2>5 DEF Restart, TypeOK
<1>7. CASE SkipRotation
  <2>1. Plan' /\ todo' \in Seq(Steps)
    BY <1>7, Prefixes, RunningStep DEF SkipRotation, Doing
  <2>2. marker' \in Days \cup {NoDay}
    BY <1>7, TodayType DEF SkipRotation, TypeOK
  <2> QED
    BY <1>7, <2>1, <2>2 DEF SkipRotation, TypeOK
<1>8. CASE CopyOut
  <2>1. Plan' /\ todo' \in Seq(Steps)
    BY <1>8, Prefixes, RunningStep DEF CopyOut, Doing
  <2>2. <<"day", marker>> \in Backups
    BY <1>8 DEF CopyOut, RotationDue, TypeOK, Backups
  <2>3. backups' \in [Backups -> [mtime : Nat, rows : SUBSET BodyRec]]
    BY <1>8, <2>2, ActiveBodies, BackupType DEF CopyOut
  <2> QED
    BY <1>8, <2>1, <2>3 DEF CopyOut, TypeOK
<1>9. CASE Clear
  <2>1. Plan' /\ todo' \in Seq(Steps)
    BY <1>9, Prefixes, RunningStep DEF Clear, Doing
  <2>2. tip' \in Seq(BodyRec) /\ cut' \in BOOLEAN /\ active' \in Seq(Line)
    BY <1>9 DEF Clear, TypeOK
  <2> QED
    BY <1>9, <2>1, <2>2 DEF Clear, TypeOK
<1>10. CASE Sweep
  <2>1. Plan' /\ todo' \in Seq(Steps)
    BY <1>10, Prefixes, RunningStep DEF Sweep, Doing
  <2>2. backups' \in [Backups -> [mtime : Nat, rows : SUBSET BodyRec]]
    <3>1. backups \in [Backups -> [mtime : Nat, rows : SUBSET BodyRec]]
        BY DEF TypeOK
    <3>2. \A n \in Backups : [backups[n] EXCEPT !.rows = {}] \in [mtime : Nat, rows : SUBSET BodyRec]
        BY <3>1
    <3> QED
        BY <1>10, <3>1, <3>2 DEF Sweep
  <2> QED
    BY <1>10, <2>1, <2>2 DEF Sweep, TypeOK
<1>11. CASE Mark
  <2>1. Plan' /\ todo' \in Seq(Steps)
    BY <1>11, Prefixes, RunningStep DEF Mark, Doing
  <2> QED
    BY <1>11, <2>1, TodayType DEF Mark, TypeOK
<1>12. CASE AppendLine
  <2>1. PICK s \in {<<>>, Retention} : todo' = s
    BY <1>12, AppendEnds
  <2>3. line \in Line
    BY <1>12, AppendEnds
  <2>6. todo' \in Seq(Steps) /\ Plan'
    BY <2>1, Prefixes DEF Prefix, Plan
  <2>7. active' \in Seq(Line)
    BY <1>0, <1>12, <2>3 DEF AppendLine
  <2>8. stamp' \in [Events -> Nat \cup {NoDay}]
    BY <1>12, <2>3 DEF AppendLine, TypeOK, Line
  <2>9. since' \in 0..PruneEvery - 1
    BY <1>0, <1>12 DEF AppendLine, TypeOK
  <2> QED
    BY <1>12, <2>6, <2>7, <2>8, <2>9 DEF AppendLine, TypeOK
<1>13. CASE Fill
  <2>1. Plan' /\ todo' \in Seq(Steps)
    BY <1>13, Prefixes, RunningStep DEF Fill, Doing
  <2>2. active' \in Seq(Line) /\ out' \in Seq(Line)
    BY <1>0, <1>13 DEF Fill
  <2> QED
    BY <1>13, <2>1, <2>2 DEF Fill, TypeOK
<1>14. CASE Retain
  <2>1. Plan' /\ todo' \in Seq(Steps)
    BY <1>14, Prefixes, RunningStep DEF Retain, Doing
  <2>2. backups' \in [Backups -> [mtime : Nat, rows : SUBSET BodyRec]]
    <3> DEFINE old == {b \in {Body(l) : l \in Elems(active)} : Expired(b)}
    <3>1. old \in SUBSET BodyRec
        BY ActiveBodies
    <3>2. <<"pruned", Today>> \in Backups
        BY TodayType DEF Backups
    <3>3. backups' = backups \/ AddRows(<<"pruned", Today>>, old)
        BY <1>14 DEF Retain
    <3> HIDE DEF old
    <3>4. CASE backups' = backups
        BY <3>4 DEF TypeOK
    <3> QED
        BY <3>1, <3>2, <3>3, <3>4, BackupType
  <2> QED
    BY <1>14, <2>1, <2>2 DEF Retain, TypeOK
<1>15. CASE Prune
  <2>1. Plan' /\ todo' \in Seq(Steps)
    BY <1>15, Prefixes, RunningStep DEF Prune, Doing
  <2>2. PICK kept \in Kept(active, Fresh(active)) : Rewrite(kept)
    BY <1>15 DEF Prune
  <2>3. Fresh(active) \in SUBSET (DOMAIN active)
    BY DEF Fresh
  <2>4. kept \in Seq(Line)
    BY <1>0, <2>3, KeptElements
  <2>5. active' = <<>> /\ out' \in Seq(Line) /\ tip' \in Seq(BodyRec) /\ cut' \in BOOLEAN
    BY <2>2, <2>4, RewriteType
  <2> QED
    BY <1>15, <2>1, <2>5 DEF Prune, TypeOK
<1>16. CASE Trim
  <2>1. Plan' /\ todo' \in Seq(Steps)
    BY <1>16, Prefixes, RunningStep DEF Trim, Doing
  <2>2. Fresh(buffer) \in SUBSET (DOMAIN buffer)
    BY DEF Fresh
  <2>3. buffer' \in Seq(BodyRec) /\ Len(buffer') <= Len(buffer)
    BY <1>0, <1>16, <2>2, KeptElements DEF Trim
  <2>4. Len(buffer') <= BufferSize
    BY <1>0, <2>3 DEF TypeOK
  <2> QED
    BY <1>16, <2>1, <2>3, <2>4 DEF Trim, TypeOK
<1>17. CASE StripMemory
  <2>1. Plan' /\ todo' \in Seq(Steps)
    BY <1>17, Prefixes, RunningStep DEF StripMemory, Doing
  <2>2. \A k \in DOMAIN buffer : Stripped(buffer[k]) \in BodyRec
    BY <1>0, StrippedType
  <2>3. buffer' = [k \in 1..Len(buffer) |-> Stripped(buffer[k])]
    BY <1>0, <1>17 DEF StripMemory
  <2>4. buffer' \in Seq(BodyRec) /\ Len(buffer') = Len(buffer)
    BY <1>0, <2>2, <2>3
  <2> QED
    BY <1>17, <2>1, <2>4 DEF StripMemory, TypeOK
<1>18. CASE Strip
  <2>1. PICK s : Prefix(s) /\ Then(s)
    BY <1>18, Prefixes DEF Strip
  <2>2. Plan' /\ todo' \in Seq(Steps)
    BY <1>18, <2>1, RunningStep DEF Strip, Doing
  <2> DEFINE r == [k \in DOMAIN active |-> Stripped(active[k])]
  <2>3. r \in Seq(Line)
    <3>1. \A k \in 1..Len(active) : Stripped(active[k]) \in Line
        BY <1>0, StrippedType
    <3> QED
        BY <1>0, <3>1
  <2>4. \E q \in Seq(Line) : Rewrite(q) \/ UNCHANGED <<active, tip, out, cut>>
    BY <1>18, <2>3 DEF Strip
  <2>5. active' \in Seq(Line) /\ out' \in Seq(Line) /\ tip' \in Seq(BodyRec) /\ cut' \in BOOLEAN
    <3>0. PICK q \in Seq(Line) : Rewrite(q) \/ UNCHANGED <<active, tip, out, cut>>
        BY <2>4
    <3>1. CASE Rewrite(q)
      <4>1. active' = <<>> /\ out' \in Seq(Line) /\ tip' \in Seq(BodyRec) /\ cut' \in BOOLEAN
        BY <3>1, RewriteType
      <4> QED
        BY <4>1, EmptySeq
    <3>2. CASE UNCHANGED <<active, tip, out, cut>>
        BY <3>2 DEF TypeOK
    <3> QED
        BY <3>0, <3>1, <3>2
  <2> QED
    BY <1>18, <2>2, <2>5 DEF Strip, TypeOK
<1>19. CASE WarmBuffer
  <2>1. Plan' /\ todo' \in Seq(Steps)
    BY <1>19, Prefixes, RunningStep DEF WarmBuffer, Doing
  <2> DEFINE r == [k \in DOMAIN active |-> Body(active[k])]
  <2>2. r \in Seq(BodyRec)
    <3>1. r = [k \in 1..Len(active) |-> Body(active[k])] /\ Len(active) \in 0..Len(active)
        BY <1>0
    <3> QED
        BY <1>0, <3>1, BodiesType
  <2>3. buffer' = LastN(r, BufferSize)
    BY <1>19 DEF WarmBuffer
  <2> HIDE DEF r
  <2>4. buffer' \in Seq(BodyRec) /\ Len(buffer') <= BufferSize
    BY <1>0, <2>2, <2>3, LastNType
  <2> QED
    BY <1>19, <2>1, <2>4 DEF WarmBuffer, TypeOK
<1>20. CASE Sync
  <2>1. PICK s : Prefix(s) /\ Then(s)
    BY <1>20, Prefixes DEF Sync
  <2>2. Plan' /\ todo' \in Seq(Steps)
    BY <1>20, <2>1, RunningStep DEF Sync, Doing
  <2>3. [k \in DOMAIN active |-> Body(active[k])] \in Seq(BodyRec)
    <3>1. DOMAIN active = 1..Len(active) /\ Len(active) \in 0..Len(active)
        BY <1>0
    <3> QED
        BY <1>0, <3>1, BodiesType
  <2>4. active' \in Seq(Line) /\ out' \in Seq(Line) /\ tip' \in Seq(BodyRec)
    <3>1. Rechain(active) \in Seq(Line) /\ LastHash(active) \in Seq(BodyRec)
        BY <1>0, RechainType, LastHashType
    <3>2. CASE filePolicy.chain /\ Heals(active)
        BY <1>20, <2>3, <3>1, <3>2 DEF Sync
    <3>3. CASE ~(filePolicy.chain /\ Heals(active))
      <4>1. active' = active /\ out' = out
        BY <1>20, <3>3 DEF Sync
      <4>2. tip' \in {LastHash(active), <<>>}
        BY <1>20, <3>3 DEF Sync
      <4>3. <<>> \in Seq(BodyRec)
        BY EmptySeq
      <4> QED
        BY <1>0, <3>1, <4>1, <4>2, <4>3
    <3> QED
        BY <3>2, <3>3
  <2>5. cut' \in BOOLEAN /\ policy' \in Policies
    BY <1>20 DEF Sync, TypeOK
  <2> QED
    BY <1>20, <2>2, <2>4, <2>5 DEF Sync, TypeOK
<1>21. CASE Answer
  <2>1. Plan' /\ todo' \in Seq(Steps)
    BY <1>21, Prefixes, RunningStep DEF Answer, Doing
  <2> QED
    BY <1>21, <2>1 DEF Answer, TypeOK
<1>22. CASE UNCHANGED vars
    BY <1>22 DEF vars, TypeOK, Plan
<1> QED
    BY <1>1, <1>2, <1>3, <1>4, <1>5, <1>6, <1>7, <1>8, <1>9, <1>10, <1>11, <1>12, <1>13,
       <1>14, <1>15, <1>16, <1>17, <1>18, <1>19, <1>20, <1>21, <1>22 DEF Next, Step

\* Every reachable state of the audit log is well typed.
THEOREM TypeCorrect == Spec => []TypeOK
<1>1. Spec => []Typed
    BY TypeInit, TypeStep, PTL DEF Spec
<1>2. Typed => TypeOK
    BY DEF Typed
<1> QED
    BY <1>1, <1>2, PTL
-----------------------------------------------------------------------------
(* Rewrites of audit.jsonl.                                                *)

\* Between the truncation and the write that follows, and only there, the lines
\* are in `out`.
Filling ==
    /\ out # <<>> => Doing("fill")
    /\ Doing("fill") => active = <<>>
    /\ Doing("prune") => Len(todo) >= 2 /\ todo[2] = "fill"

\* What is next once the head of the list has been replaced by s.
LEMMA HeadAfter ==
    ASSUME Typed, ~Idle, NEW s, Prefix(s), Then(s)
    PROVE  /\ s # <<>> => /\ todo' # <<>> /\ Head(todo') = s[1]
                          /\ Len(s) >= 2 => Len(todo') >= 2 /\ todo'[2] = s[2]
           /\ s = <<>> /\ todo' # <<>> =>
                /\ Len(todo) >= 2 /\ Head(todo') = todo[2]
                /\ Head(todo') \notin {"clear", "prune"}
                /\ Head(todo') = "fill" => Head(todo) = "prune"
<1>1. /\ s \in Seq(Steps) /\ todo \in Seq(Steps) /\ todo # <<>> /\ Head(todo) = todo[1]
      /\ Len(s) \in Nat /\ Len(todo) \in Nat \ {0} /\ DOMAIN todo = 1..Len(todo)
    BY EmptySeq DEF Prefix, Typed, TypeOK, Idle
<1>2. /\ todo' \in Seq(Steps) /\ Len(todo') = Len(s) + Len(todo) - 1
      /\ \A k \in 1..Len(s) : todo'[k] = s[k]
      /\ \A k \in Len(s) + 1..Len(todo') : todo'[k] = todo[k - Len(s) + 1]
    BY <1>1, ThenSteps DEF Typed
<1>3. todo' # <<>> => Len(todo') \in Nat \ {0} /\ Head(todo') = todo'[1]
    BY <1>2, EmptySeq
<1>4. ASSUME s # <<>>
      PROVE  /\ todo' # <<>> /\ Head(todo') = s[1]
             /\ Len(s) >= 2 => Len(todo') >= 2 /\ todo'[2] = s[2]
  <2>1. Len(s) >= 1
    BY <1>1, <1>4, EmptySeq
  <2>2. Len(todo') >= 1 /\ todo'[1] = s[1]
    BY <1>1, <1>2, <2>1
  <2>3. todo' # <<>>
    BY <2>2, EmptySeq
  <2>4. Len(s) >= 2 => Len(todo') >= 2 /\ todo'[2] = s[2]
    BY <1>1, <1>2
  <2> QED
    BY <1>3, <2>2, <2>3, <2>4
<1>5. ASSUME s = <<>>, todo' # <<>>
      PROVE  /\ Len(todo) >= 2 /\ Head(todo') = todo[2]
             /\ Head(todo') \notin {"clear", "prune"}
             /\ Head(todo') = "fill" => Head(todo) = "prune"
  <2>1. Len(s) = 0
    BY <1>5, EmptySeq
  <2>2. Len(todo) >= 2 /\ Head(todo') = todo[2]
    BY <1>1, <1>2, <1>3, <1>5, <2>1
  <2>3. 2 \in DOMAIN todo
    BY <1>1, <2>2
  <2> QED
    BY <1>1, <2>2, <2>3 DEF Typed, Plan
<1> QED
    BY <1>4, <1>5

\* A step that ends without rewriting the file.
LEMMA QuietStep ==
    ASSUME Typed, Filling, ~Idle, Head(todo) \notin {"prune", "fill"},
           Then(<<>>), out' = out
    PROVE  Filling' /\ out' = <<>> /\ ~Doing("clear")' /\ ~Doing("prune")' /\ ~Doing("fill")'
<1>1. out = <<>>
    BY DEF Filling, Doing
<1>2. todo' # <<>> => Head(todo') \notin {"clear", "prune", "fill"}
    BY Prefixes, HeadAfter
<1> QED
    BY <1>1, <1>2 DEF Filling, Doing, Idle

LEMMA StartupHead == Startup # <<>> => Head(Startup) \in {"rotate", "retain", "warm", "sync"}
BY StartupSteps

LEMMA FillingInit == Init => Filling
BY StartupHead DEF Init, Filling, Doing, Idle

LEMMA FillingStep == Typed /\ Filling /\ [Next]_vars => Filling'
<1> SUFFICES ASSUME Typed, Filling, [Next]_vars PROVE Filling'
    OBVIOUS
<1> USE DEF disk, memory, observers
<1>1. ASSUME NEW e \in Events, Record(e) PROVE Filling'
  <2>1. todo' # <<>> /\ Head(todo') = "rotate" /\ out' = <<>>
    BY <1>1 DEF Record, Filling, Doing
  <2> QED
    BY <2>1 DEF Filling, Doing, Idle
<1>2. CASE Read
  <2>1. todo' # <<>> /\ Head(todo') = "rotate" /\ out' = <<>>
    BY <1>2, ReadSteps, EmptySeq DEF Read, Filling, Doing
  <2> QED
    BY <2>1 DEF Filling, Doing, Idle
<1>3. CASE ReloadPolicy
  <2>1. todo' # <<>> /\ Head(todo') = "sync" /\ out' = <<>>
    BY <1>3 DEF ReloadPolicy, Filling, Doing
  <2> QED
    BY <2>1 DEF Filling, Doing, Idle
<1>4. CASE EditPolicy
    BY <1>4 DEF EditPolicy, Filling, Doing, Idle
<1>5. CASE Tick
    BY <1>5 DEF Tick, Filling, Doing, Idle
<1>6. CASE Restart
    BY <1>6, StartupHead DEF Restart, Filling, Doing, Idle
<1>7. CASE SkipRotation \/ Clear \/ Sweep \/ Mark \/ Trim \/ StripMemory \/ WarmBuffer \/ Answer
    BY <1>7, QuietStep
       DEF SkipRotation, Clear, Sweep, Mark, Trim, StripMemory, WarmBuffer, Answer, Doing
<1>8. CASE CopyOut
  <2>1. todo' # <<>> /\ Head(todo') = "clear"
    BY <1>8, Prefixes, HeadAfter DEF CopyOut, Doing
  <2>2. out' = <<>>
    BY <1>8 DEF CopyOut, Filling, Doing
  <2> QED
    BY <2>1, <2>2 DEF Filling, Doing, Idle
<1>9. CASE AppendLine
  <2>1. PICK s \in {<<>>, Retention} : Then(s)
    BY <1>9 DEF AppendLine
  <2>2. todo' # <<>> => Head(todo') \notin {"prune", "fill"}
    BY <1>9, <2>1, Prefixes, HeadAfter DEF AppendLine, Doing, Retention
  <2>3. out' = <<>>
    BY <1>9 DEF AppendLine, Filling, Doing
  <2> QED
    BY <2>2, <2>3 DEF Filling, Doing, Idle
<1>10. CASE Fill
  <2>1. todo' # <<>> => Head(todo') \notin {"prune", "fill"}
    BY <1>10, Prefixes, HeadAfter DEF Fill, Doing
  <2>2. out' = <<>>
    BY <1>10 DEF Fill
  <2> QED
    BY <2>1, <2>2 DEF Filling, Doing, Idle
<1>11. CASE Retain
  <2>1. PICK s \in {<<"strip_memory", "strip">>, <<"trim", "strip_memory", "strip", "sweep">>,
                    <<"prune", "fill", "trim", "strip_memory", "strip", "sweep">>} : Then(s)
    BY <1>11 DEF Retain
  <2>2. out' = <<>>
    BY <1>11 DEF Retain, Filling, Doing
  <2>3. todo' # <<>> /\ Head(todo') = s[1] /\ s # <<>>
    BY <1>11, <2>1, Prefixes, HeadAfter DEF Retain, Doing
  <2>4. s[1] # "fill"
    BY <2>1
  <2>5. s[1] = "prune" => s[2] = "fill" /\ Len(s) >= 2
    BY <2>1
  <2>6. s[1] = "prune" => Len(todo') >= 2 /\ todo'[2] = "fill"
    BY <1>11, <2>1, <2>5, Prefixes, HeadAfter DEF Retain, Doing
  <2> QED
    BY <2>2, <2>3, <2>4, <2>6 DEF Filling, Doing, Idle
<1>12. CASE Prune
  <2>1. active' = <<>>
    BY <1>12 DEF Prune, Rewrite
  <2>2. Len(todo) >= 2 /\ todo[2] = "fill"
    BY <1>12 DEF Prune, Filling
  <2>3. <<>> \in Seq(Steps) /\ Len(<<>>) = 0
    BY EmptySeq
  <2>4. Len(todo') = Len(todo) - 1
    <3>1. Len(todo') = Len(<<>>) + Len(todo) - 1
        BY <1>12, <2>3, ThenSteps DEF Prune, Doing, Typed
    <3>2. Len(todo) \in Nat
        BY DEF Typed, TypeOK
    <3> QED
        BY <2>3, <3>1, <3>2
  <2>5. todo' # <<>>
    BY <2>2, <2>3, <2>4
  <2>6. Head(todo') = "fill"
    BY <1>12, <2>2, <2>5, Prefixes, HeadAfter DEF Prune, Doing
  <2> QED
    BY <2>1, <2>5, <2>6 DEF Filling, Doing, Idle
<1>13. CASE Strip
  <2>1. CASE \E l \in Elems(active) : DebugExpired(l)
    <3>1. active' = <<>> /\ Then(<<"fill">>)
        BY <1>13, <2>1 DEF Strip, Rewrite
    <3>2. todo' # <<>> /\ Head(todo') = "fill"
        BY <1>13, <3>1, Prefixes, HeadAfter DEF Strip, Doing
    <3> QED
        BY <3>1, <3>2 DEF Filling, Doing, Idle
  <2>2. CASE ~\E l \in Elems(active) : DebugExpired(l)
    BY <1>13, <2>2, QuietStep DEF Strip, Doing
  <2> QED
    BY <2>1, <2>2
<1>14. CASE Sync
  <2>1. CASE filePolicy.chain /\ Heals(active)
    <3>1. active' = <<>> /\ Then(<<"fill">>)
        BY <1>14, <2>1 DEF Sync
    <3>2. todo' # <<>> /\ Head(todo') = "fill"
        BY <1>14, <3>1, Prefixes, HeadAfter DEF Sync, Doing
    <3> QED
        BY <3>1, <3>2 DEF Filling, Doing, Idle
  <2>2. CASE ~(filePolicy.chain /\ Heals(active))
    BY <1>14, <2>2, QuietStep DEF Sync, Doing
  <2> QED
    BY <2>1, <2>2
<1>15. CASE UNCHANGED vars
    BY <1>15 DEF vars, Filling, Doing, Idle
<1> QED
    BY <1>1, <1>2, <1>3, <1>4, <1>5, <1>6, <1>7, <1>8, <1>9, <1>10, <1>11, <1>12, <1>13,
       <1>14, <1>15 DEF Next, Step
-----------------------------------------------------------------------------
(* When events were written.                                               *)

Waiting == \E k \in DOMAIN todo : todo[k] = "append"

\* A stored event has its time; a backup is as young as its youngest row; the
\* event of a record under way is not stored yet.
Stamps ==
    /\ \A e \in Events : stamp[e] = NoDay \/ stamp[e] <= now
    /\ \A l \in Elems(active) \cup Elems(out) : stamp[l.event] \in Nat
    /\ \A n \in Backups : \A b \in backups[n].rows :
         stamp[b.event] \in Nat /\ stamp[b.event] <= backups[n].mtime
    /\ Waiting => stamp[line.event] = NoDay /\ line.at <= now

LEMMA WaitingKept ==
    ASSUME Typed, ~Idle, NEW s, Prefix(s), Then(s), Waiting'
    PROVE  Waiting
<1>1. s \in Seq(Steps) /\ todo \in Seq(Steps)
    BY DEF Prefix, Typed, TypeOK
<1>2. /\ todo' \in Seq(Steps) /\ Len(todo') = Len(s) + Len(todo) - 1
      /\ \A k \in 1..Len(s) : todo'[k] = s[k]
      /\ \A k \in Len(s) + 1..Len(todo') : todo'[k] = todo[k - Len(s) + 1]
    BY <1>1, ThenSteps DEF Typed
<1>3. PICK k \in DOMAIN todo' : todo'[k] = "append"
    BY DEF Waiting
<1>4. k \in 1..Len(todo') /\ Len(s) \in Nat /\ Len(todo) \in Nat
    BY <1>1, <1>2
<1>5. ~(k <= Len(s))
  <2>1. ASSUME k <= Len(s) PROVE FALSE
    <3>1. k \in 1..Len(s) /\ k \in DOMAIN s
        BY <1>1, <1>4, <2>1
    <3> QED
        BY <1>2, <1>3, <3>1 DEF Prefix
  <2> QED
    BY <2>1
<1>6. k \in Len(s) + 1..Len(todo')
    BY <1>4, <1>5
<1> DEFINE j == k - Len(s) + 1
<1>7. j \in 1..Len(todo) /\ todo[j] = "append"
  <2>1. j \in 1..Len(todo)
    BY <1>2, <1>4, <1>6
  <2>2. todo'[k] = todo[j]
    BY <1>2, <1>6
  <2> QED
    BY <1>3, <2>1, <2>2
<1>8. j \in DOMAIN todo
    BY <1>1, <1>7
<1> QED
    BY <1>7, <1>8 DEF Waiting

\* A rewrite keeps the events of the lines it is given, and when they happened.
LEMMA RewriteElems ==
    ASSUME TypeOK, NEW s \in Seq(Line), Rewrite(s)
    PROVE  /\ active' = <<>> /\ out' \in Seq(Line)
           /\ \A l \in Elems(out') : \E k \in Elems(s) :
                l.event = k.event /\ l.at = k.at /\ l.debug = k.debug
           /\ \A k \in Elems(s) : \E l \in Elems(out') : l.event = k.event
<1>1. active' = <<>> /\ out' \in Seq(Line) /\ DOMAIN out' = DOMAIN s
      /\ \A k \in DOMAIN s : out'[k].event = s[k].event /\ out'[k].at = s[k].at
                             /\ out'[k].debug = s[k].debug
    BY RewriteType
<1> QED
    BY <1>1 DEF Elems

\* What pruning, stripping and re-anchoring do to the events of the file.
LEMMA PruneElems ==
    ASSUME Typed, Prune
    PROVE  /\ active' = <<>>
           /\ \A l \in Elems(out') : \E k \in Elems(active) :
                l.event = k.event /\ l.at = k.at /\ l.debug = k.debug /\ ~Expired(k)
           /\ \A k \in Elems(active) : ~Expired(k) => \E l \in Elems(out') : l.event = k.event
<1>1. active \in Seq(Line)
    BY DEF Typed, TypeOK
<1>2. PICK kept \in Kept(active, Fresh(active)) : Rewrite(kept)
    BY DEF Prune
<1>3. Fresh(active) \in SUBSET (DOMAIN active)
    BY DEF Fresh
<1>4. /\ kept \in Seq(Line)
      /\ \A k \in DOMAIN kept : \E j \in Fresh(active) : kept[k] = active[j]
      /\ \A j \in Fresh(active) : \E k \in DOMAIN kept : kept[k] = active[j]
    BY <1>1, <1>3, KeptElements
<1>5. /\ active' = <<>>
      /\ \A l \in Elems(out') : \E k \in Elems(kept) :
            l.event = k.event /\ l.at = k.at /\ l.debug = k.debug
      /\ \A k \in Elems(kept) : \E l \in Elems(out') : l.event = k.event
    BY <1>2, <1>4, RewriteElems DEF Typed
<1>6. \A k \in Elems(kept) : k \in Elems(active) /\ ~Expired(k)
    BY <1>4 DEF Elems, Fresh
<1>7. \A k \in Elems(active) : ~Expired(k) => k \in Elems(kept)
    BY <1>4 DEF Elems, Fresh
<1> QED
    BY <1>5, <1>6, <1>7

LEMMA StripElems ==
    ASSUME Typed, Strip
    PROVE  \/ active' = active /\ out' = out /\ \A l \in Elems(active) : ~DebugExpired(l)
           \/ /\ active' = <<>>
              /\ \A l \in Elems(out') : \E k \in Elems(active) :
                   l.event = k.event /\ l.at = k.at /\ l.debug = Stripped(k).debug
              /\ \A k \in Elems(active) : \E l \in Elems(out') : l.event = k.event
<1>1. CASE \E l \in Elems(active) : DebugExpired(l)
  <2> DEFINE r == [k \in DOMAIN active |-> Stripped(active[k])]
  <2>0. active \in Seq(Line)
    BY DEF Typed, TypeOK
  <2>1. \A k \in 1..Len(active) : /\ Stripped(active[k]) \in Line
                                  /\ Stripped(active[k]).event = active[k].event
                                  /\ Stripped(active[k]).at = active[k].at
    BY <2>0, StrippedType
  <2>2. r \in Seq(Line) /\ DOMAIN r = DOMAIN active /\ DOMAIN active = 1..Len(active)
    BY <2>0, <2>1
  <2>3. Rewrite(r)
    BY <1>1 DEF Strip
  <2>4. PICK q \in Seq(Line) : q = r /\ Rewrite(q)
    BY <2>2, <2>3
  <2>5. /\ active' = <<>>
        /\ \A l \in Elems(out') : \E k \in Elems(q) :
              l.event = k.event /\ l.at = k.at /\ l.debug = k.debug
        /\ \A k \in Elems(q) : \E l \in Elems(out') : l.event = k.event
    BY <2>4, RewriteElems DEF Typed
  <2>6. \A k \in Elems(q) : \E l \in Elems(active) :
            k.event = l.event /\ k.at = l.at /\ k.debug = Stripped(l).debug
    BY <2>1, <2>2, <2>4 DEF Elems
  <2>7. \A l \in Elems(active) : \E k \in Elems(q) : k.event = l.event
    BY <2>1, <2>2, <2>4 DEF Elems
  <2> HIDE DEF r
  <2>8. \A l \in Elems(out') : \E k \in Elems(active) :
            l.event = k.event /\ l.at = k.at /\ l.debug = Stripped(k).debug
    BY <2>5, <2>6
  <2>9. \A k \in Elems(active) : \E l \in Elems(out') : l.event = k.event
    BY <2>5, <2>7
  <2> QED
    BY <2>5, <2>8, <2>9
<1>2. CASE ~\E l \in Elems(active) : DebugExpired(l)
    BY <1>2 DEF Strip
<1> QED
    BY <1>1, <1>2

LEMMA SyncElems ==
    ASSUME Typed, Sync
    PROVE  \/ active' = active /\ out' = out
           \/ /\ active' = <<>>
              /\ \A l \in Elems(out') : \E k \in Elems(active) : l.event = k.event
              /\ \A k \in Elems(active) : \E l \in Elems(out') : l.event = k.event
<1>1. CASE filePolicy.chain /\ Heals(active)
  <2>1. active' = <<>> /\ out' = Rechain(active)
    BY <1>1 DEF Sync
  <2>2. /\ DOMAIN Rechain(active) = DOMAIN active
        /\ \A k \in DOMAIN active : Rechain(active)[k].event = active[k].event
    BY RechainType DEF Typed, TypeOK
  <2> QED
    BY <2>1, <2>2 DEF Elems
<1>2. CASE ~(filePolicy.chain /\ Heals(active))
    BY <1>2 DEF Sync
<1> QED
    BY <1>1, <1>2

LEMMA LinesAreTyped ==
    Typed => \A l \in Elems(active) \cup Elems(out) : l \in Line /\ l.event \in Events
<1>1. \A l \in Line : l.event \in Events
    BY DEF Line
<1>2. Typed => active \in Seq(Line) /\ out \in Seq(Line)
    BY DEF Typed, TypeOK
<1>3. Typed => \A l \in Elems(active) \cup Elems(out) : l \in Line
    BY <1>2 DEF Elems
<1> QED
    BY <1>1, <1>3

LEMMA StampsInit == Init => Stamps
<1> SUFFICES ASSUME Init PROVE Stamps
    OBVIOUS
<1>1. /\ now = Start /\ Start \in Nat
      /\ backups = [n \in Backups |-> [mtime |-> 0, rows |-> {}]]
      /\ out = <<>>
      /\ stamp = [e \in Events |-> IF \E l \in Elems(active) : l.event = e THEN 0 ELSE NoDay]
    BY SizeAssumption DEF Init
<1>2. Typed
    BY TypeInit
<1>3. \A l \in Elems(active) : l.event \in Events
    BY <1>2, LinesAreTyped
<1>4. \A l \in Elems(active) : stamp[l.event] = 0
    BY <1>1, <1>3
<1>5. ~Waiting
  <2>1. todo = Startup
    BY DEF Init
  <2>2. \A k \in DOMAIN Startup : Startup[k] \in {"rotate", "retain", "warm", "sync"}
    BY StartupSteps
  <2> QED
    BY <2>1, <2>2 DEF Waiting
<1>6. \A e \in Events : stamp[e] = NoDay \/ stamp[e] <= now
    BY <1>1
<1>7. Elems(out) = {}
    BY <1>1 DEF Elems
<1>8. \A n \in Backups : backups[n].rows = {}
    BY <1>1
<1> QED
    BY <1>4, <1>5, <1>6, <1>7, <1>8 DEF Stamps

\* A backup that takes the lines of the file is as young as they are.
LEMMA StampsCopied ==
    ASSUME Typed, Stamps, NEW n \in Backups, NEW rows \in SUBSET {Body(l) : l \in Elems(active)},
           AddRows(n, rows), stamp' = stamp
    PROVE  \A m \in Backups : \A b \in backups'[m].rows :
             stamp'[b.event] \in Nat /\ stamp'[b.event] <= backups'[m].mtime
<1>1. rows \in SUBSET BodyRec
    BY ActiveBodies DEF Typed
<1>2. /\ backups'[n] = [mtime |-> now, rows |-> backups[n].rows \cup rows]
      /\ \A m \in Backups \ {n} : backups'[m] = backups[m]
    BY <1>1, BackupType DEF Typed
<1>3. \A l \in Elems(active) : l \in Line
    BY DEF Typed, TypeOK, Elems
<1>4. \A b \in rows : \E l \in Elems(active) : b.event = l.event /\ l.event \in Events
    BY <1>3, BodyType DEF Line
<1>5. \A b \in rows : stamp[b.event] \in Nat /\ b.event \in Events
    BY <1>4 DEF Stamps
<1>6. \A b \in backups[n].rows : stamp[b.event] \in Nat /\ b.event \in Events
  <2>1. backups[n].rows \subseteq BodyRec
    BY DEF Typed, TypeOK
  <2> QED
    BY <2>1 DEF Stamps, BodyRec
<1>7. \A e \in Events : stamp[e] \in Nat => stamp[e] <= now
    BY SentinelAssumption DEF Stamps
<1>8. \A b \in backups[n].rows \cup rows : stamp[b.event] \in Nat /\ stamp[b.event] <= now
    BY <1>5, <1>6, <1>7
<1> QED
    BY <1>2, <1>8 DEF Stamps

LEMMA StampsStep == Typed /\ Filling /\ Stamps /\ [Next]_vars => Stamps'
<1> SUFFICES ASSUME Typed, Filling, Stamps, [Next]_vars PROVE Stamps'
    OBVIOUS
<1> USE DEF disk, memory, observers
<1>0. /\ now \in Nat
      /\ active \in Seq(Line) /\ out \in Seq(Line) /\ todo \in Seq(Steps)
      /\ \A l \in Elems(active) \cup Elems(out) : l \in Line /\ l.event \in Events
      /\ stamp \in [Events -> Nat \cup {NoDay}]
    BY SizeAssumption, LinesAreTyped DEF Typed, TypeOK
<1>1. ASSUME NEW e \in Events, Record(e) PROVE Stamps'
  <2> DEFINE b == [event |-> e, at |-> now, debug |-> e.debug]
  <2>1. b \in BodyRec /\ b.event = e /\ b.at = now
    BY <1>0, EventAssumption DEF BodyRec, Event
  <2>2. ChainFields(b) /\ stamp[e] = NoDay
    BY <1>1 DEF Record
  <2> HIDE DEF b
  <2>3. line'.event = e /\ line'.at = now
    BY <2>1, <2>2, ChainFieldsType DEF Typed
  <2>4. UNCHANGED <<now, active, backups, out, stamp>>
    BY <1>1 DEF Record
  <2> QED
    BY <1>0, <2>2, <2>3, <2>4 DEF Stamps
<1>2. CASE Read \/ ReloadPolicy
  <2>1. ~Waiting'
    <3>1. CASE Read
      <4>1. todo' \in Seq({"rotate", "retain", "read"})
        BY <3>1, ReadSteps DEF Read
      <4> QED
        BY <4>1 DEF Waiting
    <3>2. CASE ReloadPolicy
        BY <3>2 DEF ReloadPolicy, Waiting
    <3> QED
        BY <1>2, <3>1, <3>2
  <2>2. UNCHANGED <<now, active, backups, out, stamp>>
    BY <1>2 DEF Read, ReloadPolicy
  <2> QED
    BY <2>1, <2>2 DEF Stamps
<1>3. CASE EditPolicy
    BY <1>3 DEF EditPolicy, Stamps, Waiting
<1>4. CASE Tick
  <2>1. now' = now + 1 /\ UNCHANGED <<active, backups, out, stamp, line, todo>>
    BY <1>4 DEF Tick
  <2>2. \A e \in Events : stamp[e] = NoDay \/ stamp[e] <= now + 1
    BY <1>0 DEF Stamps
  <2>3. Waiting => line.at <= now + 1
    <3>1. Waiting => line \in Line
        BY DEF Typed, Plan, Waiting
    <3> QED
        BY <1>0, <3>1 DEF Stamps, Line
  <2> QED
    BY <2>1, <2>2, <2>3 DEF Stamps, Waiting
<1>5. CASE Restart
  <2>1. ~Waiting'
    <3>1. \A k \in DOMAIN Startup : Startup[k] \in {"rotate", "retain", "warm", "sync"}
        BY StartupSteps
    <3> QED
        BY <1>5, <3>1 DEF Restart, Waiting
  <2>2. out' = <<>> /\ UNCHANGED <<now, active, backups, stamp>>
    BY <1>5 DEF Restart
  <2>3. Elems(out') = {}
    BY <2>2 DEF Elems
  <2> QED
    BY <2>1, <2>2, <2>3 DEF Stamps
<1>6. CASE SkipRotation \/ Mark \/ Trim \/ StripMemory \/ WarmBuffer \/ Answer
  <2>1. UNCHANGED <<now, active, backups, out, stamp, line>> /\ Then(<<>>) /\ ~Idle
    BY <1>6 DEF SkipRotation, Mark, Trim, StripMemory, WarmBuffer, Answer, Doing
  <2>2. Waiting' => Waiting
    BY <2>1, Prefixes, WaitingKept
  <2> QED
    BY <2>1, <2>2 DEF Stamps
<1>7. CASE CopyOut
  <2>1. UNCHANGED <<now, active, out, stamp, line>> /\ ~Idle
        /\ Then(<<"clear", "sweep", "mark">>)
    BY <1>7 DEF CopyOut, Doing
  <2>2. Waiting' => Waiting
    BY <2>1, Prefixes, WaitingKept
  <2>3. <<"day", marker>> \in Backups
    BY <1>7 DEF CopyOut, RotationDue, Typed, TypeOK, Backups
  <2>4. AddRows(<<"day", marker>>, {Body(l) : l \in Elems(active)})
    BY <1>7 DEF CopyOut
  <2>5. PICK n \in Backups : \E rows \in SUBSET {Body(l) : l \in Elems(active)} : AddRows(n, rows)
    BY <2>3, <2>4
  <2>6. \A m \in Backups : \A b \in backups'[m].rows :
             stamp'[b.event] \in Nat /\ stamp'[b.event] <= backups'[m].mtime
    BY <2>1, <2>5, StampsCopied
  <2> QED
    BY <2>1, <2>2, <2>6 DEF Stamps
<1>8. CASE Clear
  <2>1. active' = <<>> /\ UNCHANGED <<now, backups, out, stamp, line>> /\ Then(<<>>) /\ ~Idle
    BY <1>8 DEF Clear, Doing
  <2>2. Waiting' => Waiting
    BY <2>1, Prefixes, WaitingKept
  <2>3. Elems(active') = {}
    BY <2>1 DEF Elems
  <2> QED
    BY <2>1, <2>2, <2>3 DEF Stamps
<1>9. CASE Sweep
  <2>1. UNCHANGED <<now, active, out, stamp, line>> /\ Then(<<>>) /\ ~Idle
    BY <1>9 DEF Sweep, Doing
  <2>2. Waiting' => Waiting
    BY <2>1, Prefixes, WaitingKept
  <2>3. \A n \in Backups : backups'[n].rows \subseteq backups[n].rows
                           /\ backups'[n].mtime = backups[n].mtime
    <3>1. \A n \in Backups : backups[n] \in [mtime : Nat, rows : SUBSET BodyRec]
        BY DEF Typed, TypeOK
    <3> QED
        BY <1>9, <3>1 DEF Sweep
  <2> QED
    BY <2>1, <2>2, <2>3 DEF Stamps
<1>10. CASE AppendLine
  <2>1. line \in Line /\ line.event \in Events /\ line.at \in Nat
    BY <1>10, AppendEnds DEF Line
  <2>2. ~Waiting'
    <3>1. PICK s \in {<<>>, Retention} : todo' = s
        BY <1>10, AppendEnds
    <3> QED
        BY <3>1 DEF Waiting, Retention
  <2>3. /\ active' = Append(active, line) /\ stamp' = [stamp EXCEPT ![line.event] = line.at]
        /\ UNCHANGED <<now, backups, out>>
    BY <1>10 DEF AppendLine
  <2>4. stamp[line.event] = NoDay /\ line.at <= now
    <3>1. todo # <<>> /\ todo[1] = "append"
        BY <1>0, <1>10 DEF AppendLine, Doing, Idle
    <3>2. 1 \in DOMAIN todo
        BY <1>0, <3>1, EmptySeq
    <3> QED
        BY <3>1, <3>2 DEF Stamps, Waiting
  <2>5. \A l \in Elems(active') : l \in Elems(active) \/ l = line
    BY <1>0, <2>1, <2>3 DEF Elems
  <2>6. \A e \in Events : stamp[e] \in Nat => stamp'[e] = stamp[e]
    BY <1>0, <2>1, <2>3, <2>4, SentinelAssumption
  <2>7. stamp'[line.event] = line.at
    BY <1>0, <2>1, <2>3
  <2>8. \A l \in Elems(active') \cup Elems(out') : stamp'[l.event] \in Nat
    BY <1>0, <2>1, <2>3, <2>5, <2>6, <2>7 DEF Stamps
  <2>9. \A n \in Backups : \A b \in backups'[n].rows :
             stamp'[b.event] \in Nat /\ stamp'[b.event] <= backups'[n].mtime
    <3>1. \A n \in Backups : \A b \in backups[n].rows : b.event \in Events
        BY DEF Typed, TypeOK, BodyRec
    <3> QED
        BY <2>3, <2>6, <3>1 DEF Stamps
  <2>10. \A e \in Events : stamp'[e] = NoDay \/ stamp'[e] <= now'
    BY <1>0, <2>1, <2>3, <2>4 DEF Stamps
  <2> QED
    BY <2>2, <2>8, <2>9, <2>10 DEF Stamps
<1>11. CASE Fill
  <2>1. active' = out /\ out' = <<>> /\ UNCHANGED <<now, backups, stamp, line>> /\ Then(<<>>) /\ ~Idle
    BY <1>11 DEF Fill, Doing
  <2>2. Waiting' => Waiting
    BY <2>1, Prefixes, WaitingKept
  <2>3. Elems(out') = {}
    BY <2>1 DEF Elems
  <2> QED
    BY <2>1, <2>2, <2>3 DEF Stamps
<1>12. CASE Retain
  <2>1. UNCHANGED <<now, active, out, stamp, line>> /\ ~Idle
    BY <1>12 DEF Retain, Doing
  <2>2. Waiting' => Waiting
    BY <1>12, <2>1, Prefixes, WaitingKept DEF Retain
  <2> DEFINE old == {b \in {Body(l) : l \in Elems(active)} : Expired(b)}
  <2>3. backups' = backups \/ AddRows(<<"pruned", Today>>, old)
    BY <1>12 DEF Retain
  <2>4. <<"pruned", Today>> \in Backups
    BY TodayType DEF Backups, Typed
  <2>5. \/ backups' = backups
        \/ \E n \in Backups : \E rows \in SUBSET {Body(l) : l \in Elems(active)} : AddRows(n, rows)
    BY <2>3, <2>4
  <2>6. \A m \in Backups : \A b \in backups'[m].rows :
             stamp'[b.event] \in Nat /\ stamp'[b.event] <= backups'[m].mtime
    <3>1. CASE backups' = backups
        BY <2>1, <3>1 DEF Stamps
    <3>2. CASE \E n \in Backups : \E rows \in SUBSET {Body(l) : l \in Elems(active)} : AddRows(n, rows)
        BY <2>1, <3>2, StampsCopied
    <3> QED
        BY <2>5, <3>1, <3>2
  <2> QED
    BY <2>1, <2>2, <2>6 DEF Stamps
<1>13. CASE Prune \/ Strip \/ Sync
  <2>1. UNCHANGED <<now, backups, stamp, line>> /\ ~Idle /\ \E s : Prefix(s) /\ Then(s)
    BY <1>13, Prefixes DEF Prune, Strip, Sync, Doing
  <2>2. Waiting' => Waiting
    BY <2>1, WaitingKept
  <2>3. \A l \in Elems(active') \cup Elems(out') :
          \E k \in Elems(active) \cup Elems(out) : l.event = k.event
    <3>1. Elems(<<>>) = {}
        BY DEF Elems
    <3> QED
        BY <1>13, <3>1, PruneElems, StripElems, SyncElems
  <2> QED
    BY <2>1, <2>2, <2>3 DEF Stamps
<1>14. CASE UNCHANGED vars
    BY <1>14 DEF vars, Stamps, Waiting
<1> QED
    BY <1>1, <1>2, <1>3, <1>4, <1>5, <1>6, <1>7, <1>8, <1>9, <1>10, <1>11, <1>12, <1>13,
       <1>14 DEF Next, Step
-----------------------------------------------------------------------------
(* What leaves the disk.                                                   *)

InBackups(e) == \E n \in Backups : \E b \in backups[n].rows : b.event = e
InLog(e) == \E l \in Elems(active) \cup Elems(out) : l.event = e

\* What is about to be cut off the file has been copied.
Copies ==
    /\ Doing("clear") => \A l \in Elems(active) : InBackups(l.event)
    /\ Doing("prune") => \A l \in Elems(active) : Expired(l) => InBackups(l.event)

LEMMA StoredIs == \A e : e \in Stored <=> InLog(e) \/ InBackups(e)
BY DEF Stored, InLog, InBackups

\* Only rotation and retention put a cut first, right after the copy.
LEMMA NoCutFirst ==
    ASSUME Typed, Filling, Next, ~CopyOut, ~Retain, ~EditPolicy, ~Tick
    PROVE  ~Doing("clear")' /\ ~Doing("prune")'
<1> SUFFICES todo' # <<>> => Head(todo') \notin {"clear", "prune"}
    BY DEF Doing, Idle
<1>1. ASSUME NEW e \in Events, Record(e) PROVE Head(todo') \notin {"clear", "prune"}
    BY <1>1 DEF Record
<1>2. CASE Read
  <2>1. Len(todo') = 3 /\ todo'[1] = "rotate" /\ todo' \in Seq({"rotate", "retain", "read"})
    BY <1>2, ReadSteps DEF Read
  <2> QED
    BY <2>1
<1>3. CASE ReloadPolicy
    BY <1>3 DEF ReloadPolicy
<1>4. CASE Restart
    BY <1>4, StartupHead DEF Restart
<1>5. CASE Step
  <2>1. ~Idle /\ \E s \in {<<>>, Retention, <<"fill">>} : Then(s)
    BY <1>5 DEF Step, SkipRotation, Clear, Sweep, Mark, AppendLine, Fill, Prune, Trim,
                StripMemory, Strip, WarmBuffer, Sync, Answer, Doing
  <2>2. PICK s \in {<<>>, Retention, <<"fill">>} : Then(s)
    BY <2>1
  <2>3. Prefix(s) /\ (s # <<>> => s[1] \notin {"clear", "prune"})
    BY <2>2, Prefixes DEF Retention
  <2> QED
    BY <2>1, <2>2, <2>3, HeadAfter
<1> QED
    BY <1>1, <1>2, <1>3, <1>4, <1>5 DEF Next

LEMMA CopiesInit == Init => Copies
BY StartupHead DEF Init, Copies, Doing, Idle

LEMMA CopiesStep == Typed /\ Filling /\ Copies /\ [Next]_vars => Copies'
<1> SUFFICES ASSUME Typed, Filling, Copies, [Next]_vars PROVE Copies'
    OBVIOUS
<1> USE DEF disk, memory, observers
<1>0. \A l \in Elems(active) : l \in Line
    BY LinesAreTyped
<1>1. CASE CopyOut
  <2>1. /\ todo' # <<>> /\ Head(todo') = "clear" /\ active' = active
        /\ AddRows(<<"day", marker>>, {Body(l) : l \in Elems(active)})
    BY <1>1, Prefixes, HeadAfter DEF CopyOut, Doing
  <2>2. <<"day", marker>> \in Backups
    BY <1>1 DEF CopyOut, RotationDue, Typed, TypeOK, Backups
  <2>3. PICK n \in Backups : AddRows(n, {Body(l) : l \in Elems(active)})
    BY <2>1, <2>2
  <2>4. PICK rows \in SUBSET BodyRec :
            rows = {Body(l) : l \in Elems(active)} /\ AddRows(n, rows)
    BY <2>3, ActiveBodies DEF Typed
  <2>5. \A l \in Elems(active) : Body(l) \in backups'[n].rows
    <3>1. rows \subseteq backups'[n].rows
        BY <2>4, BackupType DEF Typed
    <3> QED
        BY <2>4, <3>1
  <2>6. \A l \in Elems(active) : Body(l).event = l.event
    BY <1>0, BodyType
  <2>7. \A l \in Elems(active') : InBackups(l.event)'
    BY <2>1, <2>5, <2>6 DEF InBackups
  <2> QED
    BY <2>1, <2>7 DEF Copies, Doing
<1>2. CASE Retain
  <2> DEFINE old == {b \in {Body(l) : l \in Elems(active)} : Expired(b)}
  <2>1. UNCHANGED <<now, policy, active>> /\ ~Idle
    BY <1>2 DEF Retain, Doing
  <2>2. \/ Then(<<"strip_memory", "strip">>)
        \/ Then(<<"trim", "strip_memory", "strip", "sweep">>)
        \/ /\ AddRows(<<"pruned", Today>>, old)
           /\ Then(<<"prune", "fill", "trim", "strip_memory", "strip", "sweep">>)
    BY <1>2 DEF Retain
  <2> HIDE DEF old
  <2>3. CASE Then(<<"strip_memory", "strip">>) \/ Then(<<"trim", "strip_memory", "strip", "sweep">>)
    <3>1. Head(todo') \notin {"clear", "prune"}
        BY <2>1, <2>3, Prefixes, HeadAfter
    <3> QED
        BY <3>1 DEF Copies, Doing
  <2>4. CASE /\ AddRows(<<"pruned", Today>>, old)
             /\ Then(<<"prune", "fill", "trim", "strip_memory", "strip", "sweep">>)
    <3>1. Head(todo') = "prune"
        BY <2>1, <2>4, Prefixes, HeadAfter
    <3>2. <<"pruned", Today>> \in Backups
        BY TodayType DEF Backups, Typed
    <3>3. PICK n \in Backups, rows \in SUBSET BodyRec : rows = old /\ AddRows(n, rows)
        BY <2>4, <3>2, ActiveBodies DEF old, Typed
    <3>4. rows \subseteq backups'[n].rows
        BY <3>3, BackupType DEF Typed
    <3>5. \A l \in Elems(active) : Expired(l) => Expired(Body(l)) /\ Body(l).event = l.event
        BY <1>0, BodyType DEF Expired
    <3>6. \A l \in Elems(active) : Expired(l) => Body(l) \in backups'[n].rows /\ Body(l).event = l.event
        BY <3>3, <3>4, <3>5 DEF old
    <3>7. \A l : Expired(l)' <=> Expired(l)
        BY <2>1 DEF Expired, EffectiveDays, DefaultDays
    <3> QED
        BY <2>1, <3>1, <3>6, <3>7 DEF Copies, Doing, InBackups
  <2> QED
    BY <2>2, <2>3, <2>4
<1>3. CASE EditPolicy \/ Tick
  <2>1. todo' = todo /\ (Idle \/ todo = <<"rotate", "append">>)
    BY <1>3 DEF EditPolicy, Tick
  <2>2. ~Doing("clear")' /\ ~Doing("prune")'
    BY <2>1 DEF Doing, Idle
  <2> QED
    BY <2>2 DEF Copies
<1>4. CASE Next /\ ~(CopyOut \/ Retain \/ EditPolicy \/ Tick)
    BY <1>4, NoCutFirst DEF Copies
<1>5. CASE UNCHANGED vars
  <2>1. UNCHANGED <<now, policy, active, backups, todo>>
    BY <1>5 DEF vars
  <2>2. \A l : Expired(l)' <=> Expired(l)
    BY <2>1 DEF Expired, EffectiveDays, DefaultDays
  <2> QED
    BY <2>1, <2>2 DEF Copies, Doing, Idle, InBackups
<1> QED
    BY <1>1, <1>2, <1>3, <1>4, <1>5

Has(step) == \E k \in DOMAIN todo : todo[k] = step

\* Steps are done from the head; those put before the rest join it.
LEMMA HasAfter ==
    ASSUME Typed, ~Idle, NEW s, Prefix(s), Then(s), NEW x
    PROVE  /\ Has(x)' => Has(x) \/ \E k \in DOMAIN s : s[k] = x
           /\ Has(x) /\ x # Head(todo) => Has(x)'
           /\ \A k \in DOMAIN s : s[k] = x => Has(x)'
           /\ (\A k \in DOMAIN todo : todo[k] = "read" => k = Len(todo))
                => \A k \in DOMAIN todo' : todo'[k] = "read" => k = Len(todo')
<1>1. /\ s \in Seq(Steps) /\ todo \in Seq(Steps) /\ todo # <<>> /\ Head(todo) = todo[1]
      /\ Len(s) \in Nat /\ Len(todo) \in Nat /\ DOMAIN todo = 1..Len(todo)
      /\ DOMAIN s = 1..Len(s)
    BY DEF Prefix, Typed, TypeOK, Idle
<1>2. /\ todo' \in Seq(Steps) /\ Len(todo') = Len(s) + Len(todo) - 1
      /\ \A k \in 1..Len(s) : todo'[k] = s[k]
      /\ \A k \in Len(s) + 1..Len(todo') : todo'[k] = todo[k - Len(s) + 1]
    BY <1>1, ThenSteps DEF Typed
<1>3. DOMAIN todo' = 1..Len(todo') /\ Len(todo) >= 1
    BY <1>1, <1>2, EmptySeq
<1>4. ASSUME NEW k \in DOMAIN todo', k > Len(s)
      PROVE  /\ k - Len(s) + 1 \in DOMAIN todo /\ todo'[k] = todo[k - Len(s) + 1]
             /\ k - Len(s) + 1 = Len(todo) => k = Len(todo')
  <2>1. k \in Len(s) + 1..Len(todo')
    BY <1>1, <1>3, <1>4
  <2>2. k - Len(s) + 1 \in 1..Len(todo)
    BY <1>1, <1>2, <2>1
  <2>3. todo'[k] = todo[k - Len(s) + 1]
    BY <1>2, <2>1
  <2>4. k - Len(s) + 1 = Len(todo) => k = Len(todo')
    <3>1. /\ k \in Int /\ Len(s) \in Int /\ Len(todo) \in Int
          /\ Len(todo') = Len(s) + Len(todo) - 1
        BY <1>1, <1>2, <2>1
    <3>2. \A a, b, c, d \in Int : d = b + c - 1 /\ a - b + 1 = c => a = d
        OBVIOUS
    <3> QED
        BY <3>1, <3>2
  <2> QED
    BY <1>1, <2>2, <2>3, <2>4
<1>5. ASSUME NEW k \in DOMAIN todo', k <= Len(s)
      PROVE  k \in DOMAIN s /\ todo'[k] = s[k]
    BY <1>1, <1>2, <1>3, <1>5
<1>6. Has(x)' => Has(x) \/ \E k \in DOMAIN s : s[k] = x
  <2> SUFFICES ASSUME NEW k \in DOMAIN todo', todo'[k] = x
               PROVE  Has(x) \/ \E i \in DOMAIN s : s[i] = x
    BY DEF Has
  <2>1. CASE k <= Len(s)
    BY <1>5, <2>1
  <2>2. CASE k > Len(s)
    BY <1>4, <2>2 DEF Has
  <2> QED
    BY <1>1, <1>3, <2>1, <2>2
<1>7. Has(x) /\ x # Head(todo) => Has(x)'
  <2> SUFFICES ASSUME NEW k \in DOMAIN todo, todo[k] = x, x # todo[1]
               PROVE  Has(x)'
    BY <1>1 DEF Has
  <2> DEFINE j == k + Len(s) - 1
  <2>1. k \in 2..Len(todo)
    BY <1>1
  <2>2. j \in Len(s) + 1..Len(todo') /\ j - Len(s) + 1 = k
    BY <1>1, <1>2, <2>1
  <2>3. todo'[j] = todo[k]
    BY <1>2, <2>2
  <2>4. j \in DOMAIN todo'
    BY <1>1, <1>3, <2>2
  <2> QED
    BY <2>3, <2>4 DEF Has
<1>8. \A k \in DOMAIN s : s[k] = x => Has(x)'
  <2>1. \A k \in DOMAIN s : k \in DOMAIN todo' /\ todo'[k] = s[k]
    BY <1>1, <1>2, <1>3
  <2> QED
    BY <2>1 DEF Has
<1>9. ASSUME \A k \in DOMAIN todo : todo[k] = "read" => k = Len(todo),
             NEW k \in DOMAIN todo', todo'[k] = "read"
      PROVE  k = Len(todo')
  <2>1. CASE k <= Len(s)
    BY <1>5, <1>9, <2>1 DEF Prefix
  <2>2. CASE k > Len(s)
    BY <1>4, <1>9, <2>2
  <2> QED
    BY <1>1, <1>3, <2>1, <2>2
<1> QED
    BY <1>6, <1>7, <1>8, <1>9

\* The policy in force was read from the policy file, or is about to be.
Origin == policy \in Policies \/ (policy = DefaultPolicy /\ Has("sync"))

LEMMA StartupSyncs == \E k \in DOMAIN Startup : Startup[k] = "sync"
<1> DEFINE X == {"rotate", "retain", "warm", "sync"}
           a == Warm \o <<"rotate">> \o Retention
           b == <<"sync">>
           c == Warm
<1>1. <<"rotate">> \in Seq(X) /\ Retention \in Seq(X) /\ <<"warm">> \in Seq(X)
      /\ b \in Seq(X) /\ Len(b) = 1 /\ b[1] = "sync"
    BY DEF Retention
<1>2. Startup = (a \o b) \o c
    BY DEF Startup
<1> HIDE DEF X, b
<1>3. \A s, t \in Seq(X) :
         /\ s \o t \in Seq(X) /\ Len(s \o t) = Len(s) + Len(t)
         /\ \A k \in 1..Len(s) : (s \o t)[k] = s[k]
         /\ \A k \in 1..Len(t) : (s \o t)[Len(s) + k] = t[k]
    OBVIOUS
<1>4. Warm \in Seq(X)
    BY <1>1, <1>3 DEF Warm
<1>5. Warm \o <<"rotate">> \in Seq(X)
    BY <1>1, <1>3, <1>4
<1>6. a \in Seq(X)
    BY <1>1, <1>3, <1>5
<1> HIDE DEF a, c
<1>7. c \in Seq(X)
    BY <1>4 DEF c
<1>8. a \o b \in Seq(X) /\ Len(a \o b) = Len(a) + 1 /\ (a \o b)[Len(a) + 1] = "sync"
      /\ Len(a) \in Nat
  <2>1. /\ b \in Seq(X) /\ a \in Seq(X) /\ Len(b) = 1 /\ b[1] = "sync"
        /\ Len(a) \in Nat /\ 1 \in 1..Len(b)
    BY <1>1, <1>6
  <2>2. /\ a \o b \in Seq(X) /\ Len(a \o b) = Len(a) + Len(b)
        /\ \A k \in 1..Len(b) : (a \o b)[Len(a) + k] = b[k]
    BY <1>3, <2>1
  <2>3. (a \o b)[Len(a) + 1] = b[1]
    BY <2>1, <2>2
  <2> QED
    BY <2>1, <2>2, <2>3
<1>9. (a \o b) \o c \in Seq(X) /\ Len((a \o b) \o c) = Len(a \o b) + Len(c)
      /\ \A k \in 1..Len(a \o b) : ((a \o b) \o c)[k] = (a \o b)[k]
    BY <1>3, <1>7, <1>8
<1>10. Len(a) + 1 \in 1..Len(a \o b) /\ Len(c) \in Nat
    BY <1>7, <1>8
<1>11. Startup[Len(a) + 1] = "sync" /\ Len(a) + 1 \in DOMAIN Startup
  <2>1. Startup[Len(a) + 1] = "sync"
    BY <1>2, <1>8, <1>9, <1>10
  <2>2. Startup \in Seq(X) /\ Len(Startup) = Len(a) + 1 + Len(c)
    BY <1>2, <1>8, <1>9
  <2>3. DOMAIN Startup = 1..Len(Startup)
    BY <2>2
  <2> QED
    BY <1>8, <1>10, <2>1, <2>2, <2>3
<1> QED
    BY <1>11

LEMMA OriginInit == Init => Origin
BY StartupSyncs DEF Init, FreshMemory, Origin, Has

LEMMA OriginStep == Typed /\ Origin /\ [Next]_vars => Origin'
<1> SUFFICES ASSUME Typed, Origin, [Next]_vars PROVE Origin'
    OBVIOUS
<1> USE DEF disk, memory, observers
<1>1. ASSUME NEW e \in Events, Record(e) PROVE Origin'
  <2>1. ~Has("sync")
    BY <1>1 DEF Record, Idle, Has
  <2> QED
    BY <1>1, <2>1 DEF Record, Origin
<1>2. CASE Read \/ ReloadPolicy
  <2>1. ~Has("sync") /\ policy' = policy
    BY <1>2 DEF Read, ReloadPolicy, Idle, Has
  <2> QED
    BY <2>1 DEF Origin
<1>3. CASE EditPolicy \/ Tick
  <2>1. todo' = todo /\ policy' = policy
    BY <1>3 DEF EditPolicy, Tick
  <2> QED
    BY <2>1 DEF Origin, Has
<1>4. CASE Restart
    BY <1>4, StartupSyncs DEF Restart, FreshMemory, Origin, Has
<1>5. CASE Sync
  <2>1. policy' = filePolicy /\ filePolicy \in Policies
    BY <1>5 DEF Sync, Typed, TypeOK
  <2> QED
    BY <2>1 DEF Origin
<1>6. CASE Step /\ ~Sync
  <2>1. ~Idle /\ policy' = policy /\ Head(todo) # "sync"
    <3>1. CASE SkipRotation \/ CopyOut \/ Clear \/ Sweep \/ Mark \/ AppendLine \/ Fill
        BY <3>1 DEF SkipRotation, CopyOut, Clear, Sweep, Mark, AppendLine, Fill, Doing
    <3>2. CASE Retain \/ Prune \/ Trim \/ StripMemory \/ Strip \/ WarmBuffer \/ Answer
        BY <3>2 DEF Retain, Prune, Trim, StripMemory, Strip, WarmBuffer, Answer, Doing
    <3> QED
        BY <1>6, <3>1, <3>2 DEF Step
  <2>2. \E s : Prefix(s) /\ Then(s)
    <3>1. CASE SkipRotation \/ CopyOut \/ Clear \/ Sweep \/ Mark \/ AppendLine \/ Fill
        BY <3>1, Prefixes DEF SkipRotation, CopyOut, Clear, Sweep, Mark, AppendLine, Fill
    <3>2. CASE Retain \/ Prune \/ Trim \/ StripMemory \/ Strip \/ WarmBuffer \/ Answer
        BY <3>2, Prefixes DEF Retain, Prune, Trim, StripMemory, Strip, WarmBuffer, Answer
    <3> QED
        BY <1>6, <3>1, <3>2 DEF Step
  <2>3. Has("sync") => Has("sync")'
    BY <2>1, <2>2, HasAfter
  <2> QED
    BY <2>1, <2>3 DEF Origin
<1>7. CASE UNCHANGED vars
    BY <1>7 DEF vars, Origin, Has
<1> QED
    BY <1>1, <1>2, <1>3, <1>4, <1>5, <1>6, <1>7 DEF Next

Leaves ==
    \A e \in Stored \ Stored' :
        \/ policy \in Policies /\ ~KeptFor(e, policy)
        \/ Starting /\ ~KeptFor(e, DefaultPolicy)
        \/ crashes' # crashes /\ Doing("fill")

LEMMA RowsAdded ==
    ASSUME Typed, NEW n \in Backups, NEW rows \in SUBSET BodyRec, AddRows(n, rows)
    PROVE  \A e : InBackups(e) => InBackups(e)'
BY BackupType DEF InBackups, Typed

LEMMA LeavesStep ==
    Typed /\ Filling /\ Stamps /\ Copies /\ Origin /\ [Next]_vars => [Leaves]_vars
<1> SUFFICES ASSUME Typed, Filling, Stamps, Copies, Origin, Next PROVE Leaves
    OBVIOUS
<1> USE DEF disk, memory, observers
<1>0. /\ active \in Seq(Line) /\ todo \in Seq(Steps)
      /\ \A e : e \in Stored => InLog(e) \/ InBackups(e)
      /\ \A e : InLog(e)' \/ InBackups(e)' => e \in Stored'
  <2>1. active \in Seq(Line) /\ todo \in Seq(Steps)
    BY DEF Typed, TypeOK
  <2>2. \A e : e \in Stored => InLog(e) \/ InBackups(e)
    BY StoredIs
  <2>3. \A e : InLog(e)' \/ InBackups(e)' => e \in Stored'
    BY DEF Stored, InLog, InBackups
  <2> QED
    BY <2>1, <2>2, <2>3
<1>1. CASE UNCHANGED <<active, out, backups>>
    BY <1>0, <1>1 DEF Leaves, InLog, InBackups
<1>2. CASE Restart
  <2>1. crashes' # crashes /\ active' = active /\ backups' = backups
    <3>1. crashes' = crashes + 1 /\ crashes \in Nat
        BY <1>2, SizeAssumption DEF Restart, Typed, TypeOK
    <3>2. active' = active /\ backups' = backups
        BY <1>2 DEF Restart
    <3> QED
        BY <3>1, <3>2
  <2>2. CASE out = <<>>
    <3>1. Elems(out) = {}
        BY <2>2 DEF Elems
    <3> QED
        BY <1>0, <2>1, <3>1 DEF Leaves, InLog, InBackups
  <2>3. CASE out # <<>>
    BY <2>1, <2>3 DEF Leaves, Filling
  <2> QED
    BY <2>2, <2>3
<1>3. CASE CopyOut \/ Retain
  <2>1. active' = active /\ out' = out
    BY <1>3 DEF CopyOut, Retain
  <2>2. \A e : InBackups(e) => InBackups(e)'
    <3>1. CASE CopyOut
      <4>1. <<"day", marker>> \in Backups
        BY <3>1 DEF CopyOut, RotationDue, Typed, TypeOK, Backups
      <4>2. \E n \in Backups : \E rows \in SUBSET BodyRec : AddRows(n, rows)
        BY <3>1, <4>1, ActiveBodies DEF CopyOut, Typed
      <4> QED
        BY <4>2, RowsAdded
    <3>2. CASE Retain
      <4> DEFINE old == {b \in {Body(l) : l \in Elems(active)} : Expired(b)}
      <4>1. backups' = backups \/ AddRows(<<"pruned", Today>>, old)
        BY <3>2 DEF Retain
      <4>2. old \in SUBSET BodyRec /\ <<"pruned", Today>> \in Backups
        BY ActiveBodies, TodayType DEF Backups, Typed
      <4>3. backups' = backups \/ \E n \in Backups : \E rows \in SUBSET BodyRec : AddRows(n, rows)
        BY <4>1, <4>2
      <4> HIDE DEF old
      <4>4. CASE backups' = backups
        BY <4>4 DEF InBackups
      <4> QED
        BY <4>3, <4>4, RowsAdded
    <3> QED
        BY <1>3, <3>1, <3>2
  <2> QED
    BY <1>0, <2>1, <2>2 DEF Leaves, InLog
<1>4. CASE Clear
  <2>1. active' = <<>> /\ out' = out /\ backups' = backups
    BY <1>4 DEF Clear
  <2>2. \A e : InLog(e) => InLog(e)' \/ InBackups(e)
    BY <1>4, <2>1 DEF InLog, Copies, Clear
  <2>3. \A e : InBackups(e) => InBackups(e)'
    BY <2>1 DEF InBackups
  <2> QED
    BY <1>0, <2>2, <2>3 DEF Leaves
<1>5. CASE Sweep
  <2>1. active' = active /\ out' = out
    BY <1>5 DEF Sweep
  <2>2. ASSUME NEW e, InBackups(e), ~InBackups(e)' PROVE ~KeptFor(e, policy)
    <3>1. PICK n \in Backups : \E b \in backups[n].rows : b.event = e
        BY <2>2 DEF InBackups
    <3>2. Stale(n)
        BY <1>5, <2>2, <3>1 DEF Sweep, InBackups
    <3>3. stamp[e] \in Nat /\ stamp[e] <= backups[n].mtime /\ backups[n].mtime \in Nat
        BY <3>1 DEF Stamps, Typed, TypeOK
    <3>4. policy.keep * TicksPerDay \in Nat /\ now \in Nat
      <4>1. policy \in Policy
        BY PolicyAssumption DEF Typed, TypeOK
      <4>2. policy.keep \in Nat /\ TicksPerDay \in Nat
        BY <4>1, SizeAssumption DEF Policy
      <4>3. \A a, b \in Nat : a * b \in Nat
        OBVIOUS
      <4>4. now \in Nat
        BY SizeAssumption DEF Typed, TypeOK
      <4> QED
        BY <4>2, <4>3, <4>4
    <3> DEFINE d == policy.keep * TicksPerDay
    <3>5. backups[n].mtime + d < now
        BY <3>2 DEF Stale
    <3>6. d \in Nat
        BY <3>4
    <3>7. \A m, s, x, t \in Nat : s <= m /\ m + x < t => s + x < t
        OBVIOUS
    <3>8. now \in Nat
        BY <3>4
    <3> HIDE DEF d
    <3>9. stamp[e] + d < now
        BY <3>3, <3>5, <3>6, <3>7, <3>8
    <3>10. stamp[e] + d \in Nat
        BY <3>3, <3>6
    <3>11. \A x, t \in Nat : x < t => ~(x >= t)
        OBVIOUS
    <3> QED
        BY <3>8, <3>9, <3>10, <3>11 DEF KeptFor, d
  <2>3. policy \in Policies \/ (Starting /\ policy = DefaultPolicy)
    BY DEF Origin, Starting, Has, Elems
  <2> QED
    BY <1>0, <2>1, <2>2, <2>3 DEF Leaves, InLog
<1>6. CASE AppendLine
  <2>1. active' = Append(active, line) /\ out' = out /\ backups' = backups /\ line \in Line
    BY <1>6, AppendEnds DEF AppendLine
  <2>2. \A l \in Elems(active) : l \in Elems(active')
    BY <1>0, <2>1 DEF Elems
  <2> QED
    BY <1>0, <2>1, <2>2 DEF Leaves, InLog, InBackups
<1>7. CASE Fill
  <2>1. active' = out /\ active = <<>> /\ backups' = backups
    BY <1>7 DEF Fill, Filling
  <2>2. Elems(active) = {}
    BY <2>1 DEF Elems
  <2> QED
    BY <1>0, <2>1, <2>2 DEF Leaves, InLog, InBackups
<1>8. CASE Prune \/ Strip \/ Sync
  <2>1. backups' = backups
    BY <1>8 DEF Prune, Strip, Sync
  <2>2. Elems(out) = {}
    <3>1. out = <<>>
        BY <1>8 DEF Prune, Strip, Sync, Filling, Doing
    <3> QED
        BY <3>1 DEF Elems
  <2>3. \A k \in Elems(active) : InLog(k.event)' \/ InBackups(k.event)
    <3>1. CASE Prune
        BY <3>1, PruneElems DEF InLog, Copies, Prune
    <3>2. CASE Strip
        BY <3>2, StripElems DEF InLog
    <3>3. CASE Sync
        BY <3>3, SyncElems DEF InLog
    <3> QED
        BY <1>8, <3>1, <3>2, <3>3
  <2>4. \A e : InBackups(e) => InBackups(e)'
    BY <2>1 DEF InBackups
  <2> QED
    BY <1>0, <2>2, <2>3, <2>4 DEF Leaves, InLog
<1> QED
    BY <1>1, <1>2, <1>3, <1>4, <1>5, <1>6, <1>7, <1>8
       DEF Next, Step, Record, Read, ReloadPolicy, EditPolicy, Tick, SkipRotation, Mark,
           Trim, StripMemory, WarmBuffer, Answer

LogInv == Typed /\ Filling /\ Stamps /\ Copies /\ Origin

\* An event leaves the disk only when its backup has aged out by the policy file last
\* loaded, by the built-in days while start-up has not read it, or when the process
\* dies between truncating and writing audit.jsonl.
THEOREM EventsAreKept == Spec => EventsLeaveByAge
<1>1. Init => LogInv
    BY TypeInit, FillingInit, StampsInit, CopiesInit, OriginInit DEF LogInv
<1>2. LogInv /\ [Next]_vars => LogInv'
    BY TypeStep, FillingStep, StampsStep, CopiesStep, OriginStep DEF LogInv
<1>3. LogInv /\ [Next]_vars => [Leaves]_vars
    BY LeavesStep DEF LogInv
<1>4. Spec => [][Leaves]_vars
    BY <1>1, <1>2, <1>3, PTL DEF Spec
<1> QED
    BY <1>4 DEF EventsLeaveByAge, Leaves
-----------------------------------------------------------------------------
(* What a reader sees.                                                     *)

\* A reader's list of steps: what has been done can be told from what is left.
Reads ==
    Has("read") =>
        /\ \A k \in DOMAIN todo : todo[k] = "read" => k = Len(todo)
        /\ ~Has("append") /\ ~Has("sync") /\ ~Has("warm")
        /\ ~Has("retain") /\ ~Has("prune") /\ ~KeepsAll(policy)
             => \A l \in Elems(active) \cup Elems(out) : ~Expired(l)
        /\ ~Has("retain") /\ ~Has("trim") /\ ~KeepsAll(policy)
             => \A b \in Elems(buffer) : ~Expired(b)
        /\ ~Has("retain") /\ ~Has("strip_memory")
             => \A b \in Elems(buffer) : ~DebugExpired(b)
        /\ ~Has("retain") /\ ~Has("strip")
             => \A l \in Elems(active) \cup Elems(out) : ~DebugExpired(l)

LEMMA ClockStill ==
    ASSUME now' = now, policy' = policy
    PROVE  /\ \A l : Expired(l)' <=> Expired(l)
           /\ \A l : DebugExpired(l)' <=> DebugExpired(l)
           /\ KeepsAll(policy)' <=> KeepsAll(policy)
BY DEF Expired, EffectiveDays, DefaultDays, DebugExpired, KeepsAll

LEMMA ReadsAfter ==
    ASSUME Typed, Reads, ~Idle, NEW s, Prefix(s), Then(s), Has("read")'
    PROVE  /\ Has("read")
           /\ \A k \in DOMAIN todo' : todo'[k] = "read" => k = Len(todo')
           /\ ~Has("append")' /\ ~Has("sync")' /\ ~Has("warm")'
           /\ \A x : Has(x) /\ x # Head(todo) => Has(x)'
           /\ \A k \in DOMAIN s : Has(s[k])'
<1>1. \A k \in DOMAIN s : s[k] \notin {"append", "sync", "warm", "read"}
    BY DEF Prefix
<1>2. Has("read")
    BY <1>1, HasAfter
<1>3. ~Has("append")' /\ ~Has("sync")' /\ ~Has("warm")'
    BY <1>1, <1>2, HasAfter DEF Reads
<1>4. \A k \in DOMAIN todo' : todo'[k] = "read" => k = Len(todo')
    BY <1>2, HasAfter DEF Reads
<1>5. \A x : Has(x) /\ x # Head(todo) => Has(x)'
    BY HasAfter
<1>6. \A k \in DOMAIN s : Has(s[k])'
    BY HasAfter
<1> QED
    BY <1>2, <1>3, <1>4, <1>5, <1>6

\* A step of a reader that adds no line and no buffered event.
LEMMA QuietReads ==
    ASSUME Typed, Reads, ~Idle, NEW s, Prefix(s), Then(s),
           Head(todo) \notin {"retain", "prune", "trim", "strip_memory", "strip"},
           now' = now, policy' = policy, buffer' = buffer,
           \A l \in Elems(active') \cup Elems(out') : l \in Elems(active) \cup Elems(out)
    PROVE  Reads'
<1> SUFFICES ASSUME Has("read")' PROVE Reads'
    BY DEF Reads
<1>1. /\ Has("read")
      /\ \A k \in DOMAIN todo' : todo'[k] = "read" => k = Len(todo')
      /\ ~Has("append")' /\ ~Has("sync")' /\ ~Has("warm")'
      /\ \A x : Has(x) /\ x # Head(todo) => Has(x)'
    BY ReadsAfter
<1>2. \A x \in {"retain", "prune", "trim", "strip_memory", "strip"} : ~Has(x)' => ~Has(x)
    BY <1>1
<1> QED
    BY <1>1, <1>2, ClockStill DEF Reads

LEMMA ReadsInit == Init => Reads
BY StartupSteps DEF Init, Reads, Has

LEMMA ReadsStep == Typed /\ Filling /\ Reads /\ [Next]_vars => Reads'
<1> SUFFICES ASSUME Typed, Filling, Reads, [Next]_vars PROVE Reads'
    OBVIOUS
<1> USE DEF disk, memory, observers
<1>0. active \in Seq(Line) /\ buffer \in Seq(BodyRec) /\ todo \in Seq(Steps) /\ Elems(<<>>) = {}
    BY DEF Typed, TypeOK, Elems
<1>1. ASSUME NEW e \in Events, Record(e) PROVE Reads'
  <2>1. ~Has("read")'
    BY <1>1 DEF Record, Has
  <2> QED
    BY <2>1 DEF Reads
<1>2. CASE Read
  <2>1. /\ todo' \in Seq({"rotate", "retain", "read"}) /\ Len(todo') = 3
        /\ todo'[1] = "rotate" /\ todo'[2] = "retain" /\ todo'[3] = "read"
    BY <1>2, ReadSteps DEF Read
  <2>2. DOMAIN todo' = 1..3 /\ Has("retain")'
        /\ ~Has("append")' /\ ~Has("sync")' /\ ~Has("warm")'
    BY <2>1 DEF Has
  <2>3. \A k \in DOMAIN todo' : todo'[k] = "read" => k = Len(todo')
    BY <2>1, <2>2
  <2> QED
    BY <2>2, <2>3 DEF Reads
<1>3. CASE ReloadPolicy
  <2>1. ~Has("read")'
    BY <1>3 DEF ReloadPolicy, Has
  <2> QED
    BY <2>1 DEF Reads
<1>4. CASE EditPolicy \/ Tick
  <2>1. todo' = todo /\ (todo = <<>> \/ todo = <<"rotate", "append">>)
    BY <1>4 DEF EditPolicy, Tick, Idle
  <2>2. ~Has("read")'
    BY <2>1 DEF Has
  <2> QED
    BY <2>2 DEF Reads
<1>5. CASE Restart
  <2>1. ~Has("read")'
    BY <1>5, StartupSteps DEF Restart, Has
  <2> QED
    BY <2>1 DEF Reads
<1>6. CASE SkipRotation \/ CopyOut \/ Clear \/ Sweep \/ Mark \/ Fill \/ Answer
  <2>1. /\ ~Idle /\ now' = now /\ policy' = policy /\ buffer' = buffer
        /\ Head(todo) \in {"rotate", "clear", "sweep", "mark", "fill", "read"}
    BY <1>6 DEF SkipRotation, CopyOut, Clear, Sweep, Mark, Fill, Answer, Doing
  <2>2. \E s : Prefix(s) /\ Then(s)
    BY <1>6, Prefixes DEF SkipRotation, CopyOut, Clear, Sweep, Mark, Fill, Answer
  <2>3. \A l \in Elems(active') \cup Elems(out') : l \in Elems(active) \cup Elems(out)
    <3>1. CASE SkipRotation \/ CopyOut \/ Sweep \/ Mark \/ Answer
        BY <3>1 DEF SkipRotation, CopyOut, Sweep, Mark, Answer
    <3>2. CASE Clear \/ Fill
        BY <1>0, <3>2 DEF Clear, Fill
    <3> QED
        BY <1>6, <3>1, <3>2
  <2> QED
    BY <2>1, <2>2, <2>3, QuietReads
<1>7. CASE AppendLine \/ WarmBuffer \/ Sync
  <2>1. ~Idle /\ Head(todo) \in {"append", "warm", "sync"} /\ \E s : Prefix(s) /\ Then(s)
    BY <1>7, Prefixes DEF AppendLine, WarmBuffer, Sync, Doing
  <2>2. Has("append") \/ Has("warm") \/ Has("sync")
    <3>1. Head(todo) = todo[1] /\ 1 \in DOMAIN todo
        BY <1>0, <2>1, EmptySeq DEF Idle
    <3> QED
        BY <2>1, <3>1 DEF Has
  <2>3. ~Has("read")'
    BY <2>1, <2>2, ReadsAfter DEF Reads
  <2> QED
    BY <2>3 DEF Reads
<1>8. CASE Retain
  <2> SUFFICES ASSUME Has("read")' PROVE Reads'
    BY DEF Reads
  <2>1. /\ ~Idle /\ now' = now /\ policy' = policy /\ active' = active /\ out' = out
        /\ Elems(out) = {}
    BY <1>0, <1>8 DEF Retain, Filling, Doing
  <2>2. ASSUME NEW s, Prefix(s), Then(s)
        PROVE  /\ \A k \in DOMAIN todo' : todo'[k] = "read" => k = Len(todo')
               /\ ~Has("append")' /\ ~Has("sync")' /\ ~Has("warm")'
               /\ \A k \in DOMAIN s : Has(s[k])'
    BY <2>1, <2>2, ReadsAfter
  <2>3. CASE KeepsAll(policy)
    <3> DEFINE s == <<"strip_memory", "strip">>
    <3>1. Then(s) /\ Prefix(s)
        BY <1>8, <2>3, Prefixes DEF Retain
    <3>2. s[1] = "strip_memory" /\ s[2] = "strip" /\ DOMAIN s = 1..2
        OBVIOUS
    <3>3. Has("strip_memory")' /\ Has("strip")'
        BY <2>2, <3>1, <3>2
    <3>4. KeepsAll(policy)'
        BY <2>1, <2>3, ClockStill
    <3> HIDE DEF s
    <3> QED
        BY <2>2, <3>1, <3>3, <3>4 DEF Reads
  <2>4. CASE ~KeepsAll(policy) /\ {b \in {Body(l) : l \in Elems(active)} : Expired(b)} = {}
    <3> DEFINE s == <<"trim", "strip_memory", "strip", "sweep">>
    <3>1. Then(s) /\ Prefix(s)
        BY <1>8, <2>4, Prefixes DEF Retain
    <3>2. s[1] = "trim" /\ s[2] = "strip_memory" /\ s[3] = "strip" /\ DOMAIN s = 1..4
        OBVIOUS
    <3>3. Has("trim")' /\ Has("strip_memory")' /\ Has("strip")'
        BY <2>2, <3>1, <3>2
    <3>4. \A l \in Elems(active) : ~Expired(l)
      <4>1. \A l \in Elems(active) : Body(l).at = l.at /\ Body(l).event = l.event
        BY LinesAreTyped, BodyType
      <4> QED
        BY <2>4, <4>1 DEF Expired
    <3> HIDE DEF s
    <3> QED
        BY <2>1, <2>2, <3>1, <3>3, <3>4, ClockStill DEF Reads
  <2>5. CASE ~KeepsAll(policy) /\ {b \in {Body(l) : l \in Elems(active)} : Expired(b)} # {}
    <3> DEFINE s == <<"prune", "fill", "trim", "strip_memory", "strip", "sweep">>
    <3>1. Then(s) /\ Prefix(s)
        BY <1>8, <2>5, Prefixes DEF Retain
    <3>2. /\ s[1] = "prune" /\ s[3] = "trim" /\ s[4] = "strip_memory" /\ s[5] = "strip"
          /\ DOMAIN s = 1..6
        OBVIOUS
    <3>3. Has("prune")' /\ Has("trim")' /\ Has("strip_memory")' /\ Has("strip")'
        BY <2>2, <3>1, <3>2
    <3> HIDE DEF s
    <3> QED
        BY <2>2, <3>1, <3>3 DEF Reads
  <2> QED
    BY <2>3, <2>4, <2>5
<1>9. CASE Prune \/ Trim \/ StripMemory \/ Strip
  <2> SUFFICES ASSUME Has("read")' PROVE Reads'
    BY DEF Reads
  <2>1. ~Idle /\ now' = now /\ policy' = policy /\ \E s : Prefix(s) /\ Then(s)
    BY <1>9, Prefixes DEF Prune, Trim, StripMemory, Strip, Doing
  <2>2. /\ Has("read")
        /\ \A k \in DOMAIN todo' : todo'[k] = "read" => k = Len(todo')
        /\ ~Has("append")' /\ ~Has("sync")' /\ ~Has("warm")'
        /\ \A x : Has(x) /\ x # Head(todo) => Has(x)'
    BY <2>1, ReadsAfter
  <2>3. CASE Prune
    <3>1. Head(todo) = "prune" /\ buffer' = buffer
        BY <2>3 DEF Prune, Doing
    <3>2. \A x \in {"retain", "trim", "strip_memory", "strip"} : ~Has(x)' => ~Has(x)
        BY <2>2, <3>1
    <3>3. \A l \in Elems(active') \cup Elems(out') : \E k \in Elems(active) :
             l.event = k.event /\ l.at = k.at /\ l.debug = k.debug /\ ~Expired(k)
        BY <1>0, <2>3, PruneElems
    <3>4. \A l \in Elems(active') \cup Elems(out') : ~Expired(l)
        BY <3>3 DEF Expired
    <3>5. ~Has("retain")' /\ ~Has("strip")'
             => \A l \in Elems(active') \cup Elems(out') : ~DebugExpired(l)
        BY <2>2, <3>2, <3>3 DEF Reads, DebugExpired
    <3> QED
        BY <2>1, <2>2, <3>1, <3>2, <3>4, <3>5, ClockStill DEF Reads
  <2>4. CASE Trim
    <3>1. Head(todo) = "trim" /\ active' = active /\ out' = out
        BY <2>4 DEF Trim, Doing
    <3>2. \A x \in {"retain", "prune", "strip_memory", "strip"} : ~Has(x)' => ~Has(x)
        BY <2>2, <3>1
    <3>3. \A b \in Elems(buffer') : b \in Elems(buffer) /\ ~Expired(b)
      <4>1. Fresh(buffer) \in SUBSET (DOMAIN buffer)
        BY DEF Fresh
      <4>2. \A k \in DOMAIN buffer' : \E j \in Fresh(buffer) : buffer'[k] = buffer[j]
        BY <1>0, <2>4, <4>1, KeptElements DEF Trim
      <4> QED
        BY <4>2 DEF Elems, Fresh
    <3> QED
        BY <2>1, <2>2, <3>1, <3>2, <3>3, ClockStill DEF Reads
  <2>5. CASE StripMemory
    <3>1. Head(todo) = "strip_memory" /\ active' = active /\ out' = out
        BY <2>5 DEF StripMemory, Doing
    <3>2. \A x \in {"retain", "prune", "trim", "strip"} : ~Has(x)' => ~Has(x)
        BY <2>2, <3>1
    <3>3. \A c \in Elems(buffer') : \E b \in Elems(buffer) : c = Stripped(b)
        BY <2>5 DEF StripMemory, Elems
    <3>4. \A b \in Elems(buffer) : b \in BodyRec
        BY <1>0 DEF Elems
    <3>5. \A b \in BodyRec : ~DebugExpired(Stripped(b)) /\ (Expired(Stripped(b)) => Expired(b))
      <4>1. \A b \in BodyRec : ~DebugExpired(Stripped(b))
        BY DEF Stripped, DebugExpired, BodyRec
      <4>2. \A b \in BodyRec : Stripped(b).event = b.event /\ Stripped(b).at = b.at
        BY StrippedType
      <4> QED
        BY <4>1, <4>2 DEF Expired
    <3> QED
        BY <2>1, <2>2, <3>1, <3>2, <3>3, <3>4, <3>5, ClockStill DEF Reads
  <2>6. CASE Strip
    <3>1. Head(todo) = "strip" /\ buffer' = buffer /\ Elems(out) = {}
        BY <1>0, <2>6 DEF Strip, Doing, Filling
    <3>2. \A x \in {"retain", "prune", "trim", "strip_memory"} : ~Has(x)' => ~Has(x)
        BY <2>2, <3>1
    <3>3. \A l \in Elems(active') \cup Elems(out') : \E k \in Elems(active) :
             l.event = k.event /\ l.at = k.at
        BY <1>0, <2>6, <3>1, StripElems
    <3>4. \A l \in Elems(active') \cup Elems(out') : ~DebugExpired(l)
      <4>1. \A k \in Elems(active) : k \in Line
        BY LinesAreTyped
      <4>2. ASSUME NEW k \in Line, NEW l, l.at = k.at, l.debug = Stripped(k).debug
            PROVE  ~DebugExpired(l)
        BY <4>2 DEF Stripped, DebugExpired, Line
      <4> QED
        BY <1>0, <2>6, <3>1, <4>1, <4>2, StripElems
    <3> QED
        BY <2>1, <2>2, <3>1, <3>2, <3>3, <3>4, ClockStill DEF Reads, Expired
  <2> QED
    BY <1>9, <2>3, <2>4, <2>5, <2>6
<1>10. CASE UNCHANGED vars
  <2>1. now' = now /\ policy' = policy /\ UNCHANGED <<active, out, buffer, todo>>
    BY <1>10 DEF vars
  <2> QED
    BY <2>1, ClockStill DEF Reads, Has
<1> QED
    BY <1>1, <1>2, <1>3, <1>4, <1>5, <1>6, <1>7, <1>8, <1>9, <1>10 DEF Next, Step

\* Whoever reads the log sees nothing that has expired, in memory or on file.
THEOREM ReadersSeeFresh == Spec => []ExportsAreFresh
<1> DEFINE I == LogInv /\ Reads
<1>1. Init => I
    BY TypeInit, FillingInit, StampsInit, CopiesInit, OriginInit,
       ReadsInit DEF LogInv
<1>2. I /\ [Next]_vars => I'
    BY TypeStep, FillingStep, StampsStep, CopiesStep, OriginStep,
       ReadsStep DEF LogInv
<1>3. I => ExportsAreFresh
  <2> SUFFICES ASSUME I, Doing("read") PROVE ExportsAreFresh
    BY DEF ExportsAreFresh
  <2>1. todo \in Seq(Steps) /\ todo # <<>> /\ todo[1] = "read"
    BY DEF LogInv, Typed, TypeOK, Doing, Idle
  <2>2. 1 \in DOMAIN todo /\ DOMAIN todo = 1..Len(todo)
    BY <2>1, EmptySeq
  <2>3. Has("read") /\ Len(todo) = 1
    BY <2>1, <2>2 DEF Has, Reads
  <2>4. \A x \in {"retain", "prune", "trim", "strip_memory", "strip"} : ~Has(x)
    BY <2>1, <2>2, <2>3 DEF Has
  <2> QED
    BY <2>3, <2>4 DEF ExportsAreFresh, Reads
<1>4. Spec => []I
    BY <1>1, <1>2, PTL DEF Spec
<1> QED
    BY <1>3, <1>4, PTL
-----------------------------------------------------------------------------
(* Chains.                                                                 *)

Hashed(l) == l.hash # NoHash

\* The hash the line after the last has to be linked to.
End(s) == Prior(s, Len(s) + 1)
Extends(l, s) == l.prev = End(s) /\ l.hash = Append(l.prev, Body(l))

LEMMA ValidEnd == \A s : Valid(s) => LastHash(s) = End(s)
BY DEF Valid, LastHash, End, BrokenAt

LEMMA EmptyChain == Valid(<<>>) /\ End(<<>>) = <<>>
<1>1. Len(<<>>) = 0 /\ DOMAIN <<>> = {}
    BY EmptySeq
<1>2. {j \in 1..0 : <<>>[j].hash # NoHash} = {}
    OBVIOUS
<1> QED
    BY <1>1, <1>2 DEF Valid, Breaks, End, Prior

LEMMA UnhashedValid ==
    ASSUME NEW s, \A k \in DOMAIN s : ~Hashed(s[k])
    PROVE  Valid(s)
BY DEF Hashed, Valid, Breaks, Unlinked, Altered

\* When the line before k has a hash, it is the one that k has to follow.
LEMMA PriorLine ==
    ASSUME NEW s \in Seq(Line), NEW k \in 2..Len(s) + 1, Hashed(s[k - 1])
    PROVE  Prior(s, k) = s[k - 1].hash
<1> DEFINE J == {j \in 1..k - 1 : s[j].hash # NoHash}
<1>1. k - 1 \in J /\ \A i \in J : i <= k - 1
    BY DEF Hashed
<1>2. (CHOOSE j \in J : \A i \in J : i <= j) = k - 1
  <2> DEFINE m == CHOOSE j \in J : \A i \in J : i <= j
  <2>1. m \in J /\ \A i \in J : i <= m
    BY <1>1
  <2>2. m <= k - 1 /\ k - 1 <= m /\ m \in Int /\ k - 1 \in Int
    BY <1>1, <2>1
  <2> HIDE DEF m
  <2>3. m = k - 1
    BY <2>2
  <2> QED
    BY <2>3 DEF m
<1>3. J # {}
    BY <1>1
<1> HIDE DEF J
<1>4. Prior(s, k) = s[CHOOSE j \in J : \A i \in J : i <= j].hash
    BY <1>3 DEF Prior, J
<1> QED
    BY <1>2, <1>4

LEMMA PriorFirst == \A s : Prior(s, 1) = <<>>
<1>1. \A s : {j \in 1..1 - 1 : s[j].hash # NoHash} = {}
    OBVIOUS
<1> QED
    BY <1>1 DEF Prior

\* A line without hash changes nothing for those after it.
LEMMA PriorPrefix ==
    ASSUME NEW s \in Seq(Line), NEW l \in Line, NEW k \in 1..Len(s) + 1
    PROVE  Prior(Append(s, l), k) = Prior(s, k)
<1> DEFINE t == Append(s, l)
<1>1. \A j \in 1..k - 1 : t[j] = s[j]
    OBVIOUS
<1> HIDE DEF t
<1>2. {j \in 1..k - 1 : t[j].hash # NoHash} = {j \in 1..k - 1 : s[j].hash # NoHash}
    BY <1>1
<1> DEFINE J == {j \in 1..k - 1 : s[j].hash # NoHash}
           m == CHOOSE j \in J : \A i \in J : i <= j
<1>3. CASE J = {}
    BY <1>2, <1>3 DEF Prior, t
<1>4. CASE J # {}
  <2>1. \E j \in J : \A i \in J : i <= j
    <3>1. k - 1 \in Nat /\ J \in SUBSET (1..k - 1)
        OBVIOUS
    <3> QED
        BY <1>4, <3>1, Greatest
  <2>2. m \in J
    BY <2>1
  <2>3. Prior(s, k) = s[m].hash /\ Prior(t, k) = t[m].hash
    BY <1>2, <1>4 DEF Prior
  <2> HIDE DEF m
  <2>4. t[m] = s[m]
    BY <1>1, <2>2
  <2> QED
    BY <2>3, <2>4 DEF t
<1> QED
    BY <1>3, <1>4

\* Prior depends on the positions of the hashes before k only.
Hashes(s, k) == {j \in 1..k - 1 : s[j].hash # NoHash}
Latest(J) == CHOOSE j \in J : \A i \in J : i <= j

LEMMA PriorLatest ==
    \A s, k : Prior(s, k) = IF Hashes(s, k) = {} THEN <<>> ELSE s[Latest(Hashes(s, k))].hash
BY DEF Prior, Hashes, Latest

LEMMA PriorSkips ==
    ASSUME NEW s \in Seq(Line), Len(s) >= 1, ~Hashed(s[Len(s)])
    PROVE  Prior(s, Len(s) + 1) = Prior(s, Len(s))
<1>1. Hashes(s, Len(s) + 1) = Hashes(s, Len(s))
  <2>1. Len(s) \in Nat \ {0} /\ (Len(s) + 1) - 1 = Len(s)
    OBVIOUS
  <2>2. \A j \in 1..Len(s) : s[j].hash # NoHash => j \in 1..Len(s) - 1
    BY <2>1 DEF Hashed
  <2> QED
    BY <2>1, <2>2 DEF Hashes
<1> QED
    BY <1>1, PriorLatest

\* A line that extends a valid chain, or has no hash, leaves it valid.
LEMMA AppendChain ==
    ASSUME NEW s \in Seq(Line), Valid(s), NEW l \in Line, ~Hashed(l) \/ Extends(l, s)
    PROVE  /\ Valid(Append(s, l))
           /\ Hashed(l) => End(Append(s, l)) = l.hash
           /\ ~Hashed(l) => End(Append(s, l)) = End(s)
<1> DEFINE t == Append(s, l)
<1>1. /\ t \in Seq(Line) /\ Len(t) = Len(s) + 1 /\ t[Len(s) + 1] = l
      /\ \A k \in 1..Len(s) : t[k] = s[k]
      /\ Len(s) \in Nat /\ DOMAIN s = 1..Len(s) /\ DOMAIN t = 1..Len(s) + 1
    OBVIOUS
<1>2. \A k \in 1..Len(s) + 1 : Prior(t, k) = Prior(s, k)
    BY PriorPrefix
<1> HIDE DEF t
<1>3. ASSUME NEW k \in 1..Len(s) PROVE ~Unlinked(t, k) /\ ~Altered(t, k)
  <2>1. ~Unlinked(s, k) /\ ~Altered(s, k)
    BY <1>1 DEF Valid, Breaks
  <2> QED
    BY <1>1, <1>2, <2>1 DEF Unlinked, Altered
<1>4. ~Unlinked(t, Len(s) + 1) /\ ~Altered(t, Len(s) + 1)
  <2>1. Len(s) + 1 \in 1..Len(s) + 1
    BY <1>1
  <2>2. Prior(t, Len(s) + 1) = End(s)
    BY <1>2, <2>1 DEF End
  <2> QED
    BY <1>1, <2>2 DEF Unlinked, Altered, Extends, Hashed
<1>5. Valid(t)
  <2>1. \A k \in DOMAIN t : k \in 1..Len(s) \/ k = Len(s) + 1
    BY <1>1
  <2> QED
    BY <1>3, <1>4, <2>1 DEF Valid, Breaks
<1>6. Hashed(l) => End(t) = l.hash
  <2>1. Len(t) + 1 \in 2..Len(t) + 1 /\ (Len(t) + 1) - 1 = Len(s) + 1
    BY <1>1
  <2> QED
    BY <1>1, <2>1, PriorLine DEF End
<1>7. ~Hashed(l) => End(t) = End(s)
  <2>1. ~Hashed(l) => Prior(t, Len(t) + 1) = Prior(t, Len(t))
    BY <1>1, PriorSkips
  <2>2. Len(t) \in 1..Len(s) + 1
    BY <1>1
  <2> QED
    BY <1>1, <1>2, <2>1, <2>2 DEF End
<1> QED
    BY <1>5, <1>6, <1>7 DEF t

\* Rechained lines verify, and the last hash covers them all.
LEMMA RechainValid ==
    ASSUME NEW s \in Seq(Line)
    PROVE  Valid(Rechain(s)) /\ End(Rechain(s)) = [k \in DOMAIN s |-> Body(s[k])]
<1> DEFINE r == Rechain(s)
           Upto(n) == [j \in 1..n |-> Body(s[j])]
<1>1. r \in Seq(Line) /\ DOMAIN r = DOMAIN s /\ DOMAIN s = 1..Len(s) /\ Len(s) \in Nat
      /\ Len(r) = Len(s)
    BY RechainType
<1>2. \A n \in 0..Len(s) : Upto(n) \in Seq(BodyRec) /\ Len(Upto(n)) = n
    BY BodiesType
<1>3. ASSUME NEW k \in 1..Len(s)
      PROVE  /\ r[k].prev = Upto(k - 1) /\ Body(r[k]) = Body(s[k])
             /\ r[k].hash = Append(Upto(k - 1), Body(s[k]))
             /\ r[k].hash = Upto(k) /\ Hashed(r[k])
  <2>1. s[k] \in Line /\ k - 1 \in 0..Len(s) /\ k \in 0..Len(s)
    OBVIOUS
  <2>2. Upto(k - 1) \in Seq(BodyRec) /\ Len(Upto(k - 1)) = k - 1
    BY <1>2, <2>1
  <2>3. r[k] = Link(s[k], Upto(k - 1))
    BY <1>1 DEF Rechain
  <2>4. Body(s[k]) \in BodyRec
    BY <2>1, BodyType
  <2>5. Body(r[k]) = Body(s[k])
    BY <2>3 DEF Link, Body
  <2>6. r[k].prev = Upto(k - 1) /\ r[k].hash = Append(Upto(k - 1), Body(s[k]))
    BY <2>3 DEF Link
  <2>7. Append(Upto(k - 1), Body(s[k])) = Upto(k)
    <3>1. /\ Append(Upto(k - 1), Body(s[k])) \in Seq(BodyRec)
          /\ Len(Append(Upto(k - 1), Body(s[k]))) = k
          /\ \A j \in 1..k : Append(Upto(k - 1), Body(s[k]))[j] = Body(s[j])
      <4> DEFINE u == Upto(k - 1)
      <4>1. \A j \in 1..k - 1 : u[j] = Body(s[j])
        OBVIOUS
      <4>2. u \in Seq(BodyRec) /\ Len(u) = k - 1
        BY <2>2
      <4> HIDE DEF u
      <4>3. /\ Append(u, Body(s[k])) \in Seq(BodyRec)
            /\ Len(Append(u, Body(s[k]))) = k
            /\ \A j \in 1..k : Append(u, Body(s[k]))[j] = Body(s[j])
        BY <2>4, <4>1, <4>2
      <4> QED
        BY <4>3 DEF u
    <3>2. Upto(k) \in Seq(BodyRec) /\ Len(Upto(k)) = k /\ \A j \in 1..k : Upto(k)[j] = Body(s[j])
        BY <1>2, <2>1
    <3> HIDE DEF Upto
    <3> QED
        BY <3>1, <3>2, SeqEqual
  <2>8. Hashed(r[k])
    <3>1. Upto(k) \in Seq(BodyRec)
        BY <1>2, <2>1
    <3> HIDE DEF Upto
    <3> QED
        BY <2>6, <2>7, <3>1, SentinelAssumption DEF Hashed
  <2> QED
    BY <2>5, <2>6, <2>7, <2>8
<1> HIDE DEF r
<1>4. ASSUME NEW k \in 1..Len(s) + 1 PROVE Prior(r, k) = Upto(k - 1)
  <2>1. CASE k = 1
    <3>1. Upto(k - 1) = <<>>
      <4>1. k - 1 = 0 /\ k - 1 \in 0..Len(s)
        BY <1>1, <2>1
      <4>2. Upto(k - 1) \in Seq(BodyRec) /\ Len(Upto(k - 1)) = 0
        BY <1>2, <4>1
      <4> HIDE DEF Upto
      <4> QED
        BY <4>2, EmptySeq
    <3> QED
        BY <2>1, <3>1, PriorFirst
  <2>2. CASE k # 1
    <3>1. k - 1 \in 1..Len(s) /\ k \in 2..Len(r) + 1
        BY <1>1, <2>2
    <3>2. Hashed(r[k - 1]) /\ r[k - 1].hash = Upto(k - 1)
        BY <1>3, <3>1
    <3> HIDE DEF Upto
    <3> QED
        BY <1>1, <3>1, <3>2, PriorLine
  <2> QED
    BY <2>1, <2>2
<1>5. Valid(r)
  <2>1. ASSUME NEW k \in 1..Len(s) PROVE ~Unlinked(r, k) /\ ~Altered(r, k)
    <3>1. k \in 1..Len(s) + 1
        BY <1>1
    <3>2. Prior(r, k) = Upto(k - 1)
        BY <1>4, <3>1
    <3>3. r[k].prev = Upto(k - 1) /\ r[k].hash = Append(Upto(k - 1), Body(r[k]))
        BY <1>3
    <3> HIDE DEF Upto
    <3> QED
        BY <3>2, <3>3 DEF Unlinked, Altered
  <2> QED
    BY <1>1, <2>1 DEF Valid, Breaks
<1>6. End(r) = [k \in DOMAIN s |-> Body(s[k])]
  <2>1. Len(s) + 1 \in 1..Len(s) + 1 /\ (Len(s) + 1) - 1 = Len(s)
    BY <1>1
  <2>2. End(r) = Upto(Len(s))
    BY <1>1, <1>4, <2>1 DEF End
  <2> QED
    BY <1>1, <2>2
<1> QED
    BY <1>5, <1>6 DEF r
-----------------------------------------------------------------------------
(* The chain across handlers.                                              *)

RecordSteps == {"rotate", "clear", "sweep", "mark", "append"}

\* The lines of the log: in the file, or in a rewrite that is under way.
Lines == IF out = <<>> THEN active ELSE out

\* What is on disk verifies; the tip is the hash of its last line, and of the line
\* that a record is about to append, when there is one.
Chain ==
    /\ Waiting => \A x \in Steps \ RecordSteps : ~Has(x)
    /\ ~cut => Valid(active) /\ Valid(out)
    /\ Waiting /\ ~policy.chain => ~Hashed(line)
    /\ Waiting /\ policy.chain /\ ~cut =>
         Hashed(line) /\ Extends(line, active) /\ tip = line.hash
    /\ ~Waiting /\ policy.chain /\ ~cut => tip = End(Lines)

LEMMA RewriteChain ==
    ASSUME TypeOK, NEW s \in Seq(Line), Rewrite(s)
    PROVE  /\ ~cut' => Valid(active') /\ Valid(out')
           /\ policy.chain => tip' = End(Lines')
<1>1. active' = <<>> /\ Lines' = out'
    BY DEF Rewrite, Lines
<1>2. CASE policy.chain
  <2>1. out' = Rechain(s) /\ tip' = [k \in DOMAIN s |-> Body(s[k])]
    BY <1>2 DEF Rewrite
  <2> QED
    BY <1>1, <2>1, RechainValid, EmptyChain
<1>3. CASE ~policy.chain
  <2>1. out' = s /\ (~cut' => \A l \in Elems(s) : ~Hashed(l))
    BY <1>3 DEF Rewrite, Hashed
  <2>2. ~cut' => \A k \in DOMAIN s : ~Hashed(s[k])
    BY <2>1 DEF Elems
  <2> QED
    BY <1>1, <1>3, <2>1, <2>2, UnhashedValid, EmptyChain
<1> QED
    BY <1>2, <1>3

\* A step of a handler that touches neither the lines nor the chain.
LEMMA QuietChain ==
    ASSUME Typed, Chain, ~Idle, NEW s, Prefix(s), Then(s), Head(todo) # "append",
           Waiting => \A k \in DOMAIN s : s[k] \in RecordSteps,
           UNCHANGED <<active, out, tip, line, policy, cut>>
    PROVE  Chain'
<1>1. Waiting' <=> Waiting
  <2>1. Waiting <=> Has("append")
    BY DEF Waiting, Has
  <2>2. Waiting' <=> Has("append")'
    BY DEF Waiting, Has
  <2> QED
    BY <2>1, <2>2, HasAfter, WaitingKept
<1>2. ASSUME Waiting, NEW x \in Steps \ RecordSteps PROVE ~Has(x)'
  <2>1. ~Has(x)
    BY <1>2 DEF Chain
  <2>2. ~\E k \in DOMAIN s : s[k] = x
    BY <1>2
  <2> QED
    BY <2>1, <2>2, HasAfter
<1>3. Lines' = Lines
    BY DEF Lines
<1> QED
    BY <1>1, <1>2, <1>3 DEF Chain, Extends, Hashed

\* A step that only retention, a reload or a reader takes is no record's.
LEMMA NotRecording ==
    ASSUME Typed, Chain, ~Idle, Head(todo) \notin RecordSteps
    PROVE  ~Waiting
<1>1. todo \in Seq(Steps) /\ todo # <<>> /\ Head(todo) = todo[1] /\ 1 \in DOMAIN todo
    BY EmptySeq DEF Typed, TypeOK, Idle
<1>2. Head(todo) \in Steps /\ Has(Head(todo))
    BY <1>1 DEF Has
<1> QED
    BY <1>2 DEF Chain

LEMMA ChainInit == Init => Chain
<1> SUFFICES ASSUME Init PROVE Chain
    OBVIOUS
<1>1. ~Waiting
  <2>1. todo = Startup
    BY DEF Init
  <2>2. \A k \in DOMAIN Startup : Startup[k] \in {"rotate", "retain", "warm", "sync"}
    BY StartupSteps
  <2> QED
    BY <2>1, <2>2 DEF Waiting
<1>2. ~policy.chain
    BY PolicyAssumption DEF Init, FreshMemory
<1>3. Valid(active)
  <2>1. \A k \in DOMAIN active : ~Hashed(active[k])
    BY DEF Init, Unchained, Hashed
  <2>2. PICK s : s = active
    OBVIOUS
  <2> QED
    BY <2>1, <2>2, UnhashedValid
<1>4. Valid(out)
    BY EmptyChain DEF Init
<1> QED
    BY <1>1, <1>2, <1>3, <1>4 DEF Chain

LEMMA ChainStep == Typed /\ Filling /\ Chain /\ [Next]_vars => Chain'
<1> SUFFICES ASSUME Typed, Filling, Chain, [Next]_vars PROVE Chain'
    OBVIOUS
<1> USE DEF disk, memory, observers
<1>0. /\ active \in Seq(Line) /\ out \in Seq(Line) /\ todo \in Seq(Steps)
      /\ tip \in Seq(BodyRec)
    BY DEF Typed, TypeOK
<1>1. ASSUME NEW e \in Events, Record(e) PROVE Chain'
  <2> DEFINE b == [event |-> e, at |-> now, debug |-> e.debug]
  <2>1. ~Waiting /\ out = <<>> /\ out' = <<>> /\ active' = active /\ cut' = cut /\ policy' = policy
    BY <1>1 DEF Record, Idle, Waiting, Filling, Doing
  <2>2. ChainFields(b)
    BY <1>1 DEF Record
  <2>3. Waiting' /\ \A x \in Steps \ RecordSteps : ~Has(x)'
    <3>1. todo' = <<"rotate", "append">>
        BY <1>1 DEF Record
    <3> QED
        BY <3>1 DEF Waiting, Has, RecordSteps
  <2>4. CASE policy.chain
    <3>1. line' = Link(b, tip) /\ tip' = line'.hash
        BY <2>2, <2>4 DEF ChainFields
    <3>2. line'.prev = tip /\ Body(line') = Body(b) /\ line'.hash = Append(tip, Body(b))
        BY <3>1 DEF Link, Body
    <3>3. Hashed(line')
      <4>1. b \in BodyRec
        BY <1>0, EventAssumption, SizeAssumption DEF BodyRec, Event, Typed, TypeOK
      <4>2. Append(tip, Body(b)) \in Seq(BodyRec)
        BY <1>0, <4>1, BodyType
      <4> QED
        BY <3>2, <4>2, SentinelAssumption DEF Hashed
    <3>4. ~cut => tip = End(active)
        BY <2>1, <2>4 DEF Chain, Lines
    <3>5. ~cut => Extends(line', active)
        BY <3>2, <3>4 DEF Extends
    <3> QED
        BY <2>1, <2>3, <2>4, <3>1, <3>3, <3>5 DEF Chain, Hashed, Extends
  <2>5. CASE ~policy.chain
    <3>1. ~Hashed(line')
        BY <2>2, <2>5 DEF ChainFields, Unchained, Hashed
    <3> QED
        BY <2>1, <2>3, <2>5, <3>1 DEF Chain, Hashed
  <2> QED
    BY <2>4, <2>5
<1>2. CASE Read \/ ReloadPolicy
  <2>1. ~Waiting
    BY <1>2 DEF Read, ReloadPolicy, Idle, Waiting
  <2>2. ~Waiting'
    <3> DEFINE r == Retention \o <<"read">>
    <3>1. \A k \in DOMAIN r : r[k] # "append"
        BY ReadSteps
    <3>2. todo' = r \/ todo' = <<"sync">>
        BY <1>2 DEF Read, ReloadPolicy
    <3> HIDE DEF r
    <3>3. CASE todo' = r
        BY <3>1, <3>3 DEF Waiting
    <3>4. CASE todo' = <<"sync">>
        BY <3>4 DEF Waiting
    <3> QED
        BY <3>2, <3>3, <3>4
  <2>3. UNCHANGED <<active, out, tip, line, policy, cut>>
    BY <1>2 DEF Read, ReloadPolicy
  <2> QED
    BY <2>1, <2>2, <2>3 DEF Chain, Lines
<1>3. CASE EditPolicy \/ Tick \/ UNCHANGED vars
  <2>1. UNCHANGED <<active, out, tip, line, policy, cut, todo>>
    BY <1>3 DEF EditPolicy, Tick, vars
  <2> QED
    BY <2>1 DEF Chain, Lines, Waiting, Has, Hashed, Extends
<1>4. CASE Restart
  <2>1. /\ todo' = Startup /\ active' = active /\ out' = <<>> /\ cut' = cut /\ ~policy'.chain
    BY <1>4, PolicyAssumption DEF Restart, FreshMemory
  <2>2. ~Waiting'
    <3>1. \A k \in DOMAIN Startup : Startup[k] \in {"rotate", "retain", "warm", "sync"}
        BY StartupSteps
    <3> QED
        BY <2>1, <3>1 DEF Waiting
  <2> QED
    BY <2>1, <2>2, EmptyChain DEF Chain
<1>5. CASE SkipRotation \/ CopyOut \/ Sweep \/ Mark \/ Trim \/ StripMemory \/ WarmBuffer \/ Answer
  <2>1. ~Idle /\ Head(todo) # "append" /\ UNCHANGED <<active, out, tip, line, policy, cut>>
    BY <1>5 DEF SkipRotation, CopyOut, Sweep, Mark, Trim, StripMemory, WarmBuffer, Answer, Doing
  <2>2. PICK s \in {<<>>, <<"clear", "sweep", "mark">>} : Then(s)
    BY <1>5 DEF SkipRotation, CopyOut, Sweep, Mark, Trim, StripMemory, WarmBuffer, Answer
  <2>3. Prefix(s) /\ \A k \in DOMAIN s : s[k] \in RecordSteps
    BY <2>2, Prefixes DEF RecordSteps
  <2> QED
    BY <2>1, <2>2, <2>3, QuietChain
<1>6. CASE Clear
  <2>1. active' = <<>> /\ policy' = policy /\ line' = line /\ ~Idle /\ Then(<<>>)
        /\ Head(todo) = "clear"
        /\ tip' = (IF policy.chain THEN <<>> ELSE tip)
        /\ cut' = (policy.chain /\ "append" \in Elems(todo))
    BY <1>6 DEF Clear, Doing
  <2>2. out' = <<>>
    BY <1>6 DEF Clear, Filling, Doing
  <2>3. Waiting' => Waiting /\ \A x \in Steps \ RecordSteps : ~Has(x)'
    <3>1. Waiting' => Waiting
        BY <2>1, Prefixes, WaitingKept
    <3>2. ASSUME Waiting, NEW x \in Steps \ RecordSteps PROVE ~Has(x)'
      <4>1. ~Has(x)
        BY <3>2 DEF Chain
      <4> QED
        BY <2>1, <4>1, Prefixes, HasAfter
    <3> QED
        BY <3>1, <3>2
  <2>4. Waiting => "append" \in Elems(todo)
    BY DEF Waiting, Elems
  <2>5. Lines' = <<>>
    BY <2>1, <2>2 DEF Lines
  <2>6. Waiting' /\ ~policy.chain => ~Hashed(line)'
    BY <2>1, <2>3 DEF Chain, Hashed
  <2> QED
    BY <2>1, <2>2, <2>3, <2>4, <2>5, <2>6, EmptyChain DEF Chain
<1>7. CASE AppendLine
  <2>1. active' = Append(active, line) /\ out' = out /\ out = <<>> /\ tip' = tip /\ cut' = cut
        /\ policy' = policy /\ ~Idle /\ Head(todo) = "append"
    BY <1>7 DEF AppendLine, Doing, Filling
  <2>2. Waiting
    <3>1. todo # <<>> /\ todo[1] = "append" /\ 1 \in DOMAIN todo
        BY <1>0, <2>1, EmptySeq DEF Idle
    <3> QED
        BY <3>1 DEF Waiting
  <2>3. line \in Line /\ ~Waiting'
    BY <1>7, AppendEnds DEF Waiting, Retention
  <2>4. Lines' = active'
    BY <2>1 DEF Lines
  <2>5. PICK l \in Line : l = line
    BY <2>3
  <2>6. PICK a \in Seq(Line) : a = active
    BY <1>0
  <2>7. ~cut => Valid(a) /\ (~Hashed(l) \/ Extends(l, a))
                /\ (policy.chain => Hashed(l) /\ tip = l.hash)
    BY <2>2, <2>5, <2>6 DEF Chain
  <2>8. ~cut => Valid(Append(a, l)) /\ (policy.chain => End(Append(a, l)) = tip)
    BY <2>7, AppendChain
  <2>9. ~cut => Valid(out')
    BY <2>1 DEF Chain
  <2> QED
    BY <2>1, <2>3, <2>4, <2>5, <2>6, <2>8, <2>9 DEF Chain
<1>8. CASE Fill
  <2>1. active' = out /\ out' = <<>> /\ active = <<>> /\ UNCHANGED <<tip, line, policy, cut>>
        /\ ~Idle /\ Head(todo) = "fill" /\ Then(<<>>)
    BY <1>8 DEF Fill, Filling, Doing
  <2>2. ~Waiting /\ ~Waiting'
    BY <2>1, NotRecording, WaitingKept, Prefixes DEF RecordSteps
  <2>3. Lines' = Lines
    BY <2>1 DEF Lines
  <2> QED
    BY <2>1, <2>2, <2>3, EmptyChain DEF Chain
<1>9. CASE Retain
  <2>1. ~Idle /\ Head(todo) = "retain" /\ UNCHANGED <<active, out, tip, line, policy, cut>>
    BY <1>9 DEF Retain, Doing
  <2>2. ~Waiting
    BY <2>1, NotRecording DEF RecordSteps
  <2>3. PICK s : Prefix(s) /\ Then(s)
    BY <1>9, Prefixes DEF Retain
  <2> QED
    BY <2>1, <2>2, <2>3, QuietChain
<1>10. CASE Prune
  <2>1. ~Idle /\ Head(todo) = "prune" /\ Then(<<>>) /\ policy' = policy
    BY <1>10 DEF Prune, Doing
  <2>2. ~Waiting /\ ~Waiting'
    BY <2>1, NotRecording, WaitingKept, Prefixes DEF RecordSteps
  <2>3. PICK kept \in Kept(active, Fresh(active)) : Rewrite(kept)
    BY <1>10 DEF Prune
  <2>4. kept \in Seq(Line)
    <3>1. Fresh(active) \in SUBSET (DOMAIN active)
        BY DEF Fresh
    <3> QED
        BY <1>0, <2>3, <3>1, KeptElements
  <2> QED
    BY <2>1, <2>2, <2>3, <2>4, RewriteChain DEF Chain, Typed
<1>11. CASE Strip
  <2>1. ~Idle /\ Head(todo) = "strip" /\ policy' = policy
    BY <1>11 DEF Strip, Doing
  <2>2. ~Waiting
    BY <2>1, NotRecording DEF RecordSteps
  <2>3. CASE \E l \in Elems(active) : DebugExpired(l)
    <3> DEFINE r == [k \in DOMAIN active |-> Stripped(active[k])]
    <3>1. \A k \in 1..Len(active) : Stripped(active[k]) \in Line
        BY <1>0, StrippedType
    <3>2. r \in Seq(Line)
      <4>1. Len(active) \in Nat /\ r = [k \in 1..Len(active) |-> Stripped(active[k])]
        BY <1>0
      <4> HIDE DEF r
      <4> QED
        BY <3>1, <4>1
    <3>3. Rewrite(r) /\ Then(<<"fill">>)
        BY <1>11, <2>3 DEF Strip
    <3>4. PICK q \in Seq(Line) : Rewrite(q)
        BY <3>2, <3>3
    <3>5. ~Waiting'
        BY <2>1, <2>2, <3>3, WaitingKept, Prefixes
    <3> QED
        BY <2>1, <2>2, <3>4, <3>5, RewriteChain DEF Chain, Typed
  <2>4. CASE ~\E l \in Elems(active) : DebugExpired(l)
    <3>1. Then(<<>>) /\ UNCHANGED <<active, out, tip, line, policy, cut>>
        BY <1>11, <2>4 DEF Strip
    <3> QED
        BY <2>1, <2>2, <3>1, QuietChain, Prefixes
  <2> QED
    BY <2>3, <2>4
<1>12. CASE Sync
  <2>1. ~Idle /\ Head(todo) = "sync" /\ policy' = filePolicy /\ out = <<>>
    BY <1>12 DEF Sync, Doing, Filling
  <2>2. ~Waiting
    BY <2>1, NotRecording DEF RecordSteps
  <2>3. PICK s \in {<<>>, <<"fill">>} : Then(s)
    BY <1>12 DEF Sync
  <2>4. ~Waiting'
    BY <2>1, <2>2, <2>3, WaitingKept, Prefixes
  <2>5. CASE filePolicy.chain /\ Heals(active)
    <3>1. active' = <<>> /\ out' = Rechain(active) /\ tip' = [k \in DOMAIN active |-> Body(active[k])]
        BY <1>12, <2>5 DEF Sync
    <3>2. PICK a \in Seq(Line) : a = active
        BY <1>0
    <3>3. Valid(out') /\ tip' = End(out')
        BY <3>1, <3>2, RechainValid
    <3>4. Lines' = out'
        BY <3>1 DEF Lines
    <3> QED
        BY <2>4, <3>1, <3>3, <3>4, EmptyChain DEF Chain
  <2>6. CASE ~(filePolicy.chain /\ Heals(active))
    <3>1. /\ active' = active /\ out' = <<>>
          /\ tip' = (IF filePolicy.chain THEN LastHash(active) ELSE <<>>)
          /\ cut' = (cut /\ ~(filePolicy.chain /\ Valid(active)))
        BY <1>12, <2>1, <2>6 DEF Sync
    <3>2. ~cut' => Valid(active')
        BY <3>1 DEF Chain
    <3>3. PICK a : a = active
        OBVIOUS
    <3>4. Valid(active) => LastHash(active) = End(active)
        BY <3>3, ValidEnd
    <3>5. Lines' = active'
        BY <3>1 DEF Lines
    <3> QED
        BY <2>1, <2>4, <3>1, <3>2, <3>4, <3>5, EmptyChain DEF Chain
  <2> QED
    BY <2>5, <2>6
<1> QED
    BY <1>1, <1>2, <1>3, <1>4, <1>5, <1>6, <1>7, <1>8, <1>9, <1>10, <1>11, <1>12 DEF Next, Step

\* With the chain on, and outside the two gaps that `cut` observes, the file verifies
\* between handlers, and the next record is linked to its last line.
THEOREM ChainIsSound == Spec => []ChainSound
<1> DEFINE I == Typed /\ Filling /\ Chain
<1>1. Init => I
    BY TypeInit, FillingInit, ChainInit
<1>2. I /\ [Next]_vars => I'
    BY TypeStep, FillingStep, ChainStep
<1>3. I => ChainSound
  <2> SUFFICES ASSUME I, Idle, policy.chain, ~cut PROVE Valid(active) /\ tip = LastHash(active)
    BY DEF ChainSound
  <2>1. ~Waiting /\ out = <<>>
    BY DEF Idle, Waiting, Filling, Doing
  <2>2. Valid(active) /\ tip = End(active)
    BY <2>1 DEF Chain, Lines
  <2>3. PICK a : a = active
    OBVIOUS
  <2> QED
    BY <2>2, <2>3, ValidEnd
<1>4. Spec => []I
    BY <1>1, <1>2, PTL DEF Spec
<1> QED
    BY <1>3, <1>4, PTL
-----------------------------------------------------------------------------
(* The recent view.                                                        *)

\* In the order of time, and no event twice.
Ordered(s) ==
    \A i, j \in DOMAIN s : i < j => s[i].at <= s[j].at /\ s[i].event # s[j].event

\* The events since t, the one of a record under way included.
Due(t) ==
    {e \in Events : \/ stamp[e] # NoDay /\ stamp[e] >= t
                    \/ Waiting /\ line.event = e /\ line.at >= t}

Buffered(e) == \E b \in Elems(buffer) : b.event = e
Displaced(t) == Cardinality(Due(t)) > BufferSize

\* File and buffer are in the order of time, and tell when an event happened.
Times ==
    /\ IsFiniteSet({e \in Events : stamp[e] # NoDay})
    /\ Ordered(active) /\ Ordered(out) /\ Ordered(buffer)
    /\ \A l \in Elems(active) \cup Elems(out) :
         stamp[l.event] = l.at /\ (Waiting => l.at <= line.at)
    /\ \A b \in Elems(buffer) :
         stamp[b.event] = b.at \/ (Waiting /\ b.event = line.event /\ b.at = line.at)

\* Until a restart has loaded the buffer again, it covers nothing.
Covers ==
    /\ Waiting => Buffered(line.event)
    /\ ~Has("warm") => \A l \in Elems(active) \cup Elems(out) : Buffered(l.event) \/ Displaced(l.at)

\* When the buffer is trimmed, the file holds nothing that has expired.
Trims ==
    /\ \A k \in DOMAIN todo : todo[k] = "trim" =>
         k = 1 \/ (k = 2 /\ todo[1] = "fill") \/ (k = 3 /\ todo[1] = "prune")
    /\ Has("trim") /\ ~Doing("prune") =>
         \A l \in Elems(active) \cup Elems(out) : ~Expired(l)

\* Waiting is what the other sections call having a line to append.
LEMMA WaitingHas == (Waiting <=> Has("append")) /\ (Waiting' <=> Has("append")')
BY DEF Waiting, Has

\* LastN returns the last n elements.
LEMMA LastNAt ==
    ASSUME NEW X, NEW s \in Seq(X), NEW n \in Nat \ {0}, Len(s) > n
    PROVE  /\ DOMAIN LastN(s, n) = 1..n
           /\ \A k \in 1..n : LastN(s, n)[k] = s[Len(s) - n + k] /\ Len(s) - n + k \in DOMAIN s
<1> DEFINE a == Len(s) - n + 1
<1>1. a \in 2..Len(s) /\ Len(s) \in Nat
    OBVIOUS
<1>2. LastN(s, n) = SubSeq(s, a, Len(s))
    BY DEF LastN
<1>3. /\ DOMAIN SubSeq(s, a, Len(s)) = 1..n
      /\ \A k \in 1..n : SubSeq(s, a, Len(s))[k] = s[a + k - 1]
    BY <1>1
<1>4. \A k \in 1..n : a + k - 1 = Len(s) - n + k /\ Len(s) - n + k \in DOMAIN s
    BY <1>1
<1> QED
    BY <1>2, <1>3, <1>4

LEMMA LastNOrdered ==
    ASSUME NEW X, NEW s \in Seq(X), NEW n \in Nat \ {0}, Ordered(s)
    PROVE  Ordered(LastN(s, n))
<1>1. CASE Len(s) <= n
    BY <1>1 DEF LastN
<1>2. CASE Len(s) > n
  <2> DEFINE r == LastN(s, n)
  <2>1. /\ DOMAIN r = 1..n
        /\ \A k \in 1..n : r[k] = s[Len(s) - n + k] /\ Len(s) - n + k \in DOMAIN s
    BY <1>2, LastNAt
  <2> HIDE DEF r
  <2>2. ASSUME NEW i \in 1..n, NEW j \in 1..n, i < j
        PROVE  r[i].at <= r[j].at /\ r[i].event # r[j].event
    <3>1. Len(s) - n + i < Len(s) - n + j
        BY <2>2
    <3> QED
        BY <2>1, <3>1 DEF Ordered
  <2> QED
    BY <2>1, <2>2 DEF Ordered, r
<1> QED
    BY <1>1, <1>2

\* An element of an ordered sequence is among its last n, or more than n events are
\* as late as it.
LEMMA LastCovers ==
    ASSUME NEW s \in Seq(BodyRec), Ordered(s), NEW n \in Nat \ {0}, NEW i \in DOMAIN s,
           NEW D, IsFiniteSet(D), \A j \in DOMAIN s : j >= i => s[j].event \in D
    PROVE  s[i] \in Elems(LastN(s, n)) \/ Cardinality(D) > n
<1>1. DOMAIN s = 1..Len(s) /\ Len(s) \in Nat
    OBVIOUS
<1>2. CASE Len(s) <= n
    BY <1>2 DEF LastN, Elems
<1>3. CASE Len(s) > n /\ i > Len(s) - n
  <2> DEFINE k == i - (Len(s) - n)
  <2>1. k \in 1..n /\ Len(s) - n + k = i
    BY <1>1, <1>3
  <2>2. k \in DOMAIN LastN(s, n) /\ LastN(s, n)[k] = s[i]
    <3>1. /\ DOMAIN LastN(s, n) = 1..n
          /\ \A m \in 1..n : LastN(s, n)[m] = s[Len(s) - n + m]
        BY <1>3, LastNAt
    <3> HIDE DEF k
    <3> QED
        BY <2>1, <3>1
  <2> QED
    BY <2>2 DEF Elems
<1>4. CASE Len(s) > n /\ i <= Len(s) - n
  <2> DEFINE f == [k \in 1..n + 1 |-> s[i + k - 1].event]
  <2>1. \A k \in 1..n + 1 : i + k - 1 \in DOMAIN s /\ i + k - 1 >= i
    BY <1>1, <1>4
  <2>2. \A k \in 1..n + 1 : f[k] \in D
    BY <2>1
  <2>3. ASSUME NEW k \in 1..n + 1, NEW m \in 1..n + 1, k < m PROVE f[k] # f[m]
    <3>1. i + k - 1 < i + m - 1
        BY <1>1, <2>3
    <3>2. f[k] = s[i + k - 1].event /\ f[m] = s[i + m - 1].event
        OBVIOUS
    <3> QED
        BY <2>1, <3>1, <3>2 DEF Ordered
  <2>4. DOMAIN f = 1..n + 1 /\ f = [k \in 1..n + 1 |-> f[k]]
    OBVIOUS
  <2> HIDE DEF f
  <2>5. f \in Injection(1..n + 1, D)
    <3>1. \A k, m \in 1..n + 1 : f[k] = f[m] => k = m
      <4> SUFFICES ASSUME NEW k \in 1..n + 1, NEW m \in 1..n + 1, f[k] = f[m], k # m PROVE FALSE
        OBVIOUS
      <4>1. k < m \/ m < k
        OBVIOUS
      <4> QED
        BY <2>3, <4>1
    <3>2. f \in [1..n + 1 -> D]
        BY <2>2, <2>4
    <3> QED
        BY <3>1, <3>2 DEF Injection, IsInjective
  <2>6. Cardinality(1..n + 1) <= Cardinality(D)
    BY <2>5, FS_Injection
  <2>7. Cardinality(1..n + 1) = n + 1
    <3>1. n + 1 \in Nat
        OBVIOUS
    <3>2. \A m \in Nat : Cardinality(1..m) = m
        BY FS_Interval
    <3> QED
        BY <3>1, <3>2
  <2>8. Cardinality(D) \in Nat
    BY FS_CardinalityType
  <2> QED
    BY <2>6, <2>7, <2>8
<1> QED
    BY <1>1, <1>2, <1>3, <1>4

LEMMA SameOrder ==
    ASSUME NEW s, NEW t, Ordered(s), DOMAIN t = DOMAIN s,
           \A k \in DOMAIN s : t[k].event = s[k].event /\ t[k].at = s[k].at
    PROVE  Ordered(t)
BY DEF Ordered

LEMMA KeptOrdered ==
    ASSUME NEW X, NEW s \in Seq(X), NEW K \in SUBSET (DOMAIN s), NEW r \in Kept(s, K), Ordered(s)
    PROVE  Ordered(r)
<1>1. PICK f \in [1..Cardinality(K) -> K] :
          /\ \A i, j \in DOMAIN f : i < j => f[i] < f[j]
          /\ r = [k \in DOMAIN f |-> s[f[k]]]
    BY DEF Kept
<1>2. DOMAIN r = DOMAIN f /\ \A k \in DOMAIN f : r[k] = s[f[k]] /\ f[k] \in DOMAIN s
    BY <1>1
<1> QED
    BY <1>1, <1>2 DEF Ordered

\* What a rewrite does to the times of the lines.
LEMMA RewriteTimes ==
    ASSUME Typed, Prune \/ Strip \/ Sync, Ordered(active), Ordered(out)
    PROVE  /\ Ordered(active') /\ Ordered(out')
           /\ \A l \in Elems(active') \cup Elems(out') :
                \E k \in Elems(active) \cup Elems(out) : l.event = k.event /\ l.at = k.at
<1>0. active \in Seq(Line) /\ DOMAIN active = 1..Len(active) /\ Elems(<<>>) = {} /\ Ordered(<<>>)
    BY DEF Typed, TypeOK, Elems, Ordered
<1>1. ASSUME NEW s \in Seq(Line), Rewrite(s), Ordered(s) PROVE Ordered(out') /\ active' = <<>>
  <2>1. /\ active' = <<>> /\ DOMAIN out' = DOMAIN s
        /\ \A k \in DOMAIN s : out'[k].event = s[k].event /\ out'[k].at = s[k].at
    BY <1>1, RewriteType DEF Typed
  <2> QED
    BY <1>1, <2>1, SameOrder
<1>2. CASE Prune
  <2>1. PICK kept \in Kept(active, Fresh(active)) : Rewrite(kept)
    BY <1>2 DEF Prune
  <2>2. Fresh(active) \in SUBSET (DOMAIN active)
    BY DEF Fresh
  <2>3. kept \in Seq(Line) /\ Ordered(kept)
    BY <1>0, <2>2, KeptElements, KeptOrdered
  <2> QED
    BY <1>0, <1>1, <1>2, <2>1, <2>3, PruneElems
<1>3. CASE Strip
  <2> DEFINE r == [k \in DOMAIN active |-> Stripped(active[k])]
  <2>1. CASE ~\E l \in Elems(active) : DebugExpired(l)
    BY <1>3, <2>1 DEF Strip
  <2>2. CASE \E l \in Elems(active) : DebugExpired(l)
    <3>1. Rewrite(r)
        BY <1>3, <2>2 DEF Strip
    <3>2. \A k \in DOMAIN active : /\ Stripped(active[k]) \in Line
                                   /\ Stripped(active[k]).event = active[k].event
                                   /\ Stripped(active[k]).at = active[k].at
        BY <1>0, StrippedType
    <3>3. r \in Seq(Line) /\ DOMAIN r = DOMAIN active
        BY <1>0, <3>2
    <3>4. Ordered(r)
        BY <3>2, <3>3, SameOrder
    <3>5. Ordered(out') /\ active' = <<>>
        BY <1>1, <3>1, <3>3, <3>4
    <3> HIDE DEF r
    <3> QED
        BY <1>0, <1>3, <3>5, StripElems
  <2> QED
    BY <2>1, <2>2
<1>4. CASE Sync
  <2>1. CASE filePolicy.chain /\ Heals(active)
    <3>1. active' = <<>> /\ out' = Rechain(active)
        BY <1>4, <2>1 DEF Sync
    <3>2. /\ DOMAIN Rechain(active) = DOMAIN active
          /\ \A k \in DOMAIN active : Rechain(active)[k].event = active[k].event
                                      /\ Rechain(active)[k].at = active[k].at
        BY <1>0, RechainType
    <3>3. Ordered(out')
        BY <3>1, <3>2, SameOrder
    <3> QED
        BY <1>0, <3>1, <3>2, <3>3 DEF Elems
  <2>2. CASE ~(filePolicy.chain /\ Heals(active))
    BY <1>4, <2>2 DEF Sync
  <2> QED
    BY <2>1, <2>2
<1> QED
    BY <1>2, <1>3, <1>4

\* What a well-typed log is in the words of this section.
LEMMA LogTypes ==
    ASSUME Typed
    PROVE  /\ active \in Seq(Line) /\ out \in Seq(Line) /\ buffer \in Seq(BodyRec)
           /\ todo \in Seq(Steps) /\ now \in Nat /\ BufferSize \in Nat \ {0}
           /\ stamp \in [Events -> Nat \cup {NoDay}]
           /\ \A l \in Elems(active) \cup Elems(out) : l \in Line /\ l.event \in Events /\ l.at \in Nat
           /\ \A b \in Elems(buffer) : b \in BodyRec /\ b.event \in Events /\ b.at \in Nat
           /\ Waiting => line \in Line /\ line.event \in Events /\ line.at \in Nat
<1>1. /\ active \in Seq(Line) /\ out \in Seq(Line) /\ buffer \in Seq(BodyRec)
      /\ todo \in Seq(Steps) /\ now \in Nat /\ BufferSize \in Nat \ {0}
      /\ stamp \in [Events -> Nat \cup {NoDay}]
    BY SizeAssumption DEF Typed, TypeOK
<1>2. \A l \in Line : l.event \in Events /\ l.at \in Nat
    BY DEF Line
<1>3. \A b \in BodyRec : b.event \in Events /\ b.at \in Nat
    BY DEF BodyRec
<1>4. \A l \in Elems(active) \cup Elems(out) : l \in Line
    BY LinesAreTyped
<1>5. \A b \in Elems(buffer) : b \in BodyRec
    BY <1>1 DEF Elems
<1>6. Waiting => line \in Line
    BY DEF Typed, Plan, Waiting
<1> QED
    BY <1>1, <1>2, <1>3, <1>4, <1>5, <1>6

LEMMA DueFinite == ASSUME Times, NEW t PROVE IsFiniteSet(Due(t))
<1>1. PICK S : S = {e \in Events : stamp[e] # NoDay}
    OBVIOUS
<1>2. IsFiniteSet(S \cup {line.event})
    BY <1>1, FS_AddElement DEF Times
<1>3. Due(t) \in SUBSET (S \cup {line.event})
    BY <1>1 DEF Due
<1> QED
    BY <1>2, <1>3, FS_Subset

LEMMA DueFiniteNext == ASSUME Times', NEW t PROVE IsFiniteSet(Due(t)')
<1>1. PICK S : S = {e \in Events : stamp'[e] # NoDay}
    OBVIOUS
<1>2. IsFiniteSet(S \cup {line'.event})
    BY <1>1, FS_AddElement DEF Times
<1>3. Due(t)' \in SUBSET (S \cup {line'.event})
    BY <1>1 DEF Due
<1>4. PICK D : D = Due(t)'
    OBVIOUS
<1> QED
    BY <1>2, <1>3, <1>4, FS_Subset

\* Being displaced is for good, as long as no event is forgotten.
LEMMA DisplacedGrows ==
    ASSUME NEW t, IsFiniteSet(Due(t)'), Due(t) \subseteq Due(t)', Displaced(t), Typed
    PROVE  Displaced(t)'
<1>1. PICK S : S = Due(t)
    OBVIOUS
<1>2. PICK T : T = Due(t)'
    OBVIOUS
<1>3. IsFiniteSet(T) /\ S \in SUBSET T
    BY <1>1, <1>2
<1>4. Cardinality(S) <= Cardinality(T) /\ Cardinality(S) \in Nat /\ Cardinality(T) \in Nat
    BY <1>3, FS_Subset, FS_CardinalityType
<1>5. Cardinality(S) > BufferSize /\ BufferSize \in Nat
    BY <1>1, LogTypes DEF Displaced
<1>6. Cardinality(T) > BufferSize
    BY <1>4, <1>5
<1> QED
    BY <1>2, <1>6 DEF Displaced

\* A handler's step that adds neither a line nor an event to the buffer.
LEMMA ThinnerStep ==
    ASSUME Typed, Times, Covers, ~Idle, NEW s, Prefix(s), Then(s),
           Head(todo) \notin {"append", "warm"}, line' = line, stamp' = stamp,
           Ordered(active'), Ordered(out'), Ordered(buffer'),
           \A l \in Elems(active') \cup Elems(out') :
              \E k \in Elems(active) \cup Elems(out) : l.event = k.event /\ l.at = k.at,
           \A b \in Elems(buffer') : \E c \in Elems(buffer) : b.event = c.event /\ b.at = c.at,
           \A l \in Elems(active') \cup Elems(out') : Buffered(l.event) => Buffered(l.event)',
           Waiting => (Buffered(line.event) => Buffered(line.event)')
    PROVE  Times' /\ Covers'
<1>1. Waiting' <=> Waiting
    BY HasAfter, WaitingKept, WaitingHas
<1>2. ~Has("warm")' => ~Has("warm")
    BY HasAfter
<1>3. Times'
  <2>1. IsFiniteSet({e \in Events : stamp[e] # NoDay})'
    BY DEF Times
  <2>2. \A l \in Elems(active') \cup Elems(out') : stamp'[l.event] = l.at /\ (Waiting' => l.at <= line'.at)
    BY <1>1 DEF Times
  <2>3. \A b \in Elems(buffer') :
          stamp'[b.event] = b.at \/ (Waiting' /\ b.event = line'.event /\ b.at = line'.at)
    <3> SUFFICES ASSUME NEW b \in Elems(buffer')
                 PROVE  stamp'[b.event] = b.at
                        \/ (Waiting' /\ b.event = line'.event /\ b.at = line'.at)
        OBVIOUS
    <3>1. PICK c \in Elems(buffer) : b.event = c.event /\ b.at = c.at
        OBVIOUS
    <3>2. stamp[c.event] = c.at \/ (Waiting /\ c.event = line.event /\ c.at = line.at)
        BY DEF Times
    <3> QED
        BY <1>1, <3>1, <3>2
  <2> QED
    BY <2>1, <2>2, <2>3 DEF Times
<1>4. \A t : Due(t)' = Due(t)
    BY <1>1 DEF Due
<1>5. \A t : Displaced(t) => Displaced(t)'
    BY <1>4 DEF Displaced
<1>6. Covers'
  <2>1. Waiting' => Buffered(line.event)'
    BY <1>1 DEF Covers
  <2>2. ASSUME ~Has("warm")', NEW l \in Elems(active') \cup Elems(out')
        PROVE  Buffered(l.event)' \/ Displaced(l.at)'
    <3>1. PICK k \in Elems(active) \cup Elems(out) : l.event = k.event /\ l.at = k.at
        OBVIOUS
    <3>2. Buffered(k.event) \/ Displaced(k.at)
        BY <1>2, <2>2 DEF Covers
    <3> QED
        BY <1>5, <3>1, <3>2
  <2> QED
    BY <2>1, <2>2 DEF Covers
<1> QED
    BY <1>3, <1>6

\* A step that touches the times neither of the lines nor of the buffer.
LEMMA QuietTimes ==
    ASSUME Typed, Times, Covers, ~Idle, NEW s, Prefix(s), Then(s),
           Head(todo) \notin {"append", "warm"}, UNCHANGED <<line, stamp, buffer>>,
           Ordered(active'), Ordered(out'),
           \A l \in Elems(active') \cup Elems(out') :
              \E k \in Elems(active) \cup Elems(out) : l.event = k.event /\ l.at = k.at
    PROVE  Times' /\ Covers'
<1>1. Ordered(buffer')
    BY DEF Times
<1>2. \A b \in Elems(buffer') : b \in Elems(buffer)
    OBVIOUS
<1>3. \A e : Buffered(e)' <=> Buffered(e)
    BY DEF Buffered
<1> QED
    BY <1>1, <1>2, <1>3, ThinnerStep

LEMMA RecordCovers ==
    ASSUME Typed, Stamps, Times, Covers, NEW e \in Events, Record(e)
    PROVE  Times' /\ Covers'
<1> DEFINE b == [event |-> e, at |-> now, debug |-> e.debug]
           s == Append(buffer, b)
           m == Len(buffer) + 1
<1>1. /\ active \in Seq(Line) /\ out \in Seq(Line) /\ buffer \in Seq(BodyRec)
      /\ now \in Nat /\ BufferSize \in Nat \ {0}
      /\ stamp \in [Events -> Nat \cup {NoDay}] /\ NoDay \notin Nat
    BY LogTypes, SentinelAssumption
<1>2. b \in BodyRec /\ b.event = e /\ b.at = now
    BY <1>1, EventAssumption DEF BodyRec, Event
<1>3. /\ stamp[e] = NoDay /\ ChainFields(b) /\ UNCHANGED <<now, active, out, stamp>>
      /\ buffer' = LastN(s, BufferSize) /\ todo' = <<"rotate", "append">> /\ todo = <<>>
    BY <1>1 DEF Record, disk, observers, Idle
<1>4. line'.event = e /\ line'.at = now
    <2> HIDE DEF b
    <2> QED
    BY <1>2, <1>3, ChainFieldsType DEF Typed
<1>5. Waiting' /\ ~Waiting /\ ~Has("warm")
    BY <1>3 DEF Waiting, Has
<1>6. /\ s \in Seq(BodyRec) /\ DOMAIN s = 1..m /\ Len(s) = m /\ m \in Nat \ {0}
      /\ s[m] = b /\ \A k \in DOMAIN buffer : k \in DOMAIN s /\ k < m /\ s[k] = buffer[k]
      /\ \A k \in DOMAIN s : k = m \/ k \in DOMAIN buffer
    BY <1>1, <1>2
<1> HIDE DEF b, s, m
<1>7. \A k \in DOMAIN buffer : /\ buffer[k] \in Elems(buffer)
                               /\ buffer[k].event \in Events /\ buffer[k].at \in Nat
                               /\ stamp[buffer[k].event] = buffer[k].at
                               /\ buffer[k].at <= now /\ buffer[k].event # e
  <2> TAKE k \in DOMAIN buffer
  <2>1. buffer[k] \in Elems(buffer)
    BY DEF Elems
  <2>2. stamp[buffer[k].event] = buffer[k].at
    BY <1>5, <2>1 DEF Times
  <2>3. buffer[k].event \in Events /\ buffer[k].at \in Nat
    BY <2>1, LogTypes
  <2>4. buffer[k].at <= now
    BY <1>1, <2>2, <2>3 DEF Stamps
  <2> QED
    BY <1>1, <1>3, <2>1, <2>2, <2>3, <2>4
<1>8. Ordered(s)
  <2> SUFFICES ASSUME NEW i \in DOMAIN s, NEW j \in DOMAIN s, i < j
               PROVE  s[i].at <= s[j].at /\ s[i].event # s[j].event
    BY DEF Ordered
  <2>1. i \in DOMAIN buffer /\ s[i] = buffer[i]
    BY <1>6
  <2>2. CASE j = m
    BY <1>2, <1>6, <1>7, <2>1, <2>2
  <2>3. CASE j \in DOMAIN buffer
    BY <1>6, <2>1, <2>3 DEF Times, Ordered
  <2> QED
    BY <1>6, <2>2, <2>3
<1>9. \A l \in Elems(active) \cup Elems(out) :
        l.event \in Events /\ stamp[l.event] = l.at /\ l.at \in Nat /\ l.at <= now
  <2> TAKE l \in Elems(active) \cup Elems(out)
  <2>1. l.event \in Events /\ stamp[l.event] = l.at /\ l.at \in Nat
    BY LogTypes DEF Times
  <2> QED
    BY <1>1, <2>1 DEF Stamps
<1>10. Times'
  <2>1. Ordered(buffer')
    BY <1>1, <1>3, <1>6, <1>8, LastNOrdered
  <2>2. \A c \in Elems(buffer') :
          stamp'[c.event] = c.at \/ (Waiting' /\ c.event = line'.event /\ c.at = line'.at)
    <3> SUFFICES ASSUME NEW k \in DOMAIN buffer'
                 PROVE  \/ stamp'[buffer'[k].event] = buffer'[k].at
                        \/ Waiting' /\ buffer'[k].event = line'.event /\ buffer'[k].at = line'.at
        BY DEF Elems
    <3>1. PICK j \in DOMAIN s : buffer'[k] = s[j]
        <4>1. s \in Seq(BodyRec) /\ BufferSize \in Nat \ {0}
            BY <1>1, <1>6
        <4>2. \A i \in DOMAIN LastN(s, BufferSize) : \E j \in DOMAIN s : LastN(s, BufferSize)[i] = s[j]
            BY <4>1, LastNType
        <4> QED
            BY <1>3, <4>2
    <3>2. CASE j = m
        BY <1>2, <1>4, <1>5, <1>6, <3>1, <3>2
    <3>3. CASE j \in DOMAIN buffer
        BY <1>3, <1>6, <1>7, <3>1, <3>3
    <3> QED
        BY <1>6, <3>2, <3>3
  <2>3. \A l \in Elems(active') \cup Elems(out') :
           stamp'[l.event] = l.at /\ (Waiting' => l.at <= line'.at)
    BY <1>3, <1>4, <1>9
  <2>4. IsFiniteSet({d \in Events : stamp[d] # NoDay})'
    BY <1>3 DEF Times
  <2>5. Ordered(active') /\ Ordered(out')
    BY <1>3 DEF Times
  <2> QED
    BY <2>1, <2>2, <2>3, <2>4, <2>5 DEF Times
<1>11. \A t \in Nat : \A d \in Events :
         d \in Due(t)' <=> ((stamp[d] # NoDay /\ stamp[d] >= t) \/ (d = e /\ now >= t))
  <2> SUFFICES ASSUME NEW t \in Nat, NEW d \in Events
               PROVE  d \in Due(t)' <=> ((stamp[d] # NoDay /\ stamp[d] >= t) \/ (d = e /\ now >= t))
    OBVIOUS
  <2>1. d \in Due(t)' <=> ((stamp'[d] # NoDay /\ stamp'[d] >= t)
                          \/ (Waiting' /\ line'.event = d /\ line'.at >= t))
    BY DEF Due
  <2> QED
    BY <1>3, <1>4, <1>5, <2>1
<1>12. ASSUME NEW i \in DOMAIN s, NEW v, v = s[i]
       PROVE  Buffered(v.event)' \/ Displaced(v.at)'
  <2>0. \A j \in DOMAIN s : s[j].at \in Nat
    BY <1>1, <1>2, <1>6, <1>7
  <2>1. PICK t \in Nat : t = s[i].at
    BY <2>0
  <2>2. PICK D : D = Due(t)'
    OBVIOUS
  <2>3. IsFiniteSet(D)
    BY <1>10, <2>2, DueFiniteNext
  <2>4. ASSUME NEW j \in DOMAIN s, j >= i PROVE s[j].event \in D
    <3>1. s[i].at <= s[j].at
        <4>1. i < j \/ i = j
            BY <1>6, <2>4
        <4> QED
            BY <1>8, <2>0, <4>1 DEF Ordered
    <3>2. CASE j = m
        BY <1>2, <1>6, <1>11, <2>1, <2>2, <3>1, <3>2
    <3>3. CASE j \in DOMAIN buffer
        BY <1>1, <1>6, <1>7, <1>11, <2>1, <2>2, <3>1, <3>3
    <3> QED
        BY <1>6, <3>2, <3>3
  <2>5. s[i] \in Elems(LastN(s, BufferSize)) \/ Cardinality(D) > BufferSize
    BY <1>1, <1>6, <1>8, <2>3, <2>4, LastCovers
  <2> QED
    BY <1>3, <1>12, <2>1, <2>2, <2>5 DEF Buffered, Displaced
<1>13. ASSUME NEW l \in Elems(active) \cup Elems(out)
       PROVE  Buffered(l.event)' \/ Displaced(l.at)'
  <2>1. l.event \in Events /\ stamp[l.event] = l.at /\ l.at \in Nat
    BY <1>9
  <2>2. CASE Buffered(l.event)
    <3>1. PICK k \in DOMAIN buffer : buffer[k].event = l.event
        BY <2>2 DEF Buffered, Elems
    <3>2. buffer[k].at = l.at
        BY <1>7, <2>1, <3>1
    <3>3. k \in DOMAIN s /\ s[k].event = l.event /\ s[k].at = l.at
        BY <1>6, <3>1, <3>2
    <3>4. PICK v : v = s[k]
        OBVIOUS
    <3>5. Buffered(v.event)' \/ Displaced(v.at)'
        BY <1>12, <3>3, <3>4
    <3>6. v.event = l.event /\ v.at = l.at
        BY <3>3, <3>4
    <3> QED
        BY <3>5, <3>6
  <2>3. CASE Displaced(l.at)
    <3>1. Due(l.at) \subseteq Due(l.at)'
        <4>1. \A d \in Due(l.at) : d \in Events /\ stamp[d] # NoDay /\ stamp[d] >= l.at
            BY <1>5 DEF Due
        <4>2. \A d \in Due(l.at) : d \in Due(l.at)'
            BY <1>11, <2>1, <4>1
        <4> QED
            BY <4>2
    <3>2. IsFiniteSet(Due(l.at)')
        BY <1>10, DueFiniteNext
    <3> QED
        BY <2>3, <3>1, <3>2, DisplacedGrows
  <2> QED
    BY <1>5, <2>2, <2>3 DEF Covers
<1>14. Buffered(e)'
  <2>1. IsFiniteSet({e}) /\ Cardinality({e}) = 1
    BY FS_Singleton
  <2>2. m \in DOMAIN s /\ \A j \in DOMAIN s : j >= m => s[j].event \in {e}
    BY <1>2, <1>6
  <2>3. s[m] \in Elems(LastN(s, BufferSize)) \/ Cardinality({e}) > BufferSize
    BY <1>1, <1>6, <1>8, <2>1, <2>2, LastCovers
  <2>4. s[m] \in Elems(LastN(s, BufferSize))
    BY <1>1, <2>1, <2>3
  <2> QED
    BY <1>2, <1>3, <1>6, <2>4 DEF Buffered
<1>15. Buffered(line.event)'
    BY <1>4, <1>14 DEF Buffered
<1>16. Covers'
    BY <1>3, <1>13, <1>15 DEF Covers
<1> QED
    BY <1>10, <1>16

LEMMA AppendCovers ==
    ASSUME Typed, Filling, Stamps, Chain, Times, Covers, AppendLine
    PROVE  Times' /\ Covers'
<1>1. /\ active \in Seq(Line) /\ todo \in Seq(Steps)
      /\ stamp \in [Events -> Nat \cup {NoDay}] /\ NoDay \notin Nat
    BY LogTypes, SentinelAssumption
<1>2. /\ line \in Line /\ line.event \in Events /\ line.at \in Nat
      /\ active' = Append(active, line) /\ stamp' = [stamp EXCEPT ![line.event] = line.at]
      /\ UNCHANGED <<now, buffer, out>>
    BY AppendEnds DEF AppendLine, Line
<1>3. Waiting /\ out = <<>> /\ stamp[line.event] = NoDay
  <2>1. 1 \in DOMAIN todo /\ todo[1] = "append"
    BY <1>1, EmptySeq DEF AppendLine, Doing, Idle
  <2>2. Waiting
    BY <2>1 DEF Waiting
  <2> QED
    BY <2>2 DEF Stamps, Filling, Doing, AppendLine
<1>4. ~Waiting'
  <2>1. PICK s \in {<<>>, Retention} : todo' = s
    BY AppendEnds
  <2> QED
    BY <2>1 DEF Waiting, Retention
<1>5. ~Has("warm")
    BY <1>3 DEF Chain, Steps, RecordSteps
<1>6. /\ \A e \in Events : stamp[e] # NoDay => stamp'[e] = stamp[e] /\ e # line.event
      /\ stamp'[line.event] = line.at
      /\ \A e \in Events : stamp'[e] # NoDay => stamp[e] # NoDay \/ e = line.event
    BY <1>1, <1>2, <1>3
<1>7. Elems(out') = {} /\ \A l \in Elems(active') : l \in Elems(active) \/ l = line
  <2>1. DOMAIN active' = 1..Len(active) + 1 /\ active'[Len(active) + 1] = line
        /\ \A k \in 1..Len(active) : active'[k] = active[k]
    BY <1>1, <1>2
  <2> QED
    BY <1>1, <1>2, <1>3, <2>1 DEF Elems
<1>8. \A l \in Elems(active) : /\ l.event \in Events /\ l.at \in Nat /\ stamp[l.event] = l.at
                               /\ stamp'[l.event] = l.at /\ l.event # line.event /\ l.at <= line.at
  <2> TAKE l \in Elems(active)
  <2>1. l.event \in Events /\ l.at \in Nat /\ stamp[l.event] = l.at /\ l.at <= line.at
    BY <1>3, LogTypes DEF Times
  <2> QED
    BY <1>1, <1>6, <2>1
<1>9. Ordered(active')
  <2> DEFINE m == Len(active) + 1
  <2>1. /\ DOMAIN active' = 1..m /\ active'[m] = line /\ DOMAIN active = 1..Len(active)
        /\ \A k \in DOMAIN active : active'[k] = active[k] /\ active[k] \in Elems(active)
        /\ \A k \in DOMAIN active' : k = m \/ k \in DOMAIN active
        /\ \A k \in DOMAIN active : k < m
    BY <1>1, <1>2 DEF Elems
  <2> HIDE DEF m
  <2>2. ASSUME NEW i \in DOMAIN active', NEW j \in DOMAIN active', i < j
        PROVE  active'[i].at <= active'[j].at /\ active'[i].event # active'[j].event
    <3>1. i \in DOMAIN active
        BY <1>1, <2>1, <2>2
    <3>2. CASE j = m
        BY <1>8, <2>1, <3>1, <3>2
    <3>3. CASE j \in DOMAIN active
        BY <2>1, <2>2, <3>1, <3>3 DEF Times, Ordered
    <3> QED
        BY <2>1, <3>2, <3>3
  <2> QED
    BY <2>2 DEF Ordered
<1>10. Times'
  <2>1. IsFiniteSet({e \in Events : stamp[e] # NoDay})'
    <3>1. PICK S : S = {e \in Events : stamp[e] # NoDay}
        OBVIOUS
    <3>2. PICK T : T = {e \in Events : stamp'[e] # NoDay}
        OBVIOUS
    <3>3. IsFiniteSet(S \cup {line.event})
        BY <3>1, FS_AddElement DEF Times
    <3>4. T \in SUBSET (S \cup {line.event})
        BY <1>6, <3>1, <3>2
    <3> QED
        BY <3>2, <3>3, <3>4, FS_Subset
  <2>2. Ordered(out') /\ Ordered(buffer')
    BY <1>2 DEF Times
  <2>3. \A l \in Elems(active') \cup Elems(out') : stamp'[l.event] = l.at
    BY <1>6, <1>7, <1>8
  <2>4. \A b \in Elems(buffer') : stamp'[b.event] = b.at
    <3> SUFFICES ASSUME NEW b \in Elems(buffer) PROVE stamp'[b.event] = b.at
        BY <1>2
    <3>1. b.event \in Events /\ b.at \in Nat
        BY LogTypes
    <3>2. stamp[b.event] = b.at \/ (b.event = line.event /\ b.at = line.at)
        BY DEF Times
    <3> QED
        BY <1>1, <1>6, <3>1, <3>2
  <2> QED
    BY <1>4, <1>9, <2>1, <2>2, <2>3, <2>4 DEF Times
<1>11. \A e : Buffered(e)' <=> Buffered(e)
    BY <1>2 DEF Buffered
<1>12. ASSUME NEW l \in Elems(active), Displaced(l.at) PROVE Displaced(l.at)'
  <2>1. Due(l.at) \subseteq Due(l.at)'
    <3> SUFFICES ASSUME NEW e \in Due(l.at) PROVE e \in Due(l.at)'
        OBVIOUS
    <3>1. e \in Events /\ ((stamp[e] # NoDay /\ stamp[e] >= l.at) \/ (line.event = e /\ line.at >= l.at))
        BY DEF Due
    <3>2. stamp'[e] # NoDay /\ stamp'[e] >= l.at
        BY <1>1, <1>2, <1>6, <3>1
    <3> QED
        BY <3>1, <3>2 DEF Due
  <2>2. IsFiniteSet(Due(l.at)')
    BY <1>10, DueFiniteNext
  <2> QED
    BY <1>12, <2>1, <2>2, DisplacedGrows
<1>13. \A l \in Elems(active') : Buffered(l.event)' \/ Displaced(l.at)'
    BY <1>3, <1>5, <1>7, <1>11, <1>12 DEF Covers
<1>14. Covers'
    BY <1>4, <1>7, <1>13 DEF Covers
<1> QED
    BY <1>10, <1>14

LEMMA WarmCovers ==
    ASSUME Typed, Filling, Stamps, Chain, Times, Covers, WarmBuffer
    PROVE  Times' /\ Covers'
<1> DEFINE s == [k \in DOMAIN active |-> Body(active[k])]
<1>1. /\ active \in Seq(Line) /\ BufferSize \in Nat \ {0}
      /\ stamp \in [Events -> Nat \cup {NoDay}] /\ NoDay \notin Nat
    BY LogTypes, SentinelAssumption
<1>2. buffer' = LastN(s, BufferSize) /\ Then(<<>>) /\ ~Idle /\ Head(todo) = "warm"
      /\ UNCHANGED <<now, active, out, line, stamp>>
    BY DEF WarmBuffer, Doing, disk, observers
<1>3. ~Waiting /\ ~Waiting'
  <2>1. ~Waiting
    BY <1>2, NotRecording DEF RecordSteps
  <2> QED
    BY <1>2, <2>1, Prefixes, WaitingKept
<1>4. out = <<>> /\ Elems(out) = {}
    BY <1>2 DEF Filling, Doing, Elems
<1>5. /\ s \in Seq(BodyRec) /\ DOMAIN s = DOMAIN active
      /\ \A k \in DOMAIN active : s[k].event = active[k].event /\ s[k].at = active[k].at
  <2>1. \A k \in DOMAIN active : active[k] \in Line
    BY <1>1
  <2>2. \A k \in DOMAIN active : s[k] = Body(active[k])
    OBVIOUS
  <2>3. DOMAIN s = DOMAIN active
    OBVIOUS
  <2>4. [k \in 1..Len(active) |-> Body(active[k])] \in Seq(BodyRec) /\ DOMAIN active = 1..Len(active)
    <3>1. Len(active) \in 0..Len(active)
        BY <1>1
    <3> QED
        BY <1>1, <3>1, BodiesType
  <2>5. s \in Seq(BodyRec)
    BY <2>4
  <2> HIDE DEF s
  <2> QED
    BY <2>1, <2>2, <2>3, <2>5, BodyType
<1> HIDE DEF s
<1>6. \A k \in DOMAIN s : /\ active[k] \in Elems(active)
                          /\ s[k].event \in Events /\ s[k].at \in Nat
                          /\ stamp[s[k].event] = s[k].at
  <2> TAKE k \in DOMAIN s
  <2>1. active[k] \in Elems(active)
    BY <1>5 DEF Elems
  <2>2. active[k].event \in Events /\ active[k].at \in Nat /\ stamp[active[k].event] = active[k].at
    BY <2>1, LogTypes DEF Times
  <2> QED
    BY <1>5, <2>1, <2>2
<1>7. Ordered(s)
    BY <1>5, SameOrder DEF Times
<1>8. Times'
  <2>1. Ordered(buffer')
    BY <1>1, <1>2, <1>5, <1>7, LastNOrdered
  <2>2. \A b \in Elems(buffer') : stamp'[b.event] = b.at
    <3>1. \A i \in DOMAIN LastN(s, BufferSize) : \E j \in DOMAIN s : LastN(s, BufferSize)[i] = s[j]
        BY <1>1, <1>5, LastNType
    <3>2. \A b \in Elems(buffer') : \E j \in DOMAIN s : b = s[j]
        BY <1>2, <3>1 DEF Elems
    <3> QED
        BY <1>2, <1>6, <3>2
  <2>3. IsFiniteSet({e \in Events : stamp[e] # NoDay})'
    BY <1>2 DEF Times
  <2>4. Ordered(active') /\ Ordered(out')
    BY <1>2 DEF Times
  <2>5. \A l \in Elems(active') \cup Elems(out') : stamp'[l.event] = l.at
    BY <1>2 DEF Times
  <2> QED
    BY <1>3, <2>1, <2>2, <2>3, <2>4, <2>5 DEF Times
<1>9. ASSUME NEW i \in DOMAIN s, NEW v, v = s[i]
      PROVE  Buffered(v.event)' \/ Displaced(v.at)'
  <2>1. PICK t \in Nat : t = s[i].at
    BY <1>6
  <2>2. PICK D : D = Due(t)'
    OBVIOUS
  <2>3. IsFiniteSet(D)
    BY <1>8, <2>2, DueFiniteNext
  <2>4. ASSUME NEW j \in DOMAIN s, j >= i PROVE s[j].event \in D
    <3>1. s[i].at <= s[j].at
        <4>1. DOMAIN s \subseteq Nat
            BY <1>5
        <4>2. i < j \/ i = j
            BY <2>4, <4>1
        <4> QED
            BY <1>6, <1>7, <4>2 DEF Ordered
    <3>2. s[j].event \in Events /\ stamp'[s[j].event] \in Nat /\ stamp'[s[j].event] >= t
        BY <1>2, <1>6, <2>1, <3>1
    <3>3. s[j].event \in Due(t)'
        BY <1>1, <3>2 DEF Due
    <3> QED
        BY <2>2, <3>3
  <2>5. s[i] \in Elems(LastN(s, BufferSize)) \/ Cardinality(D) > BufferSize
    BY <1>1, <1>5, <1>7, <2>3, <2>4, LastCovers
  <2>6. s[i] \in Elems(buffer') \/ Cardinality(D) > BufferSize
    BY <1>2, <2>5
  <2> QED
    BY <1>9, <2>1, <2>2, <2>6 DEF Buffered, Displaced
<1>10. ASSUME NEW l \in Elems(active) PROVE Buffered(l.event)' \/ Displaced(l.at)'
  <2>1. PICK k \in DOMAIN active : l = active[k]
    BY DEF Elems
  <2>2. PICK v : v = s[k]
    OBVIOUS
  <2>3. Buffered(v.event)' \/ Displaced(v.at)'
    BY <1>5, <1>9, <2>2
  <2>4. v.event = l.event /\ v.at = l.at
    BY <1>5, <2>1, <2>2
  <2> QED
    BY <2>3, <2>4
<1>11. Covers'
    BY <1>2, <1>3, <1>4, <1>10 DEF Covers
<1> QED
    BY <1>8, <1>11

\* A handler has nothing to trim, but right after retention has pruned.
LEMMA NothingToTrim ==
    ASSUME Typed, Trims, ~Idle, NEW s, Prefix(s), Then(s),
           Head(todo) \notin {"fill", "prune"}, \A k \in DOMAIN s : s[k] # "trim"
    PROVE  ~Has("trim")'
<1> SUFFICES ASSUME NEW k \in DOMAIN todo', todo'[k] = "trim" PROVE FALSE
    BY DEF Has
<1>1. /\ s \in Seq(Steps) /\ todo \in Seq(Steps) /\ Head(todo) = todo[1]
      /\ Len(s) \in Nat /\ Len(todo) \in Nat \ {0} /\ DOMAIN s = 1..Len(s) /\ DOMAIN todo = 1..Len(todo)
    BY EmptySeq DEF Prefix, Typed, TypeOK, Idle
<1>2. /\ DOMAIN todo' = 1..Len(s) + Len(todo) - 1
      /\ \A i \in 1..Len(s) : todo'[i] = s[i]
      /\ \A i \in Len(s) + 1..Len(s) + Len(todo) - 1 : todo'[i] = todo[i - Len(s) + 1]
  <2>1. todo' \in Seq(Steps) /\ Len(todo') = Len(s) + Len(todo) - 1
    BY <1>1, ThenSteps DEF Typed
  <2> QED
    BY <1>1, <2>1, ThenSteps DEF Typed
<1>3. k \in Len(s) + 1..Len(s) + Len(todo) - 1
    BY <1>1, <1>2
<1> DEFINE j == k - Len(s) + 1
<1>4. j \in 2..Len(todo) /\ todo[j] = "trim"
  <2>1. j \in 2..Len(todo)
    BY <1>1, <1>3
  <2>2. todo'[k] = todo[j]
    BY <1>2, <1>3
  <2> QED
    BY <2>1, <2>2
<1> HIDE DEF j
<1> QED
    BY <1>1, <1>4 DEF Trims

LEMMA TrimsStep == Typed /\ Filling /\ Trims /\ [Next]_vars => Trims'
<1> SUFFICES ASSUME Typed, Filling, Trims, [Next]_vars PROVE Trims'
    OBVIOUS
<1> USE DEF disk, memory, observers
<1>0. /\ todo \in Seq(Steps) /\ DOMAIN todo = 1..Len(todo) /\ Len(todo) \in Nat /\ Elems(<<>>) = {}
      /\ \A l \in Elems(active) \cup Elems(out) : l \in Line
    BY LogTypes DEF Elems
<1>1. ASSUME ~Has("trim")' PROVE Trims'
    BY <1>1 DEF Trims, Has
<1>2. ASSUME Then(<<>>), ~Idle
      PROVE  \A k \in DOMAIN todo' : k + 1 \in DOMAIN todo /\ todo'[k] = todo[k + 1]
  <2>1. <<>> \in Seq(Steps) /\ Len(<<>>) = 0
    BY EmptySeq
  <2>2. /\ todo' \in Seq(Steps) /\ Len(todo') = Len(todo) - 1
        /\ \A k \in 1..Len(todo') : todo'[k] = todo[k + 1]
    <3>1. /\ todo' \in Seq(Steps) /\ Len(todo') = Len(<<>>) + Len(todo) - 1
          /\ \A k \in Len(<<>>) + 1..Len(todo') : todo'[k] = todo[k - Len(<<>>) + 1]
        BY <1>2, <2>1, ThenSteps DEF Typed
    <3>2. \A k \in Nat : k - 0 + 1 = k + 1
        OBVIOUS
    <3> QED
        BY <1>0, <2>1, <3>1, <3>2
  <2> QED
    BY <1>0, <2>2
<1>3. CASE (\E e \in Events : Record(e)) \/ Read \/ ReloadPolicy \/ Restart
  <2>1. CASE Read
    <3>1. todo' \in Seq({"rotate", "retain", "read"})
        BY <2>1, ReadSteps DEF Read
    <3> QED
        BY <1>1, <3>1 DEF Has
  <2>2. CASE Restart
    <3>1. todo' \in Seq({"rotate", "retain", "warm", "sync"})
        BY <2>2, StartupSteps DEF Restart
    <3> QED
        BY <1>1, <3>1 DEF Has
  <2>3. CASE (\E e \in Events : Record(e)) \/ ReloadPolicy
    <3>1. todo' = <<"rotate", "append">> \/ todo' = <<"sync">>
        BY <2>3 DEF Record, ReloadPolicy
    <3> QED
        BY <1>1, <3>1 DEF Has
  <2> QED
    BY <1>3, <2>1, <2>2, <2>3
<1>4. CASE EditPolicy \/ Tick
  <2>1. todo' = todo /\ (todo = <<>> \/ todo = <<"rotate", "append">>)
    BY <1>4 DEF EditPolicy, Tick, Idle
  <2>2. ~Has("trim")'
    BY <2>1 DEF Has
  <2> QED
    BY <1>1, <2>2
<1>5. CASE SkipRotation \/ Clear \/ Sweep \/ Mark \/ Trim \/ StripMemory \/ WarmBuffer \/ Answer
  <2>1. Then(<<>>) /\ ~Idle /\ Head(todo) \notin {"fill", "prune"}
    BY <1>5 DEF SkipRotation, Clear, Sweep, Mark, Trim, StripMemory, WarmBuffer, Answer, Doing
  <2>2. \A k \in DOMAIN <<>> : FALSE
    OBVIOUS
  <2> QED
    BY <1>1, <2>1, <2>2, Prefixes, NothingToTrim
<1>6. CASE CopyOut
  <2>1. Then(<<"clear", "sweep", "mark">>) /\ ~Idle /\ Head(todo) = "rotate"
    BY <1>6 DEF CopyOut, Doing
  <2> QED
    BY <1>1, <2>1, Prefixes, NothingToTrim
<1>7. CASE AppendLine \/ Strip \/ Sync
  <2>1. PICK s \in {<<>>, Retention, <<"fill">>} : Then(s)
    BY <1>7 DEF AppendLine, Strip, Sync
  <2>2. ~Idle /\ Head(todo) \notin {"fill", "prune"}
    BY <1>7 DEF AppendLine, Strip, Sync, Doing
  <2>3. Prefix(s) /\ \A k \in DOMAIN s : s[k] # "trim"
    BY <2>1, Prefixes DEF Retention
  <2> QED
    BY <1>1, <2>1, <2>2, <2>3, NothingToTrim
<1>8. CASE Fill
  <2>1. /\ Then(<<>>) /\ ~Idle /\ todo[1] = "fill"
        /\ active' = out /\ out' = <<>> /\ UNCHANGED <<now, policy>>
    BY <1>0, <1>8 DEF Fill, Doing, Idle
  <2>2. \A k \in DOMAIN todo' : todo'[k] = "trim" => k = 1
    <3> TAKE k \in DOMAIN todo'
    <3> HAVE todo'[k] = "trim"
    <3>1. todo' \in Seq(Steps)
        BY TypeStep DEF Typed, TypeOK
    <3>2. k + 1 \in DOMAIN todo /\ todo[k + 1] = "trim" /\ k \in Nat \ {0}
        BY <1>2, <2>1, <3>1
    <3>3. k + 1 \in {1, 2}
        BY <2>1, <3>2 DEF Trims
    <3> QED
        BY <3>2, <3>3
  <2>3. Has("trim")' => Has("trim")
    BY <1>2, <2>1 DEF Has
  <2>4. ~Doing("prune")
    BY <1>8 DEF Fill, Doing
  <2>5. \A l \in Elems(active') \cup Elems(out') : l \in Elems(active) \cup Elems(out)
    BY <1>0, <2>1
  <2> QED
    BY <2>1, <2>2, <2>3, <2>4, <2>5, ClockStill DEF Trims
<1>9. CASE Prune
  <2>1. Then(<<>>) /\ ~Idle /\ todo[1] = "prune" /\ todo[2] = "fill" /\ UNCHANGED <<now, policy>>
    BY <1>0, <1>9 DEF Prune, Doing, Idle, Filling
  <2>2. \A k \in DOMAIN todo' : todo'[k] = "trim" => k = 2 /\ todo'[1] = "fill"
    <3> TAKE k \in DOMAIN todo'
    <3> HAVE todo'[k] = "trim"
    <3>1. todo' \in Seq(Steps)
        BY TypeStep DEF Typed, TypeOK
    <3>2. k + 1 \in DOMAIN todo /\ todo[k + 1] = "trim" /\ k \in Nat \ {0} /\ 1 \in DOMAIN todo'
        BY <1>2, <2>1, <3>1
    <3>3. k + 1 = 3
        BY <2>1, <3>2 DEF Trims
    <3>4. todo'[1] = todo[2]
        BY <1>2, <2>1, <3>2
    <3> QED
        BY <2>1, <3>2, <3>3, <3>4
  <2>3. \A l \in Elems(active') \cup Elems(out') : ~Expired(l)
    <3>1. active' = <<>> /\ \A l \in Elems(out') : \E k \in Elems(active) :
                l.event = k.event /\ l.at = k.at /\ ~Expired(k)
        BY <1>9, PruneElems
    <3> QED
        BY <1>0, <3>1 DEF Expired
  <2> QED
    BY <2>1, <2>2, <2>3, ClockStill DEF Trims
<1>10. CASE Retain
  <2>1. ~Idle /\ Head(todo) = "retain" /\ UNCHANGED <<now, active, out, policy>>
    BY <1>10 DEF Retain, Doing
  <2> DEFINE old == {b \in {Body(l) : l \in Elems(active)} : Expired(b)}
  <2>2. CASE KeepsAll(policy)
    <3>1. Then(<<"strip_memory", "strip">>)
        BY <1>10, <2>2 DEF Retain
    <3> QED
        BY <1>1, <2>1, <3>1, Prefixes, NothingToTrim
  <2>3. ASSUME NEW s, Prefix(s), Then(s), s[1] \in {"trim", "prune"}, s # <<>>,
               \A k \in DOMAIN s : s[k] = "trim" => k = 1 \/ (k = 3 /\ s[1] = "prune")
        PROVE  \A k \in DOMAIN todo' : todo'[k] = "trim" => k = 1 \/ (k = 3 /\ todo'[1] = "prune")
    <3>1. s \in Seq(Steps) /\ DOMAIN s = 1..Len(s) /\ Len(s) \in Nat /\ Len(s) > 0
          /\ Len(todo) > 0 /\ Head(todo) = todo[1]
        BY <1>0, <2>1, <2>3, EmptySeq DEF Prefix, Idle
    <3>2. /\ todo' \in Seq(Steps) /\ Len(todo') = Len(s) + Len(todo) - 1
          /\ \A k \in 1..Len(s) : todo'[k] = s[k]
          /\ \A k \in Len(s) + 1..Len(todo') : todo'[k] = todo[k - Len(s) + 1]
        BY <2>1, <2>3, <3>1, ThenSteps DEF Typed
    <3> SUFFICES ASSUME NEW k \in DOMAIN todo', todo'[k] = "trim"
                 PROVE  k = 1 \/ (k = 3 /\ todo'[1] = "prune")
        OBVIOUS
    <3>3. k \in 1..Len(todo') /\ todo'[1] = s[1]
        BY <3>1, <3>2
    <3>4. CASE k <= Len(s)
        BY <2>3, <3>1, <3>2, <3>3, <3>4
    <3>5. CASE k > Len(s)
      <4>1. k - Len(s) + 1 \in 2..Len(todo)
        BY <1>0, <3>1, <3>2, <3>3, <3>5
      <4>2. todo[k - Len(s) + 1] = "trim"
        <5>1. k \in Len(s) + 1..Len(todo')
            BY <3>1, <3>3, <3>5
        <5>2. todo'[k] = todo[k - Len(s) + 1]
            BY <3>2, <5>1
        <5> QED
            BY <5>2
      <4> QED
        BY <1>0, <2>1, <3>1, <4>1, <4>2 DEF Trims
    <3> QED
        BY <3>1, <3>3, <3>4, <3>5
  <2>4. CASE ~KeepsAll(policy) /\ old = {}
    <3>1. Then(<<"trim", "strip_memory", "strip", "sweep">>)
        BY <1>10, <2>4 DEF Retain
    <3>2. \A k \in DOMAIN todo' : todo'[k] = "trim" => k = 1 \/ (k = 3 /\ todo'[1] = "prune")
        BY <2>3, <3>1, Prefixes
    <3>3. \A l \in Elems(active) : ~Expired(l)
      <4>1. \A l \in Elems(active) : ~Expired(Body(l))
        BY <2>4
      <4>2. \A l \in Elems(active) : Body(l).event = l.event /\ Body(l).at = l.at
        BY <1>0, BodyType
      <4> QED
        BY <4>1, <4>2 DEF Expired
    <3>4. Elems(out) = {}
        BY <1>0, <2>1 DEF Filling, Doing
    <3> QED
        BY <2>1, <3>2, <3>3, <3>4, ClockStill DEF Trims
  <2>5. CASE ~KeepsAll(policy) /\ old # {}
    <3>1. Then(<<"prune", "fill", "trim", "strip_memory", "strip", "sweep">>)
        BY <1>10, <2>5 DEF Retain
    <3>2. \A k \in DOMAIN todo' : todo'[k] = "trim" => k = 1 \/ (k = 3 /\ todo'[1] = "prune")
        BY <2>3, <3>1, Prefixes
    <3>3. Doing("prune")'
        BY <2>1, <3>1, Prefixes, HeadAfter DEF Doing, Idle
    <3> QED
        BY <3>2, <3>3 DEF Trims
  <2> QED
    BY <2>2, <2>4, <2>5
<1>11. CASE UNCHANGED vars
  <2>1. UNCHANGED <<now, active, out, policy, todo>>
    BY <1>11 DEF vars
  <2> QED
    BY <2>1, ClockStill DEF Trims, Has, Doing, Idle
<1> QED
    BY <1>3, <1>4, <1>5, <1>6, <1>7, <1>8, <1>9, <1>10, <1>11 DEF Next, Step

\* A restart ends with loading the buffer.
LEMMA StartupWarms == \E k \in DOMAIN Startup : Startup[k] = "warm"
<1> DEFINE X == {"rotate", "retain", "warm", "sync"}
           a == Warm \o <<"rotate">> \o Retention \o <<"sync">>
           b == Retention
           c == <<"warm">>
<1>1. <<"rotate">> \in Seq(X) /\ <<"sync">> \in Seq(X) /\ b \in Seq(X)
      /\ c \in Seq(X) /\ Len(c) = 1 /\ c[1] = "warm"
    BY DEF Retention
<1>2. Startup = a \o (b \o c)
    BY DEF Startup, Warm
<1> HIDE DEF X, b, c
<1>3. \A s, t \in Seq(X) : /\ s \o t \in Seq(X) /\ Len(s \o t) = Len(s) + Len(t)
                           /\ \A k \in 1..Len(t) : (s \o t)[Len(s) + k] = t[k]
    OBVIOUS
<1>4. /\ b \o c \in Seq(X) /\ Len(b \o c) = Len(b) + 1
      /\ (b \o c)[Len(b) + 1] = "warm" /\ Len(b) \in Nat
  <2>1. b \in Seq(X) /\ c \in Seq(X) /\ Len(c) = 1 /\ c[1] = "warm"
    BY <1>1
  <2>2. /\ b \o c \in Seq(X) /\ Len(b \o c) = Len(b) + Len(c)
        /\ \A k \in 1..Len(c) : (b \o c)[Len(b) + k] = c[k]
    BY <1>3, <2>1
  <2>3. 1 \in 1..Len(c) /\ Len(b) \in Nat
    BY <2>1
  <2>4. (b \o c)[Len(b) + 1] = c[1]
    BY <2>2, <2>3
  <2> QED
    BY <2>1, <2>2, <2>3, <2>4
<1>5. Warm \in Seq(X) /\ Retention \in Seq(X)
    BY <1>1, <1>4 DEF Warm, b, c
<1>6. a \in Seq(X)
  <2>1. Warm \o <<"rotate">> \in Seq(X)
    BY <1>1, <1>3, <1>5
  <2>2. (Warm \o <<"rotate">>) \o Retention \in Seq(X)
    BY <1>3, <1>5, <2>1
  <2> QED
    BY <1>1, <1>3, <2>2
<1> HIDE DEF a
<1>7. PICK d : d = b \o c
    OBVIOUS
<1>8. d \in Seq(X) /\ Len(d) = Len(b) + 1 /\ d[Len(b) + 1] = "warm"
    BY <1>4, <1>7
<1>9. a \o d \in Seq(X) /\ (a \o d)[Len(a) + Len(d)] = "warm" /\ Len(a \o d) = Len(a) + Len(d)
  <2>1. /\ a \o d \in Seq(X) /\ Len(a \o d) = Len(a) + Len(d)
        /\ \A k \in 1..Len(d) : (a \o d)[Len(a) + k] = d[k]
    BY <1>3, <1>6, <1>8
  <2>2. Len(d) \in 1..Len(d) /\ d[Len(d)] = "warm"
    BY <1>4, <1>8
  <2> QED
    BY <2>1, <2>2
<1>10. Len(a) + Len(d) \in DOMAIN (a \o d)
    BY <1>4, <1>6, <1>8, <1>9
<1> QED
    BY <1>2, <1>7, <1>9, <1>10

LEMMA RecentInit == Init => Times /\ Covers /\ Trims
<1> SUFFICES ASSUME Init PROVE Times /\ Covers /\ Trims
    OBVIOUS
<1>0. Typed
    BY TypeInit
<1>1. /\ todo = Startup /\ out = <<>> /\ buffer = <<>>
      /\ stamp = [e \in Events |-> IF \E l \in Elems(active) : l.event = e THEN 0 ELSE NoDay]
    BY DEF Init, FreshMemory
<1>2. ~Waiting /\ ~Has("trim") /\ Has("warm")
  <2>1. \A k \in DOMAIN Startup : Startup[k] \in {"rotate", "retain", "warm", "sync"}
    BY StartupSteps
  <2> QED
    BY <1>1, <2>1, StartupWarms DEF Waiting, Has
<1>3. PICK s \in Shuffles(Legacy) :
        active = [k \in DOMAIN s |-> Unchained([event |-> s[k], at |-> 0, debug |-> s[k].debug])]
    BY DEF Init
<1>4. /\ DOMAIN active = DOMAIN s
      /\ \A k \in DOMAIN s : active[k].event = s[k] /\ active[k].at = 0
    BY <1>3 DEF Unchained
<1>5. \A j, k \in DOMAIN s : j # k => s[j] # s[k]
    BY DEF Shuffles
<1>6. active \in Seq(Line) /\ DOMAIN active = 1..Len(active) /\ Len(active) \in Nat
      /\ \A l \in Elems(active) : l.event \in Events
    BY <1>0, LogTypes
<1>7. Ordered(active)
  <2>1. \A i, j \in DOMAIN active : i < j => i # j
    BY <1>6
  <2> QED
    BY <1>4, <1>5, <2>1 DEF Ordered
<1>8. IsFiniteSet({e \in Events : stamp[e] # NoDay})
  <2>1. PICK T : T = {e \in Events : stamp[e] # NoDay}
    OBVIOUS
  <2>2. PICK D : D = DOMAIN active
    OBVIOUS
  <2>3. PICK g : g = [k \in D |-> active[k].event]
    OBVIOUS
  <2>4. IsFiniteSet(D)
    BY <1>6, <2>2, FS_Interval
  <2>5. \A k \in D : active[k] \in Elems(active) /\ g[k] \in T
    <3>1. \A k \in D : active[k] \in Elems(active) /\ g[k] = active[k].event
        BY <2>2, <2>3 DEF Elems
    <3>2. \A l \in Elems(active) : l.event \in Events /\ stamp[l.event] = 0
        BY <1>1, <1>6
    <3> QED
        BY <2>1, <3>1, <3>2, SentinelAssumption
  <2>6. \A e \in T : \E k \in D : g[k] = e
    <3> SUFFICES ASSUME NEW e \in T PROVE \E k \in D : g[k] = e
        OBVIOUS
    <3>1. \E l \in Elems(active) : l.event = e
        BY <1>1, <2>1
    <3> QED
        BY <2>2, <2>3, <3>1 DEF Elems
  <2>7. g \in Surjection(D, T)
    BY <2>3, <2>5, <2>6 DEF Surjection
  <2> QED
    BY <2>1, <2>4, <2>7, FS_Surjection
<1>9. Times
  <2>1. Elems(<<>>) = {} /\ Ordered(<<>>)
    BY DEF Elems, Ordered
  <2>2. \A l \in Elems(active) : stamp[l.event] = 0 /\ l.at = 0
    <3>1. \A l \in Elems(active) : \E k \in DOMAIN active : l = active[k]
        BY DEF Elems
    <3> QED
        BY <1>1, <1>4, <1>6, <3>1
  <2> QED
    BY <1>1, <1>2, <1>7, <1>8, <2>1, <2>2 DEF Times
<1> QED
    BY <1>2, <1>9 DEF Covers, Trims, Has

LEMMA RecentStep ==
    Typed /\ Filling /\ Stamps /\ Chain /\ Times /\ Covers /\ Trims /\ [Next]_vars => Times' /\ Covers'
<1> SUFFICES ASSUME Typed, Filling, Stamps, Chain, Times, Covers, Trims, [Next]_vars
             PROVE  Times' /\ Covers'
    OBVIOUS
<1> USE DEF disk, memory, observers
<1>0. /\ active \in Seq(Line) /\ buffer \in Seq(BodyRec)
      /\ Elems(<<>>) = {} /\ Ordered(<<>>) /\ Ordered(active) /\ Ordered(out) /\ Ordered(buffer)
    BY LogTypes DEF Times, Elems, Ordered
<1>1. ASSUME NEW e \in Events, Record(e) PROVE Times' /\ Covers'
    BY <1>1, RecordCovers
<1>2. ASSUME UNCHANGED <<active, out, buffer, line, stamp>>, Waiting' <=> Waiting,
             ~Has("warm")' => ~Has("warm")
      PROVE  Times' /\ Covers'
  <2>1. Times'
    BY <1>2 DEF Times
  <2>2. \A t : Due(t)' = Due(t)
    BY <1>2 DEF Due
  <2>3. \A t : Displaced(t)' <=> Displaced(t)
    BY <2>2 DEF Displaced
  <2>4. \A e : Buffered(e)' <=> Buffered(e)
    BY <1>2 DEF Buffered
  <2>5. Waiting' => Buffered(line.event)'
    <3>1. Waiting' => Buffered(line.event)
        BY <1>2 DEF Covers
    <3> QED
        BY <1>2, <3>1 DEF Buffered
  <2>6. ~Has("warm")' => \A l \in Elems(active') \cup Elems(out') : Buffered(l.event)' \/ Displaced(l.at)'
    BY <1>2, <2>3, <2>4 DEF Covers
  <2> QED
    BY <2>1, <2>5, <2>6 DEF Covers
<1>3. CASE Read \/ ReloadPolicy
  <2>1. ~Waiting /\ ~Has("warm")
    BY <1>3 DEF Read, ReloadPolicy, Idle, Waiting, Has
  <2>2. ~Waiting'
    <3>1. CASE Read
      <4>1. todo' \in Seq({"rotate", "retain", "read"})
        BY <3>1, ReadSteps DEF Read
      <4> QED
        BY <4>1 DEF Waiting
    <3>2. CASE ReloadPolicy
        BY <3>2 DEF ReloadPolicy, Waiting
    <3> QED
        BY <1>3, <3>1, <3>2
  <2> QED
    BY <1>2, <1>3, <2>1, <2>2 DEF Read, ReloadPolicy
<1>4. CASE EditPolicy \/ Tick \/ UNCHANGED vars
  <2>1. UNCHANGED <<active, out, buffer, line, stamp, todo>>
    BY <1>4 DEF EditPolicy, Tick, vars
  <2> QED
    BY <1>2, <2>1 DEF Waiting, Has
<1>5. CASE Restart
  <2>1. ~Waiting' /\ Has("warm")'
    <3>1. \A k \in DOMAIN Startup : Startup[k] \in {"rotate", "retain", "warm", "sync"}
        BY StartupSteps
    <3> QED
        BY <1>5, <3>1, StartupWarms DEF Restart, Waiting, Has
  <2>2. buffer' = <<>> /\ out' = <<>> /\ UNCHANGED <<active, stamp>>
    BY <1>5 DEF Restart, FreshMemory
  <2>3. Times'
    BY <1>0, <2>1, <2>2 DEF Times
  <2> QED
    BY <2>1, <2>3 DEF Covers
<1>6. CASE SkipRotation \/ CopyOut \/ Sweep \/ Mark \/ Retain \/ Answer
  <2>1. /\ UNCHANGED <<line, stamp, buffer, active, out>> /\ ~Idle
        /\ Head(todo) \notin {"append", "warm"}
    BY <1>6 DEF SkipRotation, CopyOut, Sweep, Mark, Retain, Answer, Doing
  <2>2. \E s : Prefix(s) /\ Then(s)
    BY <1>6, Prefixes DEF SkipRotation, CopyOut, Sweep, Mark, Retain, Answer
  <2> QED
    BY <1>0, <2>1, <2>2, QuietTimes
<1>7. CASE Clear
  <2>1. UNCHANGED <<line, stamp, buffer, out>> /\ active' = <<>> /\ ~Idle
        /\ Head(todo) = "clear" /\ Then(<<>>)
    BY <1>7 DEF Clear, Doing
  <2>2. Ordered(active') /\ Ordered(out')
    BY <1>0, <2>1
  <2>3. \A l \in Elems(active') \cup Elems(out') : l \in Elems(active) \cup Elems(out)
    BY <1>0, <2>1
  <2> QED
    BY <2>1, <2>2, <2>3, Prefixes, QuietTimes
<1>8. CASE Fill
  <2>1. UNCHANGED <<line, stamp, buffer>> /\ active' = out /\ out' = <<>> /\ ~Idle
        /\ Head(todo) = "fill" /\ Then(<<>>)
    BY <1>8 DEF Fill, Doing
  <2>2. Ordered(active') /\ Ordered(out')
    BY <1>0, <2>1
  <2>3. \A l \in Elems(active') \cup Elems(out') : l \in Elems(active) \cup Elems(out)
    BY <1>0, <2>1
  <2> QED
    BY <2>1, <2>2, <2>3, Prefixes, QuietTimes
<1>9. CASE AppendLine
    BY <1>9, AppendCovers
<1>10. CASE WarmBuffer
    BY <1>10, WarmCovers
<1>11. CASE Prune \/ Strip \/ Sync
  <2>1. /\ UNCHANGED <<line, stamp, buffer>> /\ ~Idle /\ Head(todo) \notin {"append", "warm"}
        /\ \E s : Prefix(s) /\ Then(s)
    BY <1>11, Prefixes DEF Prune, Strip, Sync, Doing
  <2> QED
    BY <1>0, <1>11, <2>1, RewriteTimes, QuietTimes
<1>12. CASE Trim
  <2>1. /\ UNCHANGED <<line, stamp, active, out>> /\ ~Idle
        /\ Head(todo) = "trim" /\ Then(<<>>) /\ buffer' \in Kept(buffer, Fresh(buffer))
    BY <1>12 DEF Trim, Doing
  <2>2. Fresh(buffer) \in SUBSET (DOMAIN buffer)
    BY DEF Fresh
  <2>3. /\ Ordered(buffer')
        /\ \A k \in DOMAIN buffer' : \E j \in Fresh(buffer) : buffer'[k] = buffer[j]
        /\ \A j \in Fresh(buffer) : \E k \in DOMAIN buffer' : buffer'[k] = buffer[j]
    <3>1. PICK r \in Kept(buffer, Fresh(buffer)) : r = buffer'
        BY <2>1
    <3>2. /\ Ordered(r)
          /\ \A k \in DOMAIN r : \E j \in Fresh(buffer) : r[k] = buffer[j]
          /\ \A j \in Fresh(buffer) : \E k \in DOMAIN r : r[k] = buffer[j]
        BY <1>0, <2>2, KeptElements, KeptOrdered
    <3> QED
        BY <3>1, <3>2
  <2>4. \A b \in Elems(buffer') : b \in Elems(buffer)
    BY <2>2, <2>3 DEF Elems
  <2>5. \A b \in Elems(buffer) : ~Expired(b) => b \in Elems(buffer')
    BY <2>3 DEF Elems, Fresh
  <2>6. ~Waiting
    BY <2>1, NotRecording DEF RecordSteps
  <2>7. ASSUME NEW l \in Elems(active) \cup Elems(out), Buffered(l.event) PROVE Buffered(l.event)'
    <3>1. PICK b \in Elems(buffer) : b.event = l.event
        BY <2>7 DEF Buffered
    <3>2. b.at = l.at
        BY <2>6, <3>1 DEF Times
    <3>3. ~Expired(l)
      <4>1. todo \in Seq(Steps) /\ todo # <<>> /\ 1 \in DOMAIN todo /\ todo[1] = "trim"
        BY <2>1, LogTypes, EmptySeq DEF Idle
      <4>2. Has("trim") /\ ~Doing("prune")
        BY <2>1, <4>1 DEF Has, Doing
      <4> QED
        BY <4>2 DEF Trims
    <3>4. ~Expired(b)
        BY <3>1, <3>2, <3>3 DEF Expired
    <3> QED
        BY <2>5, <3>1, <3>4 DEF Buffered
  <2>8. \A l \in Elems(active') \cup Elems(out') : l \in Elems(active) \cup Elems(out)
    BY <2>1
  <2>9. \A l \in Elems(active') \cup Elems(out') : Buffered(l.event) => Buffered(l.event)'
    BY <2>7, <2>8
  <2>10. Ordered(active') /\ Ordered(out')
    BY <1>0, <2>1
  <2> QED
    BY <2>1, <2>3, <2>4, <2>6, <2>8, <2>9, <2>10, Prefixes, ThinnerStep
<1>13. CASE StripMemory
  <2>1. /\ UNCHANGED <<line, stamp, active, out>> /\ ~Idle
        /\ Head(todo) = "strip_memory" /\ Then(<<>>)
        /\ buffer' = [k \in DOMAIN buffer |-> Stripped(buffer[k])]
    BY <1>13 DEF StripMemory, Doing
  <2>2. DOMAIN buffer' = DOMAIN buffer
        /\ \A k \in DOMAIN buffer : buffer'[k].event = buffer[k].event /\ buffer'[k].at = buffer[k].at
    <3>1. \A k \in DOMAIN buffer : buffer[k] \in BodyRec
        BY <1>0
    <3> QED
        BY <2>1, <3>1, StrippedType
  <2>3. Ordered(buffer')
    BY <1>0, <2>2, SameOrder
  <2>4. \A b \in Elems(buffer') : \E c \in Elems(buffer) : b.event = c.event /\ b.at = c.at
    BY <2>2 DEF Elems
  <2>5. \A e : Buffered(e) => Buffered(e)'
    BY <2>2 DEF Buffered, Elems
  <2>6. Waiting => (Buffered(line.event) => Buffered(line.event)')
    BY <2>1, NotRecording DEF RecordSteps
  <2>7. Ordered(active') /\ Ordered(out')
    BY <1>0, <2>1
  <2>8. \A l \in Elems(active') \cup Elems(out') : l \in Elems(active) \cup Elems(out)
    BY <2>1
  <2> QED
    BY <2>1, <2>3, <2>4, <2>5, <2>6, <2>7, <2>8, Prefixes, ThinnerStep
<1> QED
    BY <1>1, <1>3, <1>4, <1>5, <1>6, <1>7, <1>8, <1>9, <1>10, <1>11, <1>12, <1>13 DEF Next, Step

\* An event of the file that the recent-events view does not show was displaced by
\* later ones, for any sizes, policies and crashes (_BUFFER, warm_buffer_from_file).
THEOREM RecentMissesNothing == Spec => []RecentCoversFile
<1> DEFINE I == Typed /\ Filling /\ Stamps /\ Chain /\ Times /\ Covers /\ Trims
<1>1. Init => I
    BY TypeInit, FillingInit, StampsInit, ChainInit, RecentInit
<1>2. I /\ [Next]_vars => I'
    BY TypeStep, FillingStep, StampsStep, ChainStep, TrimsStep, RecentStep
<1>3. I => RecentCoversFile
  <2> SUFFICES ASSUME I, Idle, NEW l \in Elems(active)
               PROVE  \/ \E b \in Elems(buffer) : b.event = l.event
                      \/ Cardinality({e \in Events : stamp[e] # NoDay /\ stamp[e] >= l.at}) > BufferSize
    BY DEF RecentCoversFile
  <2>1. ~Waiting /\ ~Has("warm")
    BY DEF Idle, Waiting, Has
  <2>2. Due(l.at) = {e \in Events : stamp[e] # NoDay /\ stamp[e] >= l.at}
    BY <2>1 DEF Due
  <2> QED
    BY <2>1, <2>2 DEF Covers, Buffered, Displaced
<1>4. Spec => []I
    BY <1>1, <1>2, PTL DEF Spec
<1> QED
    BY <1>3, <1>4, PTL
=============================================================================
