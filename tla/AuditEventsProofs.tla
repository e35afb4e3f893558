--------------------------- MODULE AuditEventsProofs ---------------------------
(* Theorems of AuditDelivery and of AuditViews, about an event after it was    *)
(* recorded: it does not go missing on its way to the webhook, for any events, *)
(* sampling rules and number of attempts; and what the routes show of the      *)
(* trail is what it holds, for any retention, cap, page and bar.               *)
EXTENDS AuditDelivery, AuditViews, FiniteSetTheorems, WellFoundedInduction, TLAPS

(* Delivery.                                                               *)

States == {"none", "posting", "done", "failed", "dead", "killed"}

Types ==
    /\ rules \in Policies
    /\ counter \in [Kinds -> Nat] /\ gap \in [Kinds -> Nat]
    /\ calls \in 0..MaxEvents
    /\ threads \in [Ids -> [state : States, tries : Nat]]
    /\ received \in [Ids -> Nat]
    /\ dead \subseteq Ids /\ lost \subseteq 1..calls
    /\ reloads \in Nat /\ crashes \in Nat

\* A thread posts for each event that was recorded and kept.
Started ==
    \A id \in Ids : threads[id].state = "none" <=> id > calls \/ id \in lost

\* What the state of a thread says of its attempts.
Attempted(id) ==
    LET t == threads[id]
    IN /\ received[id] <= t.tries /\ t.tries <= Attempts
       /\ t.state = "none" => t.tries = 0
       /\ t.state = "posting" => t.tries < Attempts
       /\ t.state = "done" => received[id] > 0
       /\ t.state \in {"failed", "dead"} => t.tries = Attempts
       /\ t.state = "dead" /\ DeadLetters => id \in dead
       /\ t.state = "killed" => crashes > 0

\* Since the policy was read no more was dropped than was counted.
Spaced ==
    \A k \in Kinds : rules[k] # NoRule /\ rules[k].every > 0 =>
      gap[k] <= counter[k] % rules[k].every

Inv == Types /\ Started /\ (\A id \in Ids : Attempted(id)) /\ Spaced
-----------------------------------------------------------------------------
(* Counting modulo keep_every.                                             *)

LEMMA Division ==
    ASSUME NEW n \in Int, n > 0, NEW c \in Int
    PROVE  c = n * (c \div n) + (c % n)
BY SMT

LEMMA Remainder ==
    ASSUME NEW n \in Nat \ {0}, NEW c \in Nat
    PROVE  c % n \in 0..(n - 1) /\ c \div n \in Int
OBVIOUS

LEMMA Multiples ==
    ASSUME NEW n \in Nat \ {0}, NEW d \in Int
    PROVE  /\ d >= 1 => n * d >= n
           /\ d <= -1 => n * d <= -n
OBVIOUS

LEMMA Difference ==
    ASSUME NEW n \in Nat \ {0}, NEW p \in Int, NEW q \in Int
    PROVE  n * (p - q) = n * p - n * q
OBVIOUS

\* The remainder grows with the count until it starts over.
LEMMA CountOn ==
    ASSUME NEW n \in Nat \ {0}, NEW c \in Nat
    PROVE  (c + 1) % n = 0 \/ (c + 1) % n >= (c % n) + 1
<1> DEFINE q == c \div n
           r == c % n
           p == (c + 1) \div n
           s == (c + 1) % n
<1>1. c = n * q + r /\ c + 1 = n * p + s
  <2>1. n \in Int /\ n > 0 /\ c \in Int /\ c + 1 \in Int
    OBVIOUS
  <2> QED
    BY <2>1, Division
<1>2. r \in 0..(n - 1) /\ s \in 0..(n - 1) /\ p \in Int /\ q \in Int
    BY Remainder
<1> HIDE DEF p, q, r, s
<1>3. n * (p - q) = n * p - n * q
    BY <1>2, Difference
<1>4. p - q \in Int /\ n * p \in Int /\ n * q \in Int /\ n * (p - q) \in Int
    BY <1>2
<1>5. n * (p - q) = r + 1 - s
    BY <1>1, <1>2, <1>3, <1>4
<1>6. (p - q >= 1 => n * (p - q) >= n) /\ (p - q <= -1 => n * (p - q) <= -n)
    BY <1>4, Multiples
<1>7. CASE p - q >= 1
    BY <1>2, <1>4, <1>5, <1>6, <1>7 DEF s, r
<1>8. CASE p - q <= -1
    BY <1>2, <1>4, <1>5, <1>6, <1>8
<1>9. CASE p - q = 0
  <2>1. n * (p - q) = 0
    BY <1>9
  <2> QED
    BY <1>2, <1>5, <2>1 DEF r, s
<1> QED
    BY <1>4, <1>7, <1>8, <1>9
-----------------------------------------------------------------------------
(* The steps.                                                              *)

LEMMA Start ==
    /\ \A state \in States : \A tries \in Nat :
         /\ Thread(state, tries) \in [state : States, tries : Nat]
         /\ Thread(state, tries).state = state /\ Thread(state, tries).tries = tries
    /\ MaxEvents \in Nat /\ Attempts \in Nat \ {0} /\ DeadLetters \in BOOLEAN
BY SizeAssumption DEF Thread

\* What record() does to the event it numbers, and to no other.
LEMMA RecordEffect ==
    ASSUME Types, NEW e \in Shapes, Record(e)
    PROVE  LET id == calls + 1
           IN /\ id \in Ids /\ calls' = id /\ e.kind \in Kinds
              /\ \/ lost' = lost \cup {id} /\ threads' = threads
                 \/ lost' = lost /\ threads' = [threads EXCEPT ![id] = Thread("posting", 0)]
              /\ UNCHANGED <<rules, received, dead, reloads, crashes>>
              /\ counter' = [counter EXCEPT ![e.kind] = IF Counted(e) THEN @ + 1 ELSE @]
              /\ gap' = [gap EXCEPT ![e.kind] =
                           IF ~Counted(e) THEN @ ELSE IF Dropped(e) THEN @ + 1 ELSE 0]
<1>1. calls + 1 \in Ids /\ calls' = calls + 1
    BY Start DEF Record, Types, Ids
<1>2. e.kind \in Kinds
    BY ShapeAssumption
<1>3. /\ counter' = [counter EXCEPT ![e.kind] = IF Counted(e) THEN @ + 1 ELSE @]
      /\ UNCHANGED <<rules, received, dead, reloads, crashes>>
    BY DEF Record
<1>4. CASE Dropped(e)
  <2>1. lost' = lost \cup {calls + 1} /\ threads' = threads
    BY <1>4 DEF Record
  <2>2. gap' = [gap EXCEPT ![e.kind] = IF Counted(e) THEN @ + 1 ELSE @]
    BY <1>4 DEF Record
  <2>3. gap' = [gap EXCEPT ![e.kind] =
                  IF ~Counted(e) THEN @ ELSE IF Dropped(e) THEN @ + 1 ELSE 0]
    BY <1>4, <2>2
  <2> QED
    BY <1>1, <1>2, <1>3, <2>1, <2>3
<1>5. CASE ~Dropped(e)
  <2>1. lost' = lost /\ threads' = [threads EXCEPT ![calls + 1] = Thread("posting", 0)]
    BY <1>5 DEF Record
  <2>2. gap' = [gap EXCEPT ![e.kind] = IF Counted(e) THEN 0 ELSE @]
    BY <1>5 DEF Record
  <2>3. gap' = [gap EXCEPT ![e.kind] =
                  IF ~Counted(e) THEN @ ELSE IF Dropped(e) THEN @ + 1 ELSE 0]
    BY <1>5, <2>2
  <2> QED
    BY <1>1, <1>2, <1>3, <2>1, <2>3
<1> QED
    BY <1>4, <1>5

\* One attempt moves one thread: done, failed after the last attempt, or on.
LEMMA PostEffect ==
    ASSUME Types, NEW id \in Ids, Post(id)
    PROVE  \E state \in {"done", "failed", "posting"}, r \in Nat :
             /\ threads[id].state = "posting"
             /\ threads' = [threads EXCEPT ![id] = Thread(state, threads[id].tries + 1)]
             /\ received' = [received EXCEPT ![id] = r]
             /\ r = received[id] \/ r = received[id] + 1
             /\ state = "done" => r = received[id] + 1
             /\ state = "failed" => threads[id].tries + 1 = Attempts
             /\ state = "posting" => threads[id].tries + 1 # Attempts
             /\ UNCHANGED <<rules, sampling, calls, dead, reloads, crashes>>
<1>1. PICK arrived \in BOOLEAN, answered \in BOOLEAN :
        /\ answered => arrived
        /\ received' = [received EXCEPT ![id] = IF arrived THEN @ + 1 ELSE @]
        /\ threads' = [threads EXCEPT ![id] =
             Thread(IF answered THEN "done"
                    ELSE IF threads[id].tries + 1 = Attempts THEN "failed" ELSE "posting",
                    threads[id].tries + 1)]
    BY DEF Post
<1> DEFINE state == IF answered THEN "done"
                    ELSE IF threads[id].tries + 1 = Attempts THEN "failed" ELSE "posting"
           r == IF arrived THEN received[id] + 1 ELSE received[id]
<1>2. threads[id].state = "posting" /\ UNCHANGED <<rules, sampling, calls, dead, reloads, crashes>>
    BY DEF Post
<1>3. received[id] \in Nat /\ r \in Nat
    BY DEF Types
<1>4. received' = [received EXCEPT ![id] = r]
    BY <1>1
<1>5. threads' = [threads EXCEPT ![id] = Thread(state, threads[id].tries + 1)]
    BY <1>1
<1>6. /\ state \in {"done", "failed", "posting"}
      /\ state = "done" => r = received[id] + 1
      /\ state = "failed" => threads[id].tries + 1 = Attempts
      /\ state = "posting" => threads[id].tries + 1 # Attempts
      /\ r = received[id] \/ r = received[id] + 1
    BY <1>1
<1> HIDE DEF state, r
<1> QED
    BY <1>2, <1>3, <1>4, <1>5, <1>6

LEMMA RestartEffect ==
    ASSUME Types, Restart
    PROVE  /\ threads' \in [Ids -> [state : States, tries : Nat]]
           /\ \A id \in Ids :
                /\ threads'[id].tries = threads[id].tries
                /\ threads'[id].state = IF threads[id].state \in {"posting", "failed"}
                                        THEN "killed" ELSE threads[id].state
           /\ crashes' = crashes + 1
           /\ counter' = [k \in Kinds |-> 0] /\ gap' = [k \in Kinds |-> 0]
           /\ UNCHANGED <<rules, lost, calls, received, dead, reloads>>
<1> DEFINE t(id) == IF threads[id].state \in {"posting", "failed"}
                    THEN [threads[id] EXCEPT !.state = "killed"] ELSE threads[id]
<1>1. threads' = [id \in Ids |-> t(id)]
    BY DEF Restart
<1>2. ASSUME NEW id \in Ids
      PROVE  /\ t(id) \in [state : States, tries : Nat]
             /\ t(id).tries = threads[id].tries
             /\ t(id).state = IF threads[id].state \in {"posting", "failed"}
                              THEN "killed" ELSE threads[id].state
  <2>1. threads[id] \in [state : States, tries : Nat]
    BY DEF Types
  <2> QED
    BY <2>1 DEF States
<1> HIDE DEF t
<1>3. \A id \in Ids : threads'[id] = t(id)
    BY <1>1
<1>4. /\ crashes' = crashes + 1
      /\ counter' = [k \in Kinds |-> 0] /\ gap' = [k \in Kinds |-> 0]
      /\ UNCHANGED <<rules, lost, calls, received, dead, reloads>>
    BY DEF Restart
<1> QED
    BY <1>1, <1>2, <1>3, <1>4

LEMMA TypesStep == Types /\ [Next]_vars => Types'
<1> SUFFICES ASSUME Types, [Next]_vars PROVE Types'
    OBVIOUS
<1>1. ASSUME NEW e \in Shapes, Record(e) PROVE Types'
  <2> DEFINE id == calls + 1
             k == e.kind
  <2>1. /\ id \in Ids /\ calls' = id /\ k \in Kinds
        /\ \/ lost' = lost \cup {id} /\ threads' = threads
           \/ lost' = lost /\ threads' = [threads EXCEPT ![id] = Thread("posting", 0)]
        /\ UNCHANGED <<rules, received, dead, reloads, crashes>>
    BY <1>1, RecordEffect
  <2>2. PICK c \in Nat, g \in Nat : /\ counter' = [counter EXCEPT ![k] = c]
                                    /\ gap' = [gap EXCEPT ![k] = g]
    <3>1. counter[k] \in Nat /\ gap[k] \in Nat
        BY <2>1 DEF Types
    <3> DEFINE c == IF Counted(e) THEN counter[k] + 1 ELSE counter[k]
               g == IF ~Counted(e) THEN gap[k] ELSE IF Dropped(e) THEN gap[k] + 1 ELSE 0
    <3>2. counter' = [counter EXCEPT ![k] = c]
        BY <1>1, RecordEffect
    <3>3. gap' = [gap EXCEPT ![k] = g]
        BY <1>1, RecordEffect
    <3>4. c \in Nat /\ g \in Nat
        BY <3>1
    <3> HIDE DEF c, g
    <3> QED
        BY <3>2, <3>3, <3>4
  <2>3. calls' \in 0..MaxEvents /\ calls \in Nat
    BY <2>1, Start DEF Ids, Types
  <2> HIDE DEF k
  <2>4. counter' \in [Kinds -> Nat] /\ gap' \in [Kinds -> Nat]
    BY <2>1, <2>2 DEF Types
  <2>5. threads' \in [Ids -> [state : States, tries : Nat]]
    <3>1. Thread("posting", 0) \in [state : States, tries : Nat]
        BY Start DEF States
    <3> HIDE DEF id
    <3> QED
        BY <2>1, <3>1 DEF Types
  <2>6. lost' \subseteq 1..calls'
    <3>1. \A n \in 1..calls : n \in 1..id
        BY <2>3
    <3>2. id \in 1..id
        BY <2>3
    <3> QED
        BY <2>1, <3>1, <3>2 DEF Types
  <2> QED
    BY <2>1, <2>3, <2>4, <2>5, <2>6 DEF Types
<1>2. ASSUME NEW id \in Ids, Post(id) PROVE Types'
  <2>1. PICK state \in {"done", "failed", "posting"}, r \in Nat :
          /\ threads' = [threads EXCEPT ![id] = Thread(state, threads[id].tries + 1)]
          /\ received' = [received EXCEPT ![id] = r]
          /\ UNCHANGED <<rules, sampling, calls, dead, reloads, crashes>>
    BY <1>2, PostEffect
  <2>2. threads[id].tries + 1 \in Nat /\ state \in States
    BY DEF Types, States
  <2>3. Thread(state, threads[id].tries + 1) \in [state : States, tries : Nat]
    BY <2>2, Start
  <2>4. threads' \in [Ids -> [state : States, tries : Nat]] /\ received' \in [Ids -> Nat]
    BY <2>1, <2>3 DEF Types
  <2> QED
    BY <2>1, <2>4 DEF Types, sampling
<1>3. ASSUME NEW id \in Ids, DeadLetter(id) PROVE Types'
  <2>1. threads' \in [Ids -> [state : States, tries : Nat]]
    <3>1. threads[id] \in [state : States, tries : Nat]
        BY DEF Types
    <3>2. [threads[id] EXCEPT !.state = "dead"] \in [state : States, tries : Nat]
        BY <3>1 DEF States
    <3> QED
        BY <1>3, <3>2 DEF DeadLetter, Types
  <2>2. dead' \subseteq Ids
    BY <1>3 DEF DeadLetter, Types
  <2> QED
    BY <1>3, <2>1, <2>2 DEF DeadLetter, Types, sampling
<1>4. CASE Restart
  <2>1. /\ counter' \in [Kinds -> Nat] /\ gap' \in [Kinds -> Nat] /\ crashes' \in Nat
        /\ UNCHANGED <<rules, lost, calls, received, dead, reloads>>
    BY <1>4, RestartEffect DEF Types
  <2>2. threads' \in [Ids -> [state : States, tries : Nat]]
    BY <1>4, RestartEffect
  <2> QED
    BY <2>1, <2>2 DEF Types
<1>5. ASSUME NEW p \in Policies, Reload(p) PROVE Types'
    BY <1>5 DEF Reload, delivery, Types
<1>6. CASE UNCHANGED vars
    BY <1>6 DEF vars, sampling, delivery, Types
<1> QED
    BY <1>1, <1>2, <1>3, <1>4, <1>5, <1>6 DEF Next

LEMMA StartedStep == Types /\ Started /\ [Next]_vars => Started'
<1> SUFFICES ASSUME Types, Started, [Next]_vars PROVE Started'
    OBVIOUS
<1>1. ASSUME NEW e \in Shapes, Record(e) PROVE Started'
  <2> DEFINE id == calls + 1
  <2>1. /\ id \in Ids /\ calls' = id
        /\ \/ lost' = lost \cup {id} /\ threads' = threads
           \/ lost' = lost /\ threads' = [threads EXCEPT ![id] = Thread("posting", 0)]
    BY <1>1, RecordEffect
  <2>2. Thread("posting", 0).state = "posting"
    BY Start DEF States
  <2>3. calls \in Nat /\ id > calls /\ id \notin lost
    BY DEF Types
  <2>4. \A n \in Ids : n # id => (n > id <=> n > calls)
    BY <2>3 DEF Ids
  <2>5. ~(id > id)
    BY <2>3
  <2>6. threads[id].state = "none"
    BY <2>1, <2>3 DEF Started
  <2> HIDE DEF id
  <2>7. CASE lost' = lost \cup {id} /\ threads' = threads
    BY <2>1, <2>4, <2>5, <2>6, <2>7 DEF Started
  <2>8. CASE lost' = lost /\ threads' = [threads EXCEPT ![id] = Thread("posting", 0)]
    <3>1. \A n \in Ids : threads'[n] = IF n = id THEN Thread("posting", 0) ELSE threads[n]
        BY <2>1, <2>8 DEF Types
    <3>2. \A n \in Ids : n # id => (threads'[n].state = "none" <=> n > calls' \/ n \in lost')
        BY <2>1, <2>4, <2>8, <3>1 DEF Started
    <3>3. threads'[id].state # "none" /\ ~(id > calls' \/ id \in lost')
        BY <2>1, <2>2, <2>3, <2>5, <2>8, <3>1
    <3> QED
        BY <3>2, <3>3 DEF Started
  <2> QED
    BY <2>1, <2>7, <2>8
<1>2. ASSUME NEW id \in Ids, Post(id) PROVE Started'
  <2>1. PICK state \in {"done", "failed", "posting"} :
          /\ threads[id].state = "posting"
          /\ threads' = [threads EXCEPT ![id] = Thread(state, threads[id].tries + 1)]
          /\ UNCHANGED <<sampling, calls>>
    BY <1>2, PostEffect
  <2>2. Thread(state, threads[id].tries + 1).state = state
    BY Start DEF Types, States
  <2>3. \A n \in Ids : threads'[n].state = IF n = id THEN state ELSE threads[n].state
    BY <2>1, <2>2 DEF Types
  <2> QED
    BY <2>1, <2>3 DEF Started, sampling
<1>3. ASSUME NEW id \in Ids, DeadLetter(id) PROVE Started'
  <2>1. threads[id].state = "failed" /\ UNCHANGED <<lost, calls>>
    BY <1>3 DEF DeadLetter, sampling
  <2>2. \A n \in Ids : threads'[n].state = IF n = id THEN "dead" ELSE threads[n].state
    BY <1>3 DEF DeadLetter, Types
  <2> QED
    BY <2>1, <2>2 DEF Started
<1>4. CASE Restart
  <2>1. UNCHANGED <<lost, calls>>
        /\ \A n \in Ids : threads'[n].state = IF threads[n].state \in {"posting", "failed"}
                                              THEN "killed" ELSE threads[n].state
    BY <1>4, RestartEffect
  <2> QED
    BY <2>1 DEF Started
<1>5. CASE UNCHANGED <<threads, lost, calls>>
    BY <1>5 DEF Started
<1> QED
    BY <1>1, <1>2, <1>3, <1>4, <1>5 DEF Next, Reload, vars, sampling, delivery

LEMMA AttemptsStep ==
    ASSUME Types, Started, NEW n \in Ids, Attempted(n), [Next]_vars
    PROVE  Attempted(n)'
<1>0. threads[n] \in [state : States, tries : Nat] /\ received[n] \in Nat /\ crashes \in Nat
    BY DEF Types
<1>1. ASSUME NEW e \in Shapes, Record(e) PROVE Attempted(n)'
  <2> DEFINE id == calls + 1
  <2>1. /\ id \in Ids
        /\ threads' = threads \/ threads' = [threads EXCEPT ![id] = Thread("posting", 0)]
        /\ UNCHANGED <<received, dead, crashes>>
    BY <1>1, RecordEffect
  <2>2. Thread("posting", 0).state = "posting" /\ Thread("posting", 0).tries = 0
    BY Start DEF States
  <2>3. threads[id].state = "none"
    BY <2>1 DEF Started, Types
  <2> HIDE DEF id
  <2>4. CASE threads'[n] = threads[n]
    BY <2>1, <2>4 DEF Attempted
  <2>5. CASE n = id /\ threads'[n] = Thread("posting", 0)
    <3>1. received[n] = 0
        BY <1>0, <2>3, <2>5 DEF Attempted
    <3> QED
        BY <2>1, <2>2, <2>5, <3>1, Start DEF Attempted
  <2> QED
    BY <2>1, <2>4, <2>5 DEF Types
<1>2. ASSUME NEW id \in Ids, Post(id) PROVE Attempted(n)'
  <2>1. PICK state \in {"done", "failed", "posting"}, r \in Nat :
          /\ threads[id].state = "posting"
          /\ threads' = [threads EXCEPT ![id] = Thread(state, threads[id].tries + 1)]
          /\ received' = [received EXCEPT ![id] = r]
          /\ r = received[id] \/ r = received[id] + 1
          /\ state = "done" => r = received[id] + 1
          /\ state = "failed" => threads[id].tries + 1 = Attempts
          /\ state = "posting" => threads[id].tries + 1 # Attempts
          /\ UNCHANGED <<dead, crashes>>
    BY <1>2, PostEffect
  <2>2. CASE n # id
    <3>1. threads'[n] = threads[n] /\ received'[n] = received[n]
        BY <2>1, <2>2 DEF Types
    <3> QED
        BY <2>1, <3>1 DEF Attempted
  <2>3. CASE n = id
    <3>1. threads'[n] = Thread(state, threads[n].tries + 1) /\ received'[n] = r
        BY <2>1, <2>3 DEF Types
    <3>2. threads'[n].state = state /\ threads'[n].tries = threads[n].tries + 1
        BY <1>0, <3>1, Start DEF States
    <3>3. received[n] <= threads[n].tries /\ threads[n].tries < Attempts /\ Attempts \in Nat
        BY <2>1, <2>3, Start DEF Attempted
    <3>4. received'[n] <= threads'[n].tries /\ threads'[n].tries <= Attempts
        BY <1>0, <2>1, <2>3, <3>1, <3>2, <3>3
    <3>5. state = "posting" => threads'[n].tries < Attempts
        BY <1>0, <2>1, <2>3, <3>2, <3>3
    <3>6. state = "done" => received'[n] > 0
        BY <1>0, <2>1, <2>3, <3>1
    <3>7. state = "failed" => threads'[n].tries = Attempts
        BY <2>1, <2>3, <3>2
    <3> QED
        BY <3>2, <3>4, <3>5, <3>6, <3>7 DEF Attempted
  <2> QED
    BY <2>2, <2>3
<1>3. ASSUME NEW id \in Ids, DeadLetter(id) PROVE Attempted(n)'
  <2>1. /\ threads[id].state = "failed"
        /\ threads' = [threads EXCEPT ![id].state = "dead"]
        /\ dead' = IF DeadLetters THEN dead \cup {id} ELSE dead
        /\ UNCHANGED <<received, crashes>>
    BY <1>3 DEF DeadLetter
  <2>2. CASE n # id
    <3>1. threads'[n] = threads[n] /\ (n \in dead => n \in dead')
        BY <2>1, <2>2 DEF Types
    <3> QED
        BY <2>1, <3>1 DEF Attempted
  <2>3. CASE n = id
    <3>1. threads'[n].state = "dead" /\ threads'[n].tries = threads[n].tries
        BY <1>0, <2>1, <2>3 DEF Types
    <3>2. DeadLetters => n \in dead'
        BY <2>1, <2>3
    <3>3. received[n] <= threads[n].tries /\ threads[n].tries = Attempts
          /\ threads[n].tries <= Attempts
        BY <2>1, <2>3 DEF Attempted
    <3> QED
        BY <2>1, <3>1, <3>2, <3>3 DEF Attempted
  <2> QED
    BY <2>2, <2>3
<1>4. CASE Restart
  <2>1. /\ threads'[n].tries = threads[n].tries
        /\ threads'[n].state = IF threads[n].state \in {"posting", "failed"}
                               THEN "killed" ELSE threads[n].state
        /\ crashes' = crashes + 1 /\ UNCHANGED <<received, dead>>
    BY <1>4, RestartEffect
  <2>2. crashes' > 0
    BY <1>0, <2>1
  <2> QED
    BY <2>1, <2>2 DEF Attempted
<1>5. CASE UNCHANGED <<threads, received, dead, crashes>>
    BY <1>5 DEF Attempted
<1> QED
    BY <1>1, <1>2, <1>3, <1>4, <1>5 DEF Next, Reload, vars, delivery

LEMMA SpacedStep == Types /\ Spaced /\ [Next]_vars => Spaced'
<1> SUFFICES ASSUME Types, Spaced, [Next]_vars, NEW k \in Kinds,
                    rules'[k] # NoRule, rules'[k].every > 0
             PROVE  gap'[k] <= counter'[k] % rules'[k].every
    BY DEF Spaced
<1> DEFINE n == rules'[k].every
<1>0. n \in Nat \ {0}
  <2>1. rules' \in Policies
    BY TypesStep DEF Types
  <2>2. rules'[k] \in Rule
    BY <2>1, PolicyAssumption
  <2> QED
    BY <2>2 DEF Rule
<1>1. ASSUME NEW e \in Shapes, Record(e) PROVE gap'[k] <= counter'[k] % n
  <2>1. /\ e.kind \in Kinds /\ rules' = rules
        /\ counter' = [counter EXCEPT ![e.kind] = IF Counted(e) THEN @ + 1 ELSE @]
        /\ gap' = [gap EXCEPT ![e.kind] =
                     IF ~Counted(e) THEN @ ELSE IF Dropped(e) THEN @ + 1 ELSE 0]
    BY <1>1, RecordEffect
  <2>2. gap[k] <= counter[k] % n
    BY <2>1 DEF Spaced
  <2>3. CASE k # e.kind \/ ~Counted(e)
    <3>1. counter'[k] = counter[k] /\ gap'[k] = gap[k]
        BY <2>1, <2>3 DEF Types
    <3> QED
        BY <2>2, <3>1
  <2>4. CASE k = e.kind /\ Counted(e)
    <3>1. counter[k] \in Nat /\ gap[k] \in Nat /\ counter'[k] = counter[k] + 1
        BY <2>1, <2>4 DEF Types
    <3>2. /\ counter[k] % n \in 0..(n - 1)
          /\ (counter[k] + 1) % n \in 0..(n - 1)
          /\ (counter[k] + 1) % n = 0 \/ (counter[k] + 1) % n >= (counter[k] % n) + 1
      <4> DEFINE c == counter[k]
      <4>1. c \in Nat /\ c + 1 \in Nat
        BY <3>1
      <4> HIDE DEF c, n
      <4>2. c % n \in 0..(n - 1) /\ (c + 1) % n \in 0..(n - 1)
        BY <1>0, <4>1, Remainder
      <4>3. (c + 1) % n = 0 \/ (c + 1) % n >= (c % n) + 1
        BY <1>0, <4>1, CountOn
      <4> QED
        BY <4>2, <4>3 DEF c
    <3>3. CASE Dropped(e)
      <4>1. (counter[k] + 1) % n # 0
        BY <1>0, <2>1, <2>4, <3>3 DEF Dropped, RuleOf
      <4>2. gap'[k] = gap[k] + 1
        BY <2>1, <2>4, <3>3 DEF Types
      <4> HIDE DEF n
      <4> QED
        BY <1>0, <2>2, <3>1, <3>2, <4>1, <4>2
    <3>4. CASE ~Dropped(e)
      <4>1. gap'[k] = 0
        BY <2>1, <2>4, <3>4 DEF Types
      <4> HIDE DEF n
      <4> QED
        BY <3>1, <3>2, <4>1
    <3> QED
        BY <3>3, <3>4
  <2> QED
    BY <2>3, <2>4
<1>2. CASE Restart \/ \E p \in Policies : Reload(p)
  <2>1. gap'[k] = 0
    BY <1>2 DEF Restart, Reload
  <2>2. counter'[k] \in Nat
    BY TypesStep DEF Types
  <2>3. counter'[k] % n \in 0..(n - 1)
    BY <1>0, <2>2, Remainder
  <2>4. 0 <= counter'[k] % n
    <3> HIDE DEF n
    <3> QED
        BY <1>0, <2>3
  <2> QED
    BY <2>1, <2>4
<1>3. CASE UNCHANGED <<rules, sampling>>
    BY <1>3 DEF sampling, Spaced
<1> QED
    BY <1>1, <1>2, <1>3 DEF Next, Post, DeadLetter, vars

LEMMA Invariant == Spec => []Inv
<1>1. Init => Inv
  <2> SUFFICES ASSUME Init PROVE Inv
    OBVIOUS
  <2>1. /\ threads = [id \in Ids |-> Thread("none", 0)]
        /\ calls = 0 /\ lost = {} /\ dead = {} /\ received = [id \in Ids |-> 0]
        /\ rules \in Policies /\ reloads = 0 /\ crashes = 0
        /\ counter = [k \in Kinds |-> 0] /\ gap = [k \in Kinds |-> 0]
    BY DEF Init
  <2>2. /\ Thread("none", 0) \in [state : States, tries : Nat]
        /\ Thread("none", 0).state = "none" /\ Thread("none", 0).tries = 0
    BY Start DEF States
  <2>3. \A id \in Ids : threads[id].state = "none" /\ threads[id].tries = 0
    BY <2>1, <2>2
  <2>4. Types
    BY <2>1, <2>2, Start DEF Types
  <2>5. Started
    BY <2>1, <2>3 DEF Started, Ids
  <2>6. \A id \in Ids : Attempted(id)
    BY <2>1, <2>3, Start DEF Attempted
  <2>7. Spaced
    <3> SUFFICES ASSUME NEW k \in Kinds, rules[k] # NoRule, rules[k].every > 0
                 PROVE  gap[k] <= counter[k] % rules[k].every
        BY DEF Spaced
    <3>1. rules[k] \in Rule
        BY <2>1, PolicyAssumption
    <3>2. rules[k].every \in Nat \ {0}
        BY <3>1 DEF Rule
    <3>3. gap[k] = 0 /\ counter[k] = 0
        BY <2>1
    <3>4. counter[k] % rules[k].every >= 0
        BY <3>2, <3>3, Remainder
    <3> QED
        BY <3>3, <3>4
  <2> QED
    BY <2>4, <2>5, <2>6, <2>7 DEF Inv
<1>2. Inv /\ [Next]_vars => Inv'
  <2> SUFFICES ASSUME Inv, [Next]_vars PROVE Inv'
    OBVIOUS
  <2>1. Types' /\ Started' /\ Spaced'
    BY TypesStep, StartedStep, SpacedStep DEF Inv
  <2>2. \A id \in Ids : Attempted(id)'
    BY AttemptsStep DEF Inv
  <2> QED
    BY <2>1, <2>2 DEF Inv
<1> QED
    BY <1>1, <1>2, PTL DEF Spec
-----------------------------------------------------------------------------
(* Theorems.                                                               *)

\* Whatever is sampled, lost on the way or cut off by a restart, each event that
\* was recorded is accounted for: dropped by its rule, underway, received at most
\* Attempts times, in the dead letter file, or a victim of a restart, and of every
\* keep_every events that a rule samples one is kept (should_record_event,
\* _post_webhook, _write_dead_letter).
THEOREM NothingGoesMissing == Spec => []EventsAccountedFor
<1>1. Inv => EventsAccountedFor
  <2> SUFFICES ASSUME Inv PROVE EventsAccountedFor
    OBVIOUS
  <2>1. SamplesGoOn
    <3> SUFFICES ASSUME NEW k \in Kinds, rules[k] # NoRule, rules[k].every > 0
                 PROVE  gap[k] < rules[k].every
        BY DEF SamplesGoOn
    <3>1. rules[k] \in Rule /\ gap[k] \in Nat /\ counter[k] \in Nat
        BY PolicyAssumption DEF Inv, Types
    <3>2. rules[k].every \in Nat \ {0}
        BY <3>1 DEF Rule
    <3>3. counter[k] % rules[k].every \in 0..(rules[k].every - 1)
        BY <3>1, <3>2, Remainder
    <3>4. gap[k] <= counter[k] % rules[k].every
        BY DEF Inv, Spaced
    <3> QED
        BY <3>1, <3>2, <3>3, <3>4
  <2>2. ASSUME NEW id \in 1..calls
        PROVE  /\ id \in lost \/ Underway(id) \/ Settled(id)
               /\ received[id] <= Attempts
               /\ id \in lost => ~Arrived(id)
    <3>1. id \in Ids
        BY Start DEF Inv, Types, Ids
    <3>2. Attempted(id) /\ received[id] \in Nat /\ threads[id] \in [state : States, tries : Nat]
        BY <3>1 DEF Inv, Types
    <3>3. threads[id].state = "none" <=> id \in lost
        BY <3>1 DEF Inv, Started, Types
    <3>4. received[id] <= Attempts
        BY <3>2, Start DEF Attempted
    <3>5. id \in lost => ~Arrived(id)
        BY <3>2, <3>3 DEF Attempted, Arrived
    <3>6. ASSUME threads[id].state \in {"none", "posting", "failed"}
          PROVE  id \in lost \/ Underway(id)
        BY <3>3, <3>6 DEF Underway
    <3>7. ASSUME threads[id].state \in {"done", "killed"} PROVE Settled(id)
        BY <3>2, <3>7 DEF Attempted, Settled, Arrived
    <3>8. ASSUME threads[id].state = "dead" PROVE Settled(id)
        BY <3>2, <3>8 DEF Attempted, Settled
    <3>9. threads[id].state \in States
        BY <3>2
    <3> QED
        BY <3>4, <3>5, <3>6, <3>7, <3>8, <3>9 DEF States
  <2> QED
    BY <2>1, <2>2 DEF EventsAccountedFor
<1> QED
    BY <1>1, Invariant, PTL
-----------------------------------------------------------------------------
(* Views: the newest members of a set of places.                           *)

LEMMA Least ==
    ASSUME NEW S \in SUBSET Nat, S # {}
    PROVE  \E n \in S : \A k \in S : n <= k
<1> DEFINE Below == {1..k : k \in S}
           R == StrictSubsetOrdering(Nat)
<1>1. IsWellFoundedOn(R, FiniteSubsetsOf(Nat))
    BY FS_StrictSubsetOrderingWellFounded
<1>2. \A k \in S : IsFiniteSet(1..k) /\ 1..k \subseteq Nat
    BY FS_Interval
<1>3. Below \subseteq FiniteSubsetsOf(Nat) /\ Below # {}
    BY <1>2 DEF FiniteSubsetsOf
<1>4. PICK T \in Below : \A U \in Below : ~(<<U, T>> \in R)
  <2> HIDE DEF Below, R
  <2> QED
    BY <1>1, <1>3, WFMin
<1>5. PICK n \in S : T = 1..n
    OBVIOUS
<1>6. ASSUME NEW k \in S, k < n PROVE FALSE
  <2>1. 1..k \in Below
    OBVIOUS
  <2>2. 1..k \subseteq 1..n
    BY <1>6
  <2>3. n \in 1..n /\ n \notin 1..k
    BY <1>6
  <2>4. 1..k # 1..n
    BY <2>3
  <2>5. 1..k \in SUBSET Nat /\ 1..n \in SUBSET Nat
    BY <1>2
  <2>6. <<1..k, 1..n>> \in R
    BY <2>2, <2>4, <2>5 DEF StrictSubsetOrdering
  <2> QED
    BY <1>4, <1>5, <2>1, <2>6
<1> QED
    BY <1>6

LEMMA Greatest ==
    ASSUME NEW b \in Nat, NEW S \in SUBSET (1..b), S # {}
    PROVE  \E n \in S : \A k \in S : k <= n
<1> DEFINE T == {b - k : k \in S}
<1>1. T \in SUBSET Nat /\ T # {}
  <2>1. \A k \in S : b - k \in Nat
    OBVIOUS
  <2> QED
    BY <2>1
<1>2. PICK m \in T : \A j \in T : m <= j
    BY <1>1, Least
<1>3. PICK n \in S : m = b - n
    OBVIOUS
<1>4. \A k \in S : b - n <= b - k
    BY <1>2, <1>3
<1> QED
    BY <1>4

\* What is finite here: places of the trail.
LEMMA Places ==
    ASSUME NEW b \in Nat, NEW S \in SUBSET (1..b)
    PROVE  IsFiniteSet(S) /\ Cardinality(S) \in Nat
<1>1. IsFiniteSet(1..b)
    BY FS_Interval
<1>2. IsFiniteSet(S)
    BY <1>1, FS_Subset
<1> QED
    BY <1>2, FS_CardinalityType

LEMMA Numbers ==
    ASSUME NEW b \in Nat, NEW S \in SUBSET (1..b)
    PROVE  S \in SUBSET Nat
OBVIOUS

LEMMA Fewer ==
    ASSUME NEW b \in Nat, NEW S \in SUBSET (1..b), NEW T \in SUBSET S
    PROVE  Cardinality(T) <= Cardinality(S)
BY Places, FS_Subset

Later(S, i) == {j \in S : j > i}

LEMMA NewestMember ==
    ASSUME NEW S, NEW n
    PROVE  \A i : i \in Newest(S, n) <=> i \in S /\ Cardinality(Later(S, i)) < n
BY DEF Newest, Later

\* With a place all later ones are among the newest.
LEMMA NewestUpwards ==
    ASSUME NEW b \in Nat, NEW S \in SUBSET (1..b), NEW n \in Nat,
           NEW i \in Newest(S, n), NEW j \in S, j >= i
    PROVE  j \in Newest(S, n)
<1>1. i \in S /\ Cardinality(Later(S, i)) < n
    BY NewestMember
<1>2. Later(S, j) \subseteq Later(S, i) /\ Later(S, i) \subseteq S
  <2>1. i \in Int /\ j \in Int /\ \A k \in S : k \in Int
    BY <1>1
  <2>2. ASSUME NEW k \in S, k > j PROVE k > i
    BY <2>1, <2>2
  <2> QED
    BY <2>2 DEF Later
<1>3. Later(S, i) \in SUBSET (1..b)
    BY <1>2
<1>4. Cardinality(Later(S, j)) <= Cardinality(Later(S, i))
    BY <1>2, <1>3, Fewer
<1>5. Cardinality(Later(S, j)) \in Nat /\ Cardinality(Later(S, i)) \in Nat
    BY <1>2, <1>3, Places
<1> QED
    BY <1>1, <1>4, <1>5, NewestMember

LEMMA NewestAtMost ==
    ASSUME NEW b \in Nat, NEW S \in SUBSET (1..b), NEW n \in Nat
    PROVE  Cardinality(Newest(S, n)) <= n
<1>0. \A k \in S : k \in Nat
    OBVIOUS
<1>1. Newest(S, n) \in SUBSET S /\ Newest(S, n) \in SUBSET Nat
    BY <1>0 DEF Newest
<1>2. CASE Newest(S, n) = {}
    BY <1>2, FS_EmptySet
<1>3. CASE Newest(S, n) # {}
  <2>1. PICK i \in Newest(S, n) : \A k \in Newest(S, n) : i <= k
      BY <1>1, <1>3, Least
  <2>2. i \in S /\ Cardinality(Later(S, i)) < n
    BY <2>1, NewestMember
  <2>3. Later(S, i) \in SUBSET (1..b) /\ i \notin Later(S, i) /\ i \in 1..b
    <3>1. i \in 1..b /\ Later(S, i) \subseteq S
      BY <2>2 DEF Later
    <3>2. i \notin Later(S, i)
      BY <3>1 DEF Later
    <3> QED
      BY <3>1, <3>2
  <2>4. Newest(S, n) \subseteq Later(S, i) \cup {i}
    <3>1. \A k \in Newest(S, n) : k \in S /\ k \in Nat /\ i <= k
      BY <1>1, <2>1
    <3>2. i \in Nat
      BY <2>3
    <3>3. \A k \in Newest(S, n) : k = i \/ k > i
      BY <3>1, <3>2
    <3> QED
      BY <3>1, <3>3 DEF Later
  <2>5. Cardinality(Later(S, i) \cup {i}) = Cardinality(Later(S, i)) + 1
    BY <2>3, Places, FS_AddElement
  <2>6. Later(S, i) \cup {i} \in SUBSET (1..b)
    BY <2>3
  <2>7. Cardinality(Newest(S, n)) <= Cardinality(Later(S, i) \cup {i})
    BY <2>4, <2>6, Fewer
  <2>8. Cardinality(Newest(S, n)) \in Nat /\ Cardinality(Later(S, i)) \in Nat
    BY <1>1, <2>3, Places
  <2> QED
    BY <2>2, <2>5, <2>7, <2>8
<1> QED
    BY <1>2, <1>3

\* They are as many as there can be.
LEMMA NewestFull ==
    ASSUME NEW b \in Nat, NEW S \in SUBSET (1..b), NEW n \in Nat, Newest(S, n) # S
    PROVE  Cardinality(Newest(S, n)) = n
<1> DEFINE Old == S \ Newest(S, n)
<1>1. Newest(S, n) \in SUBSET (1..b) /\ Old \in SUBSET (1..b) /\ Old # {}
    BY DEF Newest
<1>2. PICK i \in Old : \A k \in Old : k <= i
    BY <1>1, Greatest
<1>3. Later(S, i) \subseteq Newest(S, n)
  <2>1. \A k \in Later(S, i) : k \in S /\ k > i /\ k \in Nat /\ i \in Nat
    BY <1>1 DEF Later
  <2> QED
    BY <1>2, <2>1
<1>4. Cardinality(Later(S, i)) >= n
  <2>1. ~(Cardinality(Later(S, i)) < n)
    BY <1>2, NewestMember
  <2>2. Cardinality(Later(S, i)) \in Nat
    BY <1>1, <1>3, Places
  <2> QED
    BY <2>1, <2>2
<1>5. Cardinality(Later(S, i)) <= Cardinality(Newest(S, n))
    BY <1>1, <1>3, Fewer
<1>6. Cardinality(Newest(S, n)) <= n
    BY NewestAtMost
<1>7. Cardinality(Newest(S, n)) \in Nat /\ Cardinality(Later(S, i)) \in Nat
  <2>1. Later(S, i) \in SUBSET (1..b)
    BY <1>1, <1>3
  <2> QED
    BY <1>1, <2>1, Places
<1> QED
    BY <1>4, <1>5, <1>6, <1>7

\* What is taken out of a set makes room for as many older members at most.
LEMMA NewestShift ==
    ASSUME NEW b \in Nat, NEW S \in SUBSET (1..b), NEW T \in SUBSET S, NEW n \in Nat
    PROVE  /\ Newest(S, n) \cap T \subseteq Newest(T, n)
           /\ Cardinality(Newest(T, n) \ Newest(S, n)) <= Cardinality(S \ T)
           /\ \A i \in Newest(T, n) \ Newest(S, n) : \E j \in S \ T : j > i
<1> DEFINE N == Newest(S, n)
           M == Newest(T, n)
<1>0. T \in SUBSET (1..b) /\ N \in SUBSET S /\ M \in SUBSET T
    BY DEF Newest
<1>1. N \cap T \subseteq M
  <2> SUFFICES ASSUME NEW i \in N, i \in T PROVE i \in M
    OBVIOUS
  <2>1. Cardinality(Later(S, i)) < n
    BY NewestMember
  <2>2. Later(T, i) \subseteq Later(S, i) /\ Later(S, i) \in SUBSET (1..b)
    BY DEF Later
  <2>3. Cardinality(Later(T, i)) <= Cardinality(Later(S, i))
    BY <2>2, Fewer
  <2>4. Cardinality(Later(T, i)) \in Nat /\ Cardinality(Later(S, i)) \in Nat
    BY <2>2, Places
  <2> QED
    BY <2>1, <2>3, <2>4, NewestMember
<1>2. ASSUME NEW i \in M \ N PROVE \E j \in S \ T : j > i
  <2> SUFFICES ASSUME ~ \E j \in S \ T : j > i PROVE FALSE
    OBVIOUS
  <2>1. Later(S, i) = Later(T, i)
    BY DEF Later
  <2>2. i \in T /\ Cardinality(Later(T, i)) < n
    BY NewestMember
  <2> QED
    BY <2>1, <2>2, NewestMember
<1>3. Cardinality(M \ N) <= Cardinality(S \ T)
  <2>1. CASE N = S
    <3>1. M \ N = {}
      BY <1>0, <2>1
    <3>2. Cardinality(M \ N) = 0
      BY <3>1, FS_EmptySet
    <3>3. Cardinality(S \ T) \in Nat
      BY Places
    <3> QED
      BY <3>2, <3>3
  <2>2. CASE N # S
    <3>1. Cardinality(N) = n /\ Cardinality(M) <= n
      BY <2>2, <1>0, NewestFull, NewestAtMost
    <3>2. Cardinality(M \ N) = Cardinality(M) - Cardinality(M \cap N)
      <4>1. IsFiniteSet(M)
        BY <1>0, Places
      <4> HIDE DEF M, N
      <4> QED
        BY <4>1, FS_Difference
    <3>3. Cardinality(N \ T) = Cardinality(N) - Cardinality(N \cap T)
      <4>1. IsFiniteSet(N)
        BY <1>0, Places
      <4> HIDE DEF M, N
      <4> QED
        BY <4>1, FS_Difference
    <3>4. M \cap N = N \cap T
      BY <1>0, <1>1
    <3>5. Cardinality(N \ T) <= Cardinality(S \ T)
      <4>1. N \ T \in SUBSET (S \ T) /\ S \ T \in SUBSET (1..b)
        BY <1>0
      <4> QED
        BY <4>1, Fewer
    <3>6. /\ Cardinality(M) \in Nat /\ Cardinality(N) \in Nat
          /\ Cardinality(N \cap T) \in Nat /\ Cardinality(N \ T) \in Nat
          /\ Cardinality(S \ T) \in Nat
      <4>1. M \in SUBSET (1..b) /\ N \in SUBSET (1..b) /\ N \cap T \in SUBSET (1..b)
            /\ N \ T \in SUBSET (1..b) /\ S \ T \in SUBSET (1..b)
        BY <1>0
      <4> HIDE DEF M, N
      <4> QED
        BY <4>1, Places
    <3> HIDE DEF M, N
    <3> QED
      BY <3>1, <3>2, <3>3, <3>4, <3>5, <3>6
  <2> QED
    BY <2>1, <2>2
<1> QED
    BY <1>1, <1>2, <1>3

Of(S, K) == S \cap K
Rows(S, c, K) == Of(Newest(S, c), K)

\* The newest of some of the newest are both.
LEMMA NewestOfNewest ==
    ASSUME NEW b \in Nat, NEW S \in SUBSET (1..b), NEW K, NEW c \in Nat, NEW o \in Nat
    PROVE  \A i : i \in Newest(Rows(S, c, K), o)
                  <=> i \in Newest(S, c) /\ i \in Newest(Of(S, K), o)
<1> DEFINE C == Newest(S, c)
<1>1. C \in SUBSET S
    BY DEF Newest
<1>2. ASSUME NEW i \in C PROVE Later(Of(C, K), i) = Later(Of(S, K), i)
  <2> SUFFICES ASSUME NEW j \in S, j > i PROVE j \in C
    BY <1>1 DEF Later, Of
  <2>1. i \in S
    BY <1>1
  <2>2. j \in Nat /\ i \in Nat
    BY <2>1, Numbers
  <2>3. j >= i
    BY <2>2
  <2> QED
    BY <2>3, NewestUpwards
<1>3. \A i : i \in Newest(Of(C, K), o) <=> i \in Of(C, K) /\ Cardinality(Later(Of(C, K), i)) < o
    BY NewestMember
<1>4. \A i : i \in Newest(Of(S, K), o) <=> i \in Of(S, K) /\ Cardinality(Later(Of(S, K), i)) < o
    BY NewestMember
<1>5. \A i : i \in Of(C, K) <=> i \in C /\ i \in Of(S, K)
    BY <1>1 DEF Of
<1> HIDE DEF C
<1>6. \A i : i \in Newest(Of(C, K), o) <=> i \in C /\ i \in Newest(Of(S, K), o)
    BY <1>2, <1>3, <1>4, <1>5
<1> QED
    BY <1>6 DEF C, Rows

Behind(i, S) == \E j \in S : j > i

\* The rows that a walk has passed, when places are taken out: of these as many can
\* be new at most, since either the cap or the offset is what they were behind of.
LEMMA PassedShift ==
    ASSUME NEW b \in Nat, NEW S \in SUBSET (1..b), NEW T \in SUBSET S, NEW K,
           NEW c \in Nat, NEW o \in Nat
    PROVE  /\ Cardinality(Newest(Rows(T, c, K), o) \ Newest(Rows(S, c, K), o))
                <= Cardinality(S \ T)
           /\ \A i \in Newest(Rows(T, c, K), o) \ Newest(Rows(S, c, K), o) : Behind(i, S \ T)
<1> DEFINE C == Newest(S, c)
           N == Newest(Of(S, K), o)
           C2 == Newest(T, c)
           N2 == Newest(Of(T, K), o)
           D == Newest(Rows(T, c, K), o) \ Newest(Rows(S, c, K), o)
           Gone == Of(S, K) \ Of(T, K)
<1>1. /\ T \in SUBSET (1..b) /\ Of(S, K) \in SUBSET (1..b)
      /\ Of(T, K) \in SUBSET Of(S, K) /\ Of(S, K) \subseteq S /\ Of(T, K) \subseteq T
    BY DEF Of
<1>2. D = (C2 \cap N2) \ (C \cap N)
  <2>1. \A i : i \in Newest(Rows(S, c, K), o) <=> i \in C /\ i \in N
    BY NewestOfNewest
  <2>2. \A i : i \in Newest(Rows(T, c, K), o) <=> i \in C2 /\ i \in N2
    BY <1>1, NewestOfNewest
  <2> QED
    BY <2>1, <2>2
<1>3. /\ C \subseteq S /\ N \subseteq Of(S, K) /\ C2 \subseteq T /\ N2 \subseteq Of(T, K)
    BY DEF Newest
<1>4. /\ Cardinality(C2 \ C) <= Cardinality(S \ T)
      /\ \A i \in C2 \ C : \E j \in S \ T : j > i
    BY NewestShift
<1>5. /\ Cardinality(N2 \ N) <= Cardinality(Gone)
      /\ \A i \in N2 \ N : \E j \in Gone : j > i
  <2> DEFINE U == Of(S, K)
             V == Of(T, K)
  <2>1. U \in SUBSET (1..b) /\ V \in SUBSET U
    BY <1>1
  <2> HIDE DEF U, V
  <2>2. /\ Cardinality(Newest(V, o) \ Newest(U, o)) <= Cardinality(U \ V)
        /\ \A i \in Newest(V, o) \ Newest(U, o) : \E j \in U \ V : j > i
    BY <2>1, NewestShift
  <2> QED
    BY <2>2 DEF U, V
<1>6. Gone \subseteq S \ T
    BY <1>1 DEF Of
<1>7. \A i \in D : \E j \in S \ T : j > i
  <2> HIDE DEF C, N, C2, N2, D, Gone
  <2> QED
    BY <1>2, <1>4, <1>5, <1>6
<1>8. N \subseteq C \/ Of(C, K) \subseteq N
  <2> SUFFICES ASSUME NEW i \in N, i \notin C, NEW k \in Of(C, K) PROVE k \in N
    OBVIOUS
  <2>1. i \in S /\ k \in S /\ k \in C /\ k \in Of(S, K)
    BY <1>1, <1>3 DEF Of
  <2>2. i \in Nat /\ k \in Nat
    BY <2>1, Numbers
  <2>3. i >= k => i \in C
    BY <2>1, NewestUpwards
  <2>4. k >= i
    BY <2>2, <2>3
  <2> QED
    BY <1>1, <2>1, <2>4, NewestUpwards
<1>9. /\ C2 \ C \in SUBSET (1..b) /\ N2 \ N \in SUBSET (1..b)
      /\ S \ T \in SUBSET (1..b) /\ Gone \in SUBSET (1..b)
    BY <1>1, <1>3
<1>10. D \subseteq N2 \ N \/ D \subseteq C2 \ C
  <2>1. N2 \subseteq K /\ \A i \in C : i \in K => i \in Of(C, K)
    BY <1>3 DEF Of
  <2> HIDE DEF C, N, C2, N2, D
  <2> QED
    BY <1>2, <1>8, <2>1
<1> HIDE DEF C, N, C2, N2, D, Gone
<1>11. D \in SUBSET (1..b)
    BY <1>9, <1>10
<1>12. Cardinality(D) <= Cardinality(S \ T)
  <2>1. Cardinality(Gone) <= Cardinality(S \ T)
    BY <1>6, <1>9, Fewer
  <2>2. CASE D \subseteq N2 \ N
    <3>1. Cardinality(D) <= Cardinality(N2 \ N)
      BY <1>9, <2>2, Fewer
    <3>2. /\ Cardinality(D) \in Nat /\ Cardinality(N2 \ N) \in Nat
          /\ Cardinality(Gone) \in Nat /\ Cardinality(S \ T) \in Nat
      BY <1>9, <1>11, Places
    <3> QED
      BY <1>5, <2>1, <3>1, <3>2
  <2>3. CASE D \subseteq C2 \ C
    <3>1. Cardinality(D) <= Cardinality(C2 \ C)
      BY <1>9, <2>3, Fewer
    <3>2. Cardinality(D) \in Nat /\ Cardinality(C2 \ C) \in Nat /\ Cardinality(S \ T) \in Nat
      BY <1>9, <1>11, Places
    <3> QED
      BY <1>4, <3>1, <3>2
  <2> QED
    BY <1>10, <2>2, <2>3
<1> QED
    BY <1>7, <1>12 DEF D, Behind

\* A new event ahead of the others puts none of them among the rows that were passed.
LEMMA PassedGrow ==
    ASSUME NEW b \in Nat, NEW S \in SUBSET (1..b), NEW T \in SUBSET S, NEW K, NEW L,
           Of(T, L) = Of(T, K), NEW c \in Nat, NEW o \in Nat
    PROVE  Newest(Rows(S, c, L), o) \cap T \subseteq Newest(Rows(T, c, K), o)
<1>1. T \in SUBSET (1..b) /\ Of(S, L) \in SUBSET (1..b) /\ Of(T, K) \in SUBSET Of(S, L)
  <2>1. Of(T, L) \subseteq Of(S, L)
    BY DEF Of
  <2> QED
    BY <2>1 DEF Of
<1>2. \A i : i \in Newest(Rows(S, c, L), o) <=> i \in Newest(S, c) /\ i \in Newest(Of(S, L), o)
    BY NewestOfNewest
<1>3. \A i : i \in Newest(Rows(T, c, K), o) <=> i \in Newest(T, c) /\ i \in Newest(Of(T, K), o)
    BY <1>1, NewestOfNewest
<1>4. Newest(S, c) \cap T \subseteq Newest(T, c)
    BY NewestShift
<1>5. Newest(Of(S, L), o) \cap Of(T, K) \subseteq Newest(Of(T, K), o)
    BY <1>1, NewestShift
<1>6. Newest(Of(S, L), o) \cap T \subseteq Of(T, K)
  <2>1. Newest(Of(S, L), o) \cap T \subseteq Of(T, L)
    BY DEF Newest, Of
  <2> QED
    BY <2>1
<1> QED
    BY <1>2, <1>3, <1>4, <1>5, <1>6

\* An offset past the last row has passed them all.
LEMMA NewestAll ==
    ASSUME NEW b \in Nat, NEW S \in SUBSET (1..b), NEW n \in Nat, n >= Cardinality(S)
    PROVE  Newest(S, n) = S
<1>1. ASSUME NEW i \in S PROVE Cardinality(Later(S, i)) < n
  <2>1. Later(S, i) \in SUBSET S /\ i \notin Later(S, i) /\ Later(S, i) \in SUBSET (1..b)
    <3>1. ~(i > i)
      BY <1>1
    <3> QED
      BY <3>1 DEF Later
  <2>2. Later(S, i) \cup {i} \in SUBSET S
    BY <2>1
  <2>3. Cardinality(Later(S, i) \cup {i}) = Cardinality(Later(S, i)) + 1
    BY <2>1, Places, FS_AddElement
  <2>4. Cardinality(Later(S, i) \cup {i}) <= Cardinality(S)
    BY <2>2, Fewer
  <2>5. Cardinality(Later(S, i)) \in Nat /\ Cardinality(S) \in Nat
    BY <2>1, Places
  <2> QED
    BY <2>3, <2>4, <2>5
<1> QED
    BY <1>1, NewestMember DEF Newest

LEMMA NewestNone ==
    ASSUME NEW b \in Nat, NEW S \in SUBSET (1..b)
    PROVE  Newest(S, 0) = {}
<1>1. ASSUME NEW i \in S, Cardinality(Later(S, i)) < 0 PROVE FALSE
  <2>1. Later(S, i) \in SUBSET (1..b)
    BY DEF Later
  <2>2. Cardinality(Later(S, i)) \in Nat
    BY <2>1, Places
  <2> QED
    BY <1>1, <2>2
<1> QED
    BY <1>1, NewestMember DEF Newest
-----------------------------------------------------------------------------
Trail == [query : Nat, kind : EventKinds, blocked : BOOLEAN, tenant : Tenants, at : Nat]

OpenPager == [open : {TRUE}, tenant : Tenants, kind : EventKinds \cup {AnyKind}, offset : Nat,
              since : Nat, target : SUBSET (DOMAIN trail), seen : SUBSET (DOMAIN trail)]

ViewsTypes ==
    /\ trail \in Seq(Trail)
    /\ \A i \in DOMAIN trail : trail[i].at <= now
    /\ refused \subseteq [query : Nat, tenant : Tenants]
    /\ queries \in Nat
    /\ now \in 0..MaxTime
    /\ pager \in OpenPager \cup {NoPager}

\* A query records one cause and one query_completed at most, the cause first.
OncePerQuery ==
    /\ \A i \in DOMAIN trail : trail[i].query <= queries
    /\ \A q \in refused :
         /\ q.query <= queries
         /\ \A i \in DOMAIN trail : trail[i].query = q.query => trail[i].kind # Completed
         /\ \A r \in refused : q.query = r.query => q = r
    /\ \A i, j \in DOMAIN trail :
         /\ trail[i].query = trail[j].query
         /\ trail[i].kind = trail[j].kind \/ {trail[i].kind, trail[j].kind} \subseteq Causes
         => i = j

\* What a read finds of a tenant, and what of it the walk is past without having seen it.
Mine(tenant) == {i \in Live : trail[i].tenant = tenant}
OfKind(kind) == {i \in DOMAIN trail : kind = AnyKind \/ trail[i].kind = kind}

Passed ==
    (pager.target \cap Newest(Rows(Mine(pager.tenant), ScanCap, OfKind(pager.kind)), pager.offset))
      \ pager.seen

\* As many of those as retention took out, and each behind one of them.
PassedByExpiry ==
    pager.open =>
      /\ pager.since <= now
      /\ Cardinality(Passed) <= Cardinality(ExpiredSince)
      /\ \A i \in Passed : \E j \in ExpiredSince : j > i

ViewsInv == ViewsTypes /\ OncePerQuery /\ PassedByExpiry
-----------------------------------------------------------------------------
LEMMA KindOfTtl ==
    ASSUME NEW k \in EventKinds
    PROVE  Ttl[k] \in Nat
BY WindowAssumption

\* Every event has its time, which is not to come, and its retention.
LEMMA EventTimes ==
    ASSUME ViewsTypes, NEW i \in DOMAIN trail
    PROVE  trail[i] \in Trail /\ trail[i].at \in 0..now /\ Ttl[trail[i].kind] \in Nat
<1>1. trail[i] \in Trail
    BY DEF ViewsTypes
<1>2. trail[i].at \in Nat /\ trail[i].kind \in EventKinds
    BY <1>1 DEF Trail
<1>3. trail[i].at \in 0..now
    BY <1>2 DEF ViewsTypes
<1> QED
    BY <1>1, <1>2, <1>3, KindOfTtl

LEMMA SizesAreNat == ScanCap \in Nat /\ PageSize \in Nat /\ Bucket \in Nat \ {0}
BY WindowAssumption

LEMMA NoPagerClosed == NoPager.open = FALSE
BY DEF NoPager

\* The places that the definitions speak of.
LEMMA Within ==
    ASSUME ViewsTypes
    PROVE  /\ Len(trail) \in Nat /\ DOMAIN trail = 1..Len(trail)
           /\ \A t : Mine(t) \in SUBSET (1..Len(trail))
           /\ \A k : OfKind(k) \in SUBSET (1..Len(trail))
           /\ ExpiredSince \in SUBSET (1..Len(trail))
<1>1. Len(trail) \in Nat /\ DOMAIN trail = 1..Len(trail)
    BY DEF ViewsTypes
<1> QED
    BY <1>1 DEF Mine, OfKind, ExpiredSince, Live, LiveAt

\* What is listed, by its parts: cut at the cap first, by kind afterwards.
LEMMA ListedIs ==
    ViewsTypes => \A t, k : Listed(t, k) = Rows(Mine(t), ScanCap, OfKind(k))
<1> SUFFICES ASSUME ViewsTypes, NEW t, NEW k
             PROVE  Listed(t, k) = Rows(Mine(t), ScanCap, OfKind(k))
    OBVIOUS
<1>1. \A i \in DOMAIN trail : trail[i].at \in 0..now
    BY EventTimes
<1>2. {i \in Live : trail[i].at \in 0..now /\ trail[i].tenant = t} = Mine(t)
    BY <1>1 DEF Mine, Live, LiveAt
<1>3. Scan(0, now, t) = Newest(Mine(t), ScanCap)
    BY <1>2 DEF Scan
<1>4. Newest(Mine(t), ScanCap) \subseteq DOMAIN trail
    BY DEF Newest, Mine, Live, LiveAt
<1> QED
    BY <1>3, <1>4 DEF Listed, Matching, OfKind, Rows, Of

LEMMA PassedWithin ==
    ASSUME ViewsTypes, pager.open
    PROVE  /\ pager \in OpenPager
           /\ Passed \in SUBSET (1..Len(trail))
<1>1. pager \in OpenPager
    BY NoPagerClosed DEF ViewsTypes
<1>2. pager.target \subseteq 1..Len(trail)
    BY <1>1, Within DEF OpenPager
<1> QED
    BY <1>1, <1>2 DEF Passed

\* Recording an event leaves the walk as it was.
LEMMA Recorded ==
    ASSUME ViewsTypes, NEW e \in Trail, e.at = now, trail' = Append(trail, e),
           UNCHANGED <<now, pager>>
    PROVE  /\ trail' \in Seq(Trail) /\ Len(trail') = Len(trail) + 1
           /\ \A i \in DOMAIN trail : trail'[i] = trail[i]
           /\ trail'[Len(trail) + 1] = e
           /\ \A i \in DOMAIN trail' : trail'[i].at <= now'
           /\ pager' \in OpenPager' \cup {NoPager}
<1>1. /\ trail' \in Seq(Trail) /\ Len(trail') = Len(trail) + 1
      /\ \A i \in 1..Len(trail) : trail'[i] = trail[i]
      /\ trail'[Len(trail) + 1] = e
    BY DEF ViewsTypes
<1>2. DOMAIN trail = 1..Len(trail) /\ DOMAIN trail' = 1..Len(trail) + 1 /\ Len(trail) \in Nat
    BY <1>1 DEF ViewsTypes
<1>3. \A i \in DOMAIN trail' : i \in DOMAIN trail \/ i = Len(trail) + 1
    BY <1>2
<1>4. \A i \in DOMAIN trail' : trail'[i].at <= now'
  <2>1. now <= now
    BY DEF ViewsTypes
  <2> QED
    BY <1>1, <1>2, <1>3, <2>1 DEF ViewsTypes
<1>5. pager' \in OpenPager' \cup {NoPager}
  <2>1. DOMAIN trail \subseteq DOMAIN trail'
    BY <1>2
  <2>2. pager \in OpenPager \cup {NoPager}
    BY DEF ViewsTypes
  <2> QED
    BY <2>1, <2>2 DEF OpenPager
<1> QED
    BY <1>1, <1>2, <1>4, <1>5

LEMMA RecordedWalk ==
    ASSUME ViewsTypes, PassedByExpiry, NEW e \in Trail, e.at = now,
           trail' = Append(trail, e), UNCHANGED <<now, pager>>
    PROVE  PassedByExpiry'
<1> SUFFICES ASSUME pager.open
             PROVE  /\ Cardinality(Passed') <= Cardinality(ExpiredSince')
                    /\ \A i \in Passed' : \E j \in ExpiredSince' : j > i
  <2>1. pager.open => pager.since <= now
    BY DEF PassedByExpiry
  <2> QED
    BY <2>1 DEF PassedByExpiry
<1> DEFINE n == Len(trail) + 1
           t == pager.tenant
           k == pager.kind
           S == (Mine(t))'
           T == Mine(t)
           K == OfKind(k)
           L == (OfKind(k))'
<1>1. /\ trail' \in Seq(Trail) /\ Len(trail') = n
      /\ \A i \in DOMAIN trail : trail'[i] = trail[i]
      /\ trail'[n] = e
    BY Recorded
<1>2. /\ Len(trail) \in Nat /\ DOMAIN trail = 1..Len(trail) /\ DOMAIN trail' = 1..n
      /\ n \notin DOMAIN trail /\ \A i \in DOMAIN trail' : i \in DOMAIN trail \/ i = n
    BY <1>1, Within
<1>3. pager \in OpenPager /\ Passed \in SUBSET (1..Len(trail)) /\ pager.since \in Nat
    BY PassedWithin DEF OpenPager
<1>4. /\ pager' = pager /\ now' = now
    OBVIOUS
<1>5. \A time \in Nat : time <= now => (LiveAt(time))' = LiveAt(time) \cup {n}
  <2> SUFFICES ASSUME NEW time \in Nat, time <= now
               PROVE  (LiveAt(time))' = LiveAt(time) \cup {n}
    OBVIOUS
  <2>1. e.at + Ttl[e.kind] >= time
    <3>1. Ttl[e.kind] \in Nat /\ now \in Nat
      BY KindOfTtl DEF Trail, ViewsTypes
    <3> QED
      BY <3>1
  <2>2. (LiveAt(time))' = {i \in DOMAIN trail' : trail'[i].at + Ttl[trail'[i].kind] >= time}
    BY DEF LiveAt
  <2> QED
    BY <1>1, <1>2, <2>1, <2>2 DEF LiveAt
<1>6. now \in Nat /\ now <= now /\ pager.since <= now
    BY DEF ViewsTypes, PassedByExpiry
<1>7. Live' = Live \cup {n} /\ (LiveAt(pager.since))' = LiveAt(pager.since) \cup {n}
  <2>1. (LiveAt(now))' = LiveAt(now) \cup {n}
    BY <1>5, <1>6
  <2>2. (LiveAt(pager.since))' = LiveAt(pager.since) \cup {n}
    BY <1>3, <1>5, <1>6
  <2>3. Live' = (LiveAt(now))'
    BY DEF Live
  <2> QED
    BY <2>1, <2>2, <2>3 DEF Live
<1>8. ExpiredSince' = ExpiredSince
  <2>1. (LiveAt(pager.since))' \ Live' = LiveAt(pager.since) \ Live
    <3>1. n \notin LiveAt(pager.since)
      BY <1>2 DEF LiveAt
    <3> QED
      BY <1>7, <3>1
  <2>2. LiveAt(pager.since) \subseteq DOMAIN trail
    BY DEF LiveAt
  <2>3. ExpiredSince' = {i \in (LiveAt(pager.since))' \ Live' : trail'[i].tenant = pager.tenant}
    BY <1>4 DEF ExpiredSince
  <2> QED
    BY <1>1, <2>1, <2>2, <2>3 DEF ExpiredSince
<1>9. S \in SUBSET (1..n) /\ T \in SUBSET S /\ S \ T \subseteq {n} /\ T \subseteq 1..Len(trail)
  <2>1. Live \subseteq DOMAIN trail /\ n \in DOMAIN trail'
    BY <1>2 DEF Live, LiveAt
  <2>2. S = {i \in Live' : trail'[i].tenant = t}
    BY DEF Mine
  <2>3. DOMAIN trail \subseteq 1..n
    BY <1>2
  <2> HIDE DEF n, S
  <2> QED
    BY <1>1, <1>2, <1>7, <2>1, <2>2, <2>3 DEF Mine
<1>10. Of(T, L) = Of(T, K)
  <2>1. T \subseteq DOMAIN trail
    BY <1>2, <1>9
  <2>2. DOMAIN trail \subseteq DOMAIN trail'
    BY <1>2
  <2>3. L = {i \in DOMAIN trail' : k = AnyKind \/ trail'[i].kind = k}
    BY DEF OfKind
  <2> QED
    BY <1>1, <2>1, <2>2, <2>3 DEF Of, OfKind
<1>11. pager.offset \in Nat /\ pager.target \subseteq 1..Len(trail) /\ ScanCap \in Nat /\ n \in Nat
    BY <1>2, <1>3, SizesAreNat DEF OpenPager
<1>12. Newest(Rows(S, ScanCap, L), pager.offset) \cap T
          \subseteq Newest(Rows(T, ScanCap, K), pager.offset)
  <2> HIDE DEF S, T, K, L, n
  <2> QED
    BY <1>9, <1>10, <1>11, PassedGrow
<1>13. Passed' \subseteq Passed
  <2>1. Passed' = (pager.target \cap Newest(Rows(S, ScanCap, L), pager.offset)) \ pager.seen
    BY <1>4 DEF Passed
  <2>2. Newest(Rows(S, ScanCap, L), pager.offset) \subseteq S
    BY DEF Newest, Rows, Of
  <2>3. n \notin pager.target
    BY <1>11
  <2> HIDE DEF S, T, K, L, n
  <2>4. Passed = (pager.target \cap Newest(Rows(T, ScanCap, K), pager.offset)) \ pager.seen
    BY DEF Passed, T, K
  <2> QED
    BY <1>9, <1>12, <2>1, <2>2, <2>3, <2>4
<1>14. Cardinality(Passed') <= Cardinality(Passed)
    BY <1>2, <1>3, <1>13, Fewer
<1>15. /\ Cardinality(Passed) \in Nat /\ Cardinality(Passed') \in Nat
       /\ Cardinality(ExpiredSince) \in Nat
  <2>1. Passed' \in SUBSET (1..Len(trail)) /\ ExpiredSince \in SUBSET (1..Len(trail))
    BY <1>3, <1>13, Within
  <2> QED
    BY <1>2, <1>3, <2>1, Places
<1> QED
    BY <1>8, <1>13, <1>14, <1>15 DEF PassedByExpiry

\* Time goes on: retention takes events out, and others come to lie before the offset.
LEMMA TickWalk ==
    ASSUME ViewsTypes, PassedByExpiry, Tick
    PROVE  PassedByExpiry'
<1> SUFFICES ASSUME pager.open
             PROVE  PassedByExpiry'
    BY DEF PassedByExpiry, Tick
<1> DEFINE t == pager.tenant
           k == pager.kind
           S == Mine(t)
           T == (Mine(t))'
           K == OfKind(k)
           D == Newest(Rows(T, ScanCap, K), pager.offset) \ Newest(Rows(S, ScanCap, K), pager.offset)
           b == Len(trail)
<1>1. trail' = trail /\ pager' = pager /\ now' = now + 1 /\ now \in Nat
    BY DEF Tick, ViewsTypes
<1>2. b \in Nat /\ DOMAIN trail = 1..b /\ S \in SUBSET (1..b) /\ ExpiredSince \in SUBSET (1..b)
    BY Within
<1>3. pager \in OpenPager /\ Passed \in SUBSET (1..b)
    BY PassedWithin
<1>4. pager.offset \in Nat /\ ScanCap \in Nat /\ pager.since \in Nat
    BY <1>3, SizesAreNat DEF OpenPager
<1>5. Live' \subseteq Live
  <2>1. Live' = {i \in DOMAIN trail : trail[i].at + Ttl[trail[i].kind] >= now + 1}
    BY <1>1 DEF Live, LiveAt
  <2>2. \A i \in DOMAIN trail : trail[i].at \in Nat /\ Ttl[trail[i].kind] \in Nat
    BY EventTimes
  <2>3. \A i \in DOMAIN trail : trail[i].at + Ttl[trail[i].kind] >= now + 1
                                => trail[i].at + Ttl[trail[i].kind] >= now
    BY <1>1, <2>2
  <2> QED
    BY <2>1, <2>3 DEF Live, LiveAt
<1>6. T \in SUBSET S
    BY <1>1, <1>5 DEF Mine
<1>7. (LiveAt(pager.since))' = LiveAt(pager.since)
    BY <1>1 DEF LiveAt
<1>8. Live \subseteq LiveAt(pager.since)
  <2>1. \A i \in DOMAIN trail : trail[i].at \in Nat /\ Ttl[trail[i].kind] \in Nat
    BY EventTimes
  <2>2. pager.since <= now
    BY DEF PassedByExpiry
  <2>3. \A i \in DOMAIN trail : trail[i].at + Ttl[trail[i].kind] >= now
                                => trail[i].at + Ttl[trail[i].kind] >= pager.since
    BY <1>1, <1>4, <2>1, <2>2
  <2> QED
    BY <2>3 DEF Live, LiveAt
<1>9. /\ ExpiredSince \subseteq ExpiredSince' /\ S \ T \subseteq ExpiredSince'
      /\ ExpiredSince \cap (S \ T) = {} /\ ExpiredSince' \subseteq 1..b
  <2>1. ExpiredSince' = {i \in LiveAt(pager.since) \ Live' : trail[i].tenant = t}
    BY <1>1, <1>7 DEF ExpiredSince
  <2>2. T = {i \in Live' : trail[i].tenant = t}
    BY <1>1 DEF Mine
  <2>3. LiveAt(pager.since) \subseteq 1..b
    BY <1>2 DEF LiveAt
  <2> HIDE DEF T
  <2> QED
    BY <1>5, <1>8, <2>1, <2>2, <2>3 DEF ExpiredSince, Mine
<1>10. /\ Cardinality(D) <= Cardinality(S \ T)
       /\ \A i \in D : \E j \in S \ T : j > i
  <2>1. Cardinality(D) <= Cardinality(S \ T)
    <3> HIDE DEF S, T, K, b
    <3> QED
      BY <1>2, <1>4, <1>6, PassedShift
  <2>2. \A i \in D : Behind(i, S \ T)
    <3> HIDE DEF S, T, K, b
    <3> QED
      BY <1>2, <1>4, <1>6, PassedShift
  <2> QED
    BY <2>1, <2>2 DEF Behind
<1>11. Passed' \subseteq Passed \cup D
  <2>1. (OfKind(k))' = K
    BY <1>1 DEF OfKind
  <2>2. Passed' = (pager.target \cap Newest(Rows(T, ScanCap, K), pager.offset)) \ pager.seen
    BY <1>1, <2>1 DEF Passed
  <2>3. Passed = (pager.target \cap Newest(Rows(S, ScanCap, K), pager.offset)) \ pager.seen
    BY DEF Passed
  <2> HIDE DEF S, T, K
  <2> QED
    BY <2>2, <2>3
<1>12. \A i \in Passed' : \E j \in ExpiredSince' : j > i
  <2> HIDE DEF S, T, D
  <2> QED
    BY <1>9, <1>10, <1>11 DEF PassedByExpiry
<1>13. D \in SUBSET (1..b)
  <2>1. Newest(Rows(T, ScanCap, K), pager.offset) \subseteq T
    BY DEF Newest, Rows, Of
  <2> HIDE DEF S, T, K
  <2> QED
    BY <1>2, <1>6, <2>1
<1>14. Cardinality(Passed') <= Cardinality(ExpiredSince')
  <2> DEFINE G == S \ T
  <2>0. G \in SUBSET (1..b)
    BY <1>2
  <2> HIDE DEF S, T, D, b, G
  <2>1. Cardinality(Passed') <= Cardinality(Passed \cup D)
    <3>1. Passed \cup D \in SUBSET (1..b)
      BY <1>3, <1>13
    <3> QED
      BY <1>2, <1>11, <3>1, Fewer
  <2>2. Cardinality(Passed \cup D) <= Cardinality(Passed) + Cardinality(D)
    <3>1. IsFiniteSet(Passed) /\ IsFiniteSet(D) /\ Cardinality(Passed \cap D) \in Nat
      <4>1. Passed \cap D \in SUBSET (1..b)
        BY <1>3
      <4> QED
        BY <1>2, <1>3, <1>13, <4>1, Places
    <3>2. Cardinality(Passed \cup D) = Cardinality(Passed) + Cardinality(D) - Cardinality(Passed \cap D)
      BY <3>1, FS_Union
    <3>3. Cardinality(Passed) \in Nat /\ Cardinality(D) \in Nat
      BY <3>1, FS_CardinalityType
    <3> QED
      BY <3>1, <3>2, <3>3
  <2>3. Cardinality(ExpiredSince \cup G) = Cardinality(ExpiredSince) + Cardinality(G)
    <3>1. IsFiniteSet(ExpiredSince) /\ IsFiniteSet(G)
      BY <1>2, <2>0, Places
    <3>2. Cardinality(ExpiredSince \cup G)
            = Cardinality(ExpiredSince) + Cardinality(G) - Cardinality(ExpiredSince \cap G)
      BY <3>1, FS_Union
    <3>3. Cardinality(ExpiredSince \cap G) = 0
      BY <1>9, FS_EmptySet DEF G
    <3>4. Cardinality(ExpiredSince) \in Nat /\ Cardinality(G) \in Nat
      BY <3>1, FS_CardinalityType
    <3> QED
      BY <3>2, <3>3, <3>4
  <2>4. Cardinality(ExpiredSince \cup G) <= Cardinality(ExpiredSince')
    <3>1. ExpiredSince \cup G \in SUBSET ExpiredSince' /\ ExpiredSince' \in SUBSET (1..b)
      BY <1>9 DEF G
    <3> QED
      BY <1>2, <3>1, Fewer
  <2>5. Cardinality(Passed) <= Cardinality(ExpiredSince) /\ Cardinality(D) <= Cardinality(G)
    BY <1>10 DEF PassedByExpiry, G
  <2>6. Passed \cup D \in SUBSET (1..b) /\ ExpiredSince \cup G \in SUBSET (1..b)
        /\ Passed' \in SUBSET (1..b) /\ ExpiredSince' \in SUBSET (1..b)
    BY <1>2, <1>3, <1>9, <1>11, <1>13, <2>0
  <2>7. /\ Cardinality(Passed) \in Nat /\ Cardinality(D) \in Nat /\ Cardinality(G) \in Nat
        /\ Cardinality(ExpiredSince) \in Nat
    BY <1>2, <1>3, <1>13, <2>0, Places
  <2>8. /\ Cardinality(Passed \cup D) \in Nat /\ Cardinality(ExpiredSince \cup G) \in Nat
        /\ Cardinality(Passed') \in Nat /\ Cardinality(ExpiredSince') \in Nat
    BY <1>2, <2>6, Places
  <2> QED
    BY <2>1, <2>2, <2>3, <2>4, <2>5, <2>7, <2>8
<1>15. pager.since <= now + 1
    BY <1>1, <1>4 DEF PassedByExpiry
<1> QED
    BY <1>1, <1>12, <1>14, <1>15 DEF PassedByExpiry

\* A page shows everything between the old offset and the new one.
LEMMA ReadWalk ==
    ASSUME ViewsTypes, PassedByExpiry, ReadPage
    PROVE  ViewsTypes' /\ PassedByExpiry'
<1> DEFINE L == Listed(pager.tenant, pager.kind)
           o == pager.offset
           R == Rows(Mine(pager.tenant), ScanCap, OfKind(pager.kind))
<1>1. /\ pager.open /\ UNCHANGED <<trail, refused, queries, now>>
      /\ pager' = [pager EXCEPT !.offset = @ + PageSize, !.seen = @ \cup Page(L, o)]
    BY DEF ReadPage
<1>2. pager \in OpenPager /\ Passed \in SUBSET (1..Len(trail))
    BY <1>1, PassedWithin
<1>3. L = R /\ R \in SUBSET (DOMAIN trail)
  <2>1. L = R
    BY ListedIs
  <2>2. R \subseteq Mine(pager.tenant)
    BY DEF Rows, Of, Newest
  <2>3. Mine(pager.tenant) \subseteq DOMAIN trail
    BY DEF Mine, Live, LiveAt
  <2> QED
    BY <2>1, <2>2, <2>3
<1>4. Page(L, o) = Newest(R, o + PageSize) \ Newest(R, o) /\ Page(L, o) \in SUBSET (DOMAIN trail)
  <2>1. Newest(R, o + PageSize) \subseteq R
    BY DEF Newest
  <2> HIDE DEF R, o, L
  <2> QED
    BY <1>3, <2>1 DEF Page
<1>5. /\ pager' \in OpenPager /\ pager'.open /\ pager'.offset = o + PageSize
      /\ pager'.seen = pager.seen \cup Page(L, o) /\ pager'.target = pager.target
      /\ pager'.tenant = pager.tenant /\ pager'.kind = pager.kind /\ pager'.since = pager.since
  <2>1. o \in Nat /\ PageSize \in Nat /\ o + PageSize \in Nat
    BY <1>2, SizesAreNat DEF OpenPager
  <2> HIDE DEF o, L
  <2> QED
    BY <1>1, <1>2, <1>4, <2>1 DEF OpenPager, o
<1>6. ViewsTypes'
  <2>1. OpenPager' = OpenPager
    BY <1>1 DEF OpenPager
  <2> QED
    BY <1>1, <1>5, <2>1 DEF ViewsTypes
<1>7. ExpiredSince' = ExpiredSince
    BY <1>1, <1>5 DEF ExpiredSince, LiveAt, Live
<1>8. Passed' \subseteq Passed
  <2>1. (Rows(Mine(pager.tenant), ScanCap, OfKind(pager.kind)))' = R
    BY <1>1, <1>5 DEF Rows, Mine, OfKind, LiveAt, Live
  <2>2. Passed' = (pager.target \cap Newest(R, o + PageSize)) \ (pager.seen \cup Page(L, o))
    BY <1>5, <2>1 DEF Passed
  <2>3. Passed = (pager.target \cap Newest(R, o)) \ pager.seen
    BY DEF Passed
  <2> HIDE DEF R, o, L
  <2> QED
    BY <1>4, <2>2, <2>3
<1>9. Cardinality(Passed') <= Cardinality(Passed)
    BY <1>2, <1>8, Within, Fewer
<1>10. /\ Cardinality(Passed) \in Nat /\ Cardinality(Passed') \in Nat
       /\ Cardinality(ExpiredSince) \in Nat
  <2>1. Passed' \in SUBSET (1..Len(trail)) /\ ExpiredSince \in SUBSET (1..Len(trail))
    BY <1>2, <1>8, Within
  <2> QED
    BY <1>2, <2>1, Within, Places
<1>11. /\ pager.since <= now /\ Cardinality(Passed) <= Cardinality(ExpiredSince)
       /\ \A i \in Passed : \E j \in ExpiredSince : j > i
    BY <1>1 DEF PassedByExpiry
<1>12. Cardinality(Passed') <= Cardinality(ExpiredSince')
    BY <1>7, <1>9, <1>10, <1>11
<1>13. \A i \in Passed' : \E j \in ExpiredSince' : j > i
    BY <1>7, <1>8, <1>11
<1> QED
    BY <1>1, <1>5, <1>6, <1>11, <1>12, <1>13 DEF PassedByExpiry

LEMMA OpenWalk ==
    ASSUME ViewsTypes, NEW tenant \in Tenants, NEW kind \in EventKinds \cup {AnyKind},
           OpenPages(tenant, kind)
    PROVE  ViewsTypes' /\ PassedByExpiry'
<1>1. /\ UNCHANGED <<trail, refused, queries, now>>
      /\ pager' = [open |-> TRUE, tenant |-> tenant, kind |-> kind, offset |-> 0, since |-> now,
                   target |-> Listed(tenant, kind), seen |-> {}]
    BY DEF OpenPages
<1>2. now \in Nat
    BY DEF ViewsTypes
<1>3. Listed(tenant, kind) \in SUBSET (DOMAIN trail)
    BY DEF Listed, Matching, Scan, Newest, Live, LiveAt
<1>4. pager' \in OpenPager
    BY <1>1, <1>2, <1>3 DEF OpenPager
<1>5. ViewsTypes'
  <2>1. OpenPager' = OpenPager
    BY <1>1 DEF OpenPager
  <2> QED
    BY <1>1, <1>4, <2>1 DEF ViewsTypes
<1>6. Passed' = {}
  <2> DEFINE R == (Rows(Mine(pager.tenant), ScanCap, OfKind(pager.kind)))'
  <2>1. R \in SUBSET (1..Len(trail)) /\ Len(trail) \in Nat
    <3>1. R = Rows((Mine(pager.tenant))', ScanCap, (OfKind(pager.kind))')
      OBVIOUS
    <3>2. (Mine(pager.tenant))' \subseteq DOMAIN trail
      BY <1>1 DEF Mine, Live, LiveAt
    <3>3. DOMAIN trail = 1..Len(trail) /\ Len(trail) \in Nat
      BY Within
    <3>4. R \subseteq (Mine(pager.tenant))'
      BY DEF Rows, Of, Newest
    <3> HIDE DEF R
    <3> QED
      BY <3>2, <3>3, <3>4
  <2>2. Newest(R, 0) = {}
    <3> HIDE DEF R
    <3> QED
      BY <2>1, NewestNone
  <2>3. pager'.offset = 0
    BY <1>1
  <2>4. Passed' = (pager'.target \cap Newest(R, 0)) \ pager'.seen
    BY <2>3 DEF Passed
  <2> HIDE DEF R
  <2> QED
    BY <2>2, <2>4
<1>7. ExpiredSince' \in SUBSET (1..Len(trail))
  <2>1. DOMAIN trail = 1..Len(trail)
    BY Within
  <2> QED
    BY <1>1, <2>1 DEF ExpiredSince, Live, LiveAt
<1>8. Cardinality(Passed') = 0 /\ Cardinality(ExpiredSince') \in Nat
    BY <1>6, <1>7, Within, Places, FS_EmptySet
<1>9. Cardinality(Passed') <= Cardinality(ExpiredSince')
    BY <1>8
<1>10. pager'.since <= now'
    BY <1>1, <1>2
<1> QED
    BY <1>5, <1>6, <1>9, <1>10 DEF PassedByExpiry

\* Recording keeps the types and the events of each query apart.
LEMMA RecordedOnce ==
    ASSUME ViewsTypes, OncePerQuery, NEW e \in Trail, e.at = now,
           trail' = Append(trail, e), UNCHANGED <<now, pager>>,
           queries' \in Nat, queries <= queries', e.query <= queries',
           refused' \subseteq [query : Nat, tenant : Tenants],
           \A i \in DOMAIN trail : trail[i].query = e.query =>
             /\ trail[i].kind # e.kind
             /\ ~({trail[i].kind, e.kind} \subseteq Causes),
           \A q \in refused' :
             /\ q.query <= queries'
             /\ \A i \in DOMAIN trail : trail[i].query = q.query => trail[i].kind # Completed
             /\ e.query = q.query => e.kind # Completed
             /\ \A r \in refused' : q.query = r.query => q = r
    PROVE  ViewsTypes' /\ OncePerQuery'
<1> DEFINE n == Len(trail) + 1
<1>1. /\ trail' \in Seq(Trail) /\ Len(trail') = n
      /\ \A i \in DOMAIN trail : trail'[i] = trail[i]
      /\ trail'[n] = e
      /\ \A i \in DOMAIN trail' : trail'[i].at <= now'
      /\ pager' \in OpenPager' \cup {NoPager}
    BY Recorded
<1>2. \A i \in DOMAIN trail' : i \in DOMAIN trail \/ i = n
  <2>1. DOMAIN trail = 1..Len(trail) /\ DOMAIN trail' = 1..n /\ Len(trail) \in Nat
    BY <1>1, Within
  <2> QED
    BY <2>1
<1>3. ViewsTypes'
    BY <1>1 DEF ViewsTypes
<1> HIDE DEF n
<1>4. ASSUME NEW i \in DOMAIN trail' PROVE trail'[i].query <= queries'
  <2>1. CASE i \in DOMAIN trail
    <3>1. trail[i].query <= queries /\ trail[i].query \in Nat /\ queries \in Nat
      BY <2>1, EventTimes DEF OncePerQuery, ViewsTypes, Trail
    <3> QED
      BY <1>1, <2>1, <3>1
  <2> QED
    BY <1>1, <1>2, <2>1
<1>5. ASSUME NEW q \in refused'
      PROVE  /\ q.query <= queries'
             /\ \A i \in DOMAIN trail' : trail'[i].query = q.query => trail'[i].kind # Completed
             /\ \A r \in refused' : q.query = r.query => q = r
    BY <1>1, <1>2
<1>6. ASSUME NEW i \in DOMAIN trail', NEW j \in DOMAIN trail', trail'[i].query = trail'[j].query,
             trail'[i].kind = trail'[j].kind \/ {trail'[i].kind, trail'[j].kind} \subseteq Causes
      PROVE  i = j
  <2>1. CASE i \in DOMAIN trail /\ j \in DOMAIN trail
    <3>1. trail[i].query = trail[j].query
      BY <1>1, <1>6, <2>1
    <3>2. trail[i].kind = trail[j].kind \/ {trail[i].kind, trail[j].kind} \subseteq Causes
      BY <1>1, <1>6, <2>1
    <3> QED
      BY <2>1, <3>1, <3>2 DEF OncePerQuery
  <2>2. CASE i \in DOMAIN trail /\ j = n
    BY <1>1, <1>6, <2>2
  <2>3. CASE j \in DOMAIN trail /\ i = n
    BY <1>1, <1>6, <2>3
  <2> QED
    BY <1>2, <2>1, <2>2, <2>3
<1> QED
    BY <1>3, <1>4, <1>5, <1>6 DEF OncePerQuery

LEMMA EventIs ==
    ASSUME ViewsTypes, NEW q \in Nat, NEW k \in EventKinds, NEW blocked \in BOOLEAN,
           NEW t \in Tenants
    PROVE  /\ Event(q, k, blocked, t) \in Trail
           /\ Event(q, k, blocked, t).at = now /\ Event(q, k, blocked, t).query = q
           /\ Event(q, k, blocked, t).kind = k
BY DEF Event, Trail, ViewsTypes

LEMMA KindsApart ==
    /\ Completed \in EventKinds /\ Other \in EventKinds /\ Causes \subseteq EventKinds
    /\ Completed \notin Causes /\ Other \notin Causes /\ Other # Completed
BY KindAssumption DEF EventKinds

\* A query that begins now has no event yet.
LEMMA NewQuery ==
    ASSUME ViewsTypes, OncePerQuery
    PROVE  /\ queries + 1 \in Nat /\ queries <= queries + 1 /\ queries + 1 <= queries + 1
           /\ \A i \in DOMAIN trail : trail[i].query # queries + 1
           /\ \A q \in refused : q.query # queries + 1 /\ q.query <= queries + 1 /\ q.query \in Nat
<1>1. queries \in Nat
    BY DEF ViewsTypes
<1>2. \A i \in DOMAIN trail : trail[i].query \in Nat /\ trail[i].query <= queries
    BY EventTimes DEF OncePerQuery, Trail
<1>3. \A q \in refused : q.query \in Nat /\ q.query <= queries
    BY DEF OncePerQuery, ViewsTypes
<1> QED
    BY <1>1, <1>2, <1>3

LEMMA AnswerKeeps ==
    ASSUME ViewsInv, NEW tenant \in Tenants, Answer(tenant)
    PROVE  ViewsInv'
<1> DEFINE e == Event(queries + 1, Completed, FALSE, tenant)
<1>1. /\ trail' = Append(trail, e) /\ queries' = queries + 1
      /\ UNCHANGED <<refused, now, pager>>
    BY DEF Answer
<1>2. e \in Trail /\ e.at = now /\ e.query = queries + 1 /\ e.kind = Completed
  <2>1. Completed \in EventKinds /\ queries + 1 \in Nat /\ ViewsTypes
    BY NewQuery, KindsApart DEF ViewsInv
  <2>2. \A id \in Nat, t \in Tenants :
          /\ Event(id, Completed, FALSE, t) \in Trail
          /\ Event(id, Completed, FALSE, t).at = now /\ Event(id, Completed, FALSE, t).query = id
          /\ Event(id, Completed, FALSE, t).kind = Completed
    BY <2>1, EventIs
  <2> QED
    BY <2>1, <2>2
<1> HIDE DEF e
<1>3. ViewsTypes' /\ OncePerQuery'
  <2>1. \A q \in refused' :
          /\ q.query <= queries'
          /\ \A i \in DOMAIN trail : trail[i].query = q.query => trail[i].kind # Completed
          /\ e.query = q.query => e.kind # Completed
          /\ \A r \in refused' : q.query = r.query => q = r
    BY <1>1, <1>2, NewQuery DEF ViewsInv, OncePerQuery
  <2>2. refused' \subseteq [query : Nat, tenant : Tenants]
    BY <1>1 DEF ViewsInv, ViewsTypes
  <2> QED
    BY <1>1, <1>2, <2>1, <2>2, NewQuery, RecordedOnce DEF ViewsInv
<1>4. PassedByExpiry'
    BY <1>1, <1>2, RecordedWalk DEF ViewsInv
<1> QED
    BY <1>3, <1>4 DEF ViewsInv

LEMMA RecordOtherKeeps ==
    ASSUME ViewsInv, NEW tenant \in Tenants, RecordOther(tenant)
    PROVE  ViewsInv'
<1> DEFINE e == Event(queries + 1, Other, FALSE, tenant)
<1>1. /\ trail' = Append(trail, e) /\ queries' = queries + 1
      /\ UNCHANGED <<refused, now, pager>>
    BY DEF RecordOther
<1>2. e \in Trail /\ e.at = now /\ e.query = queries + 1 /\ e.kind = Other
  <2>1. Other \in EventKinds /\ queries + 1 \in Nat /\ ViewsTypes
    BY NewQuery, KindsApart DEF ViewsInv
  <2>2. \A id \in Nat, t \in Tenants :
          /\ Event(id, Other, FALSE, t) \in Trail
          /\ Event(id, Other, FALSE, t).at = now /\ Event(id, Other, FALSE, t).query = id
          /\ Event(id, Other, FALSE, t).kind = Other
    BY <2>1, EventIs
  <2> QED
    BY <2>1, <2>2
<1> HIDE DEF e
<1>3. ViewsTypes' /\ OncePerQuery'
  <2>1. \A q \in refused' :
          /\ q.query <= queries'
          /\ \A i \in DOMAIN trail : trail[i].query = q.query => trail[i].kind # Completed
          /\ e.query = q.query => e.kind # Completed
          /\ \A r \in refused' : q.query = r.query => q = r
    BY <1>1, <1>2, NewQuery DEF ViewsInv, OncePerQuery
  <2>2. refused' \subseteq [query : Nat, tenant : Tenants]
    BY <1>1 DEF ViewsInv, ViewsTypes
  <2> QED
    BY <1>1, <1>2, <2>1, <2>2, NewQuery, RecordedOnce DEF ViewsInv
<1>4. PassedByExpiry'
    BY <1>1, <1>2, RecordedWalk DEF ViewsInv
<1> QED
    BY <1>3, <1>4 DEF ViewsInv

LEMMA RefuseKeeps ==
    ASSUME ViewsInv, NEW cause \in Causes, NEW tenant \in Tenants, Refuse(cause, tenant)
    PROVE  ViewsInv'
<1> DEFINE e == Event(queries + 1, cause, TRUE, tenant)
           new == [query |-> queries + 1, tenant |-> tenant]
<1>1. /\ trail' = Append(trail, e) /\ queries' = queries + 1
      /\ refused' = refused \cup {new} /\ UNCHANGED <<now, pager>>
    BY DEF Refuse
<1>2. e \in Trail /\ e.at = now /\ e.query = queries + 1 /\ e.kind = cause
  <2>1. cause \in EventKinds /\ queries + 1 \in Nat /\ ViewsTypes
    BY NewQuery, KindsApart DEF ViewsInv
  <2>2. \A id \in Nat, t \in Tenants :
          /\ Event(id, cause, TRUE, t) \in Trail
          /\ Event(id, cause, TRUE, t).at = now /\ Event(id, cause, TRUE, t).query = id
          /\ Event(id, cause, TRUE, t).kind = cause
    BY <2>1, EventIs
  <2> QED
    BY <2>1, <2>2
<1>3. new \in [query : Nat, tenant : Tenants] /\ new.query = queries + 1
    BY NewQuery DEF ViewsInv
<1> HIDE DEF e, new
<1>4. ViewsTypes' /\ OncePerQuery'
  <2>1. ASSUME NEW q \in refused'
        PROVE  /\ q.query <= queries'
               /\ \A i \in DOMAIN trail : trail[i].query = q.query => trail[i].kind # Completed
               /\ e.query = q.query => e.kind # Completed
               /\ \A r \in refused' : q.query = r.query => q = r
    <3>1. q.query <= queries'
      BY <1>1, <1>3, NewQuery DEF ViewsInv
    <3>2. \A i \in DOMAIN trail : trail[i].query = q.query => trail[i].kind # Completed
      BY <1>1, <1>3, NewQuery DEF ViewsInv, OncePerQuery
    <3>3. e.kind # Completed
      BY <1>2, KindsApart
    <3>4. \A r \in refused' : q.query = r.query => q = r
      BY <1>1, <1>3, NewQuery DEF ViewsInv, OncePerQuery
    <3> QED
      BY <3>1, <3>2, <3>3, <3>4
  <2>2. refused' \subseteq [query : Nat, tenant : Tenants]
    BY <1>1, <1>3 DEF ViewsInv, ViewsTypes
  <2> QED
    BY <1>1, <1>2, <2>1, <2>2, NewQuery, RecordedOnce DEF ViewsInv
<1>5. PassedByExpiry'
    BY <1>1, <1>2, RecordedWalk DEF ViewsInv
<1> QED
    BY <1>4, <1>5 DEF ViewsInv

LEMMA CompleteKeeps ==
    ASSUME ViewsInv, NEW q \in refused, Complete(q)
    PROVE  ViewsInv'
<1> DEFINE e == Event(q.query, Completed, TRUE, q.tenant)
<1>1. /\ trail' = Append(trail, e) /\ refused' = refused \ {q}
      /\ UNCHANGED <<queries, now, pager>>
    BY DEF Complete
<1>2. /\ q.query \in Nat /\ q.tenant \in Tenants /\ q.query <= queries
      /\ queries \in Nat /\ queries <= queries
    BY DEF ViewsInv, ViewsTypes, OncePerQuery
<1>3. e \in Trail /\ e.at = now /\ e.query = q.query /\ e.kind = Completed
  <2>1. Completed \in EventKinds /\ ViewsTypes
    BY KindsApart DEF ViewsInv
  <2>2. \A id \in Nat, t \in Tenants :
          /\ Event(id, Completed, TRUE, t) \in Trail
          /\ Event(id, Completed, TRUE, t).at = now /\ Event(id, Completed, TRUE, t).query = id
          /\ Event(id, Completed, TRUE, t).kind = Completed
    BY <2>1, EventIs
  <2> QED
    BY <1>2, <2>2
<1> HIDE DEF e
<1>4. ViewsTypes' /\ OncePerQuery'
  <2>1. ASSUME NEW r \in refused'
        PROVE  /\ r.query <= queries'
               /\ \A i \in DOMAIN trail : trail[i].query = r.query => trail[i].kind # Completed
               /\ e.query = r.query => e.kind # Completed
               /\ \A s \in refused' : r.query = s.query => r = s
    <3>1. r \in refused /\ r # q
      BY <1>1
    <3>2. e.query # r.query
      BY <1>3, <3>1 DEF ViewsInv, OncePerQuery
    <3> QED
      BY <1>1, <3>1, <3>2 DEF ViewsInv, OncePerQuery
  <2>2. \A i \in DOMAIN trail : trail[i].query = e.query =>
          /\ trail[i].kind # e.kind
          /\ ~({trail[i].kind, e.kind} \subseteq Causes)
    BY <1>3, KindsApart DEF ViewsInv, OncePerQuery
  <2>3. refused' \subseteq [query : Nat, tenant : Tenants]
    BY <1>1 DEF ViewsInv, ViewsTypes
  <2> QED
    BY <1>1, <1>2, <1>3, <2>1, <2>2, <2>3, RecordedOnce DEF ViewsInv
<1>5. PassedByExpiry'
    BY <1>1, <1>3, RecordedWalk DEF ViewsInv
<1> QED
    BY <1>4, <1>5 DEF ViewsInv

LEMMA OnceUnchanged ==
    ASSUME OncePerQuery, UNCHANGED <<trail, refused, queries>>
    PROVE  OncePerQuery'
BY DEF OncePerQuery

LEMMA TickKeeps ==
    ASSUME ViewsInv, Tick
    PROVE  ViewsInv'
<1>1. /\ now < MaxTime /\ now' = now + 1 /\ UNCHANGED <<trail, refused, queries, pager>>
      /\ now \in Nat /\ MaxTime \in Nat
    BY WindowAssumption DEF Tick, ViewsInv, ViewsTypes
<1>2. ASSUME NEW i \in DOMAIN trail PROVE trail[i].at <= now + 1
    BY <1>1, EventTimes DEF ViewsInv
<1>3. now + 1 \in 0..MaxTime
    BY <1>1
<1>4. OpenPager' = OpenPager
    BY <1>1 DEF OpenPager
<1>5. ViewsTypes'
    BY <1>1, <1>2, <1>3, <1>4 DEF ViewsInv, ViewsTypes
<1> QED
    BY <1>1, <1>5, TickWalk, OnceUnchanged DEF ViewsInv

LEMMA PagerKeeps ==
    ASSUME ViewsInv,
           ReadPage \/ ClosePages
             \/ \E tenant \in Tenants, kind \in EventKinds \cup {AnyKind} : OpenPages(tenant, kind)
    PROVE  ViewsInv'
<1>1. UNCHANGED <<trail, refused, queries, now>>
    BY DEF ReadPage, ClosePages, OpenPages
<1>2. OncePerQuery'
    BY <1>1, OnceUnchanged DEF ViewsInv
<1>3. CASE ReadPage
    BY <1>2, <1>3, ReadWalk DEF ViewsInv
<1>4. CASE \E tenant \in Tenants, kind \in EventKinds \cup {AnyKind} : OpenPages(tenant, kind)
    BY <1>2, <1>4, OpenWalk DEF ViewsInv
<1>5. CASE ClosePages
  <2>1. pager' = NoPager /\ ~pager'.open
    BY <1>5, NoPagerClosed DEF ClosePages
  <2>2. ViewsTypes'
    BY <1>1, <2>1 DEF ViewsInv, ViewsTypes
  <2>3. PassedByExpiry'
    BY <2>1 DEF PassedByExpiry
  <2> QED
    BY <1>2, <2>2, <2>3 DEF ViewsInv
<1> QED
    BY <1>3, <1>4, <1>5

LEMMA ViewsInvariant == ViewsSpec => []ViewsInv
<1>1. ViewsInit => ViewsInv
  <2> SUFFICES ASSUME ViewsInit PROVE ViewsInv
    OBVIOUS
  <2>1. trail = << >> /\ refused = {} /\ queries = 0 /\ now = 0 /\ pager = NoPager
    BY DEF ViewsInit
  <2>2. DOMAIN trail = {} /\ trail \in Seq(Trail)
    BY <2>1
  <2>3. 0 \in 0..MaxTime
    BY WindowAssumption
  <2>4. ViewsTypes
    BY <2>1, <2>2, <2>3 DEF ViewsTypes
  <2>5. OncePerQuery
    BY <2>1, <2>2 DEF OncePerQuery
  <2>6. PassedByExpiry
    BY <2>1, NoPagerClosed DEF PassedByExpiry
  <2> QED
    BY <2>4, <2>5, <2>6 DEF ViewsInv
<1>2. ViewsInv /\ [ViewsNext]_viewsVars => ViewsInv'
  <2> SUFFICES ASSUME ViewsInv, [ViewsNext]_viewsVars PROVE ViewsInv'
    OBVIOUS
  <2>1. CASE \E tenant \in Tenants : Answer(tenant)
    BY <2>1, AnswerKeeps
  <2>2. CASE \E tenant \in Tenants : RecordOther(tenant)
    BY <2>2, RecordOtherKeeps
  <2>3. CASE \E tenant \in Tenants, cause \in Causes : Refuse(cause, tenant)
    BY <2>3, RefuseKeeps
  <2>4. CASE \E q \in refused : Complete(q)
    BY <2>4, CompleteKeeps
  <2>5. CASE Tick
    BY <2>5, TickKeeps
  <2>6. CASE ReadPage \/ ClosePages
             \/ \E tenant \in Tenants, kind \in EventKinds \cup {AnyKind} : OpenPages(tenant, kind)
    BY <2>6, PagerKeeps
  <2>7. CASE UNCHANGED viewsVars
    <3>1. UNCHANGED <<trail, refused, queries, now, pager>>
      BY <2>7 DEF viewsVars
    <3>2. ViewsTypes' /\ OncePerQuery'
      BY <3>1 DEF ViewsInv, ViewsTypes, OncePerQuery, OpenPager
    <3>3. Passed' = Passed /\ ExpiredSince' = ExpiredSince
      BY <3>1 DEF Passed, Rows, Mine, OfKind, ExpiredSince, Live, LiveAt
    <3>4. PassedByExpiry'
      BY <3>1, <3>3 DEF ViewsInv, PassedByExpiry
    <3> QED
      BY <3>2, <3>4 DEF ViewsInv
  <2> QED
    BY <2>1, <2>2, <2>3, <2>4, <2>5, <2>6, <2>7 DEF ViewsNext
<1> QED
    BY <1>1, <1>2, PTL DEF ViewsSpec

\* Whatever is recorded while a client walks the pages costs it nothing, and what
\* retention takes out at most as much (query_audit_events).
THEOREM WalksMissWhatExpired == ViewsSpec => []PagesMissNothing
<1>1. ViewsInv => PagesMissNothing
  <2> SUFFICES ASSUME ViewsInv, Walked
               PROVE  /\ Cardinality(Missed) <= Cardinality(ExpiredSince)
                      /\ \A i \in Missed : \E j \in ExpiredSince : j > i
    BY DEF PagesMissNothing
  <2> DEFINE L == Listed(pager.tenant, pager.kind)
  <2>1. pager.open /\ pager.offset >= Cardinality(L) /\ ViewsTypes
    BY DEF Walked, ViewsInv
  <2>2. L = Rows(Mine(pager.tenant), ScanCap, OfKind(pager.kind))
    BY <2>1, ListedIs
  <2>3. L \in SUBSET (1..Len(trail)) /\ Len(trail) \in Nat
    <3>1. L \subseteq DOMAIN trail
      BY DEF Listed, Matching, Scan, Newest, Live, LiveAt
    <3> QED
      BY <2>1, <3>1, Within
  <2>4. pager.offset \in Nat
    BY <2>1, PassedWithin DEF OpenPager
  <2>5. Newest(L, pager.offset) = L
    <3> HIDE DEF L
    <3> QED
      BY <2>1, <2>3, <2>4, NewestAll
  <2>6. Missed = Passed
    BY <2>2, <2>5 DEF Missed, Passed
  <2> QED
    BY <2>1, <2>6 DEF ViewsInv, PassedByExpiry
<1> QED
    BY <1>1, ViewsInvariant, PTL
-----------------------------------------------------------------------------
(* The chart.                                                              *)

\* The bars of a set of days come to the events of those days: the fold over the bars
\* satisfies the equation that the count satisfies, and it has one solution only, as the
\* smallest set of bars on which two differed would not be one.
LEMMA BarsComeTo ==
    ASSUME NEW S, NEW B, IsFiniteSet(S), IsFiniteSet(B)
    PROVE MapThenSumSet(LAMBDA b : BarTotal(S, b), B) = Cardinality({i \in S : BucketStart(trail[i].at) \in B})
<1> DEFINE In(T) == {i \in S : BucketStart(trail[i].at) \in T}
           Pick(T) == CHOOSE x \in T : TRUE
           Rest(T) == T \ {Pick(T)}
           Step(g) == [T \in SUBSET B |-> IF T = {} THEN 0 ELSE BarTotal(S, Pick(T)) + g[T \ {Pick(T)}]]
           iter == CHOOSE g : g = Step(g)
           total == [T \in SUBSET B |-> Cardinality(In(T))]
<1>1. MapThenSumSet(LAMBDA b : BarTotal(S, b), B) = iter[B]
   BY DEF MapThenSumSet, MapThenFoldSet
<1>2. ASSUME NEW T \in SUBSET B, T # {}
      PROVE  /\ Pick(T) \in T
             /\ Cardinality(In(T)) = BarTotal(S, Pick(T)) + Cardinality(In(Rest(T)))
  <2>1. Pick(T) \in T
    BY <1>2
  <2> DEFINE Bar == {i \in S : BucketStart(trail[i].at) = Pick(T)}
             Others == In(Rest(T))
  <2>2. IsFiniteSet(Bar) /\ IsFiniteSet(Others)
    <3>1. Bar \subseteq S /\ Others \subseteq S
      OBVIOUS
    <3> QED
      BY <3>1, FS_Subset
  <2>3. In(T) = Bar \cup Others /\ Bar \cap Others = {}
    BY <2>1
  <2>4. Cardinality(Bar \cap Others) = 0
    BY <2>3, FS_EmptySet
  <2>5. /\ Cardinality(Bar \cup Others) = Cardinality(Bar) + Cardinality(Others) - Cardinality(Bar \cap Others)
        /\ Cardinality(Bar) \in Nat /\ Cardinality(Others) \in Nat
    <3> HIDE DEF Bar, Others
    <3> QED
      BY <2>2, FS_Union, FS_CardinalityType
  <2>6. Cardinality(Bar \cup Others) = Cardinality(Bar) + Cardinality(Others)
    <3> HIDE DEF Bar, Others
    <3> QED
      BY <2>4, <2>5
  <2>7. Cardinality(Bar) = BarTotal(S, Pick(T))
    BY DEF BarTotal
  <2> QED
    BY <2>1, <2>3, <2>6, <2>7
<1>3. Cardinality(In({})) = 0
  BY FS_EmptySet
<1>4. total = Step(total)
  <2>1. ASSUME NEW T \in SUBSET B, T # {}
        PROVE  total[T] = BarTotal(S, Pick(T)) + total[T \ {Pick(T)}]
    <3>1. Rest(T) \in SUBSET B
      OBVIOUS
    <3>2. total[T] = Cardinality(In(T)) /\ total[Rest(T)] = Cardinality(In(Rest(T)))
      BY <3>1
    <3> QED
      BY <2>1, <1>2, <3>2
  <2>2. total[{}] = 0
    BY <1>3
  <2> HIDE DEF In, Pick
  <2> QED
    BY <2>1, <2>2
<1>5. iter = Step(iter)
  <2> HIDE DEF Step, total
  <2> QED
    BY <1>4
<1>6. \A T \in SUBSET B : iter[T] = Cardinality(In(T))
  <2> SUFFICES ASSUME \E T \in SUBSET B : iter[T] # Cardinality(In(T))
               PROVE  FALSE
    OBVIOUS
  <2> DEFINE Wrong == {T \in SUBSET B : iter[T] # Cardinality(In(T))}
             R == StrictSubsetOrdering(B)
  <2>1. IsWellFoundedOn(R, FiniteSubsetsOf(B))
    BY FS_StrictSubsetOrderingWellFounded
  <2>2. Wrong \subseteq FiniteSubsetsOf(B) /\ Wrong # {}
    <3>1. \A T \in SUBSET B : IsFiniteSet(T)
      BY FS_Subset
    <3> QED
      BY <3>1 DEF FiniteSubsetsOf
  <2>3. PICK T \in Wrong : \A U \in Wrong : ~(<<U, T>> \in R)
    <3> HIDE DEF Wrong, R
    <3> QED
      BY <2>1, <2>2, WFMin
  <2>4. T \in SUBSET B /\ iter[T] # Cardinality(In(T))
    OBVIOUS
  <2> HIDE DEF iter
  <2>5. T # {}
    <3>1. iter[{}] = 0
      BY <1>5
    <3> QED
      BY <3>1, <2>4, <1>3
  <2>6. Rest(T) \in SUBSET B /\ <<Rest(T), T>> \in R
    <3>1. Pick(T) \in T
      BY <1>2, <2>4, <2>5
    <3> HIDE DEF Pick
    <3> QED
      BY <3>1, <2>4 DEF StrictSubsetOrdering
  <2>7. iter[Rest(T)] = Cardinality(In(Rest(T)))
    BY <2>3, <2>6
  <2>8. iter[T] = BarTotal(S, Pick(T)) + iter[Rest(T)]
    <3> HIDE DEF Pick
    <3> QED
    BY <1>5, <2>4, <2>5
  <2> HIDE DEF In, Rest, Pick
  <2> QED
    BY <2>4, <2>5, <2>7, <2>8, <1>2
<1> QED
  BY <1>1, <1>6

LEMMA Buckets ==
    ASSUME NEW n \in Nat \ {0}, NEW t \in Nat
    PROVE  t \div n \in Nat /\ (t \div n) * n \in Nat /\ ((t \div n) * n) % n = 0
           /\ (t \div n) * n <= t
OBVIOUS

LEMMA BucketsOrdered ==
    ASSUME NEW n \in Nat \ {0}, NEW t \in Nat, NEW u \in Nat, t <= u
    PROVE  (t \div n) * n <= (u \div n) * n
OBVIOUS

\* Bars that go down to the bar of the first event and up to that of the last add up.
LEMMA SeriesSum ==
    ASSUME ViewsTypes, NEW w \in Windows, NEW tenant \in Tenants
    PROVE  MapThenSumSet(LAMBDA b : BarTotal(Scan(w[1], w[2], tenant), b),
                         Series(w[1], w[2], tenant))
             = Cardinality(Scan(w[1], w[2], tenant))
<1> DEFINE from == w[1]
           to == w[2]
           S == Scan(from, to, tenant)
           B == Series(from, to, tenant)
<1>1. from \in 0..MaxTime /\ to \in 0..MaxTime /\ MaxTime \in Nat
    BY WindowAssumption DEF Windows
<1>2. /\ S \subseteq DOMAIN trail
      /\ \A i \in S : trail[i].at \in from..to
    BY DEF Scan, Newest, Live, LiveAt
<1>3. IsFiniteSet(S) /\ IsFiniteSet(B)
  <2>1. IsFiniteSet(0..MaxTime) /\ B \subseteq 0..MaxTime
    BY <1>1, FS_Interval DEF Series, Bars
  <2>2. S \subseteq 1..Len(trail) /\ Len(trail) \in Nat
    BY <1>2, Within
  <2> HIDE DEF S, B
  <2> QED
    BY <2>1, <2>2, FS_Subset, Places
<1>4. ASSUME NEW i \in S PROVE BucketStart(trail[i].at) \in B
  <2> DEFINE at == trail[i].at
             b == BucketStart(at)
  <2>1. at \in from..to /\ at \in 0..MaxTime /\ at \in Nat
    BY <1>1, <1>2
  <2>2. b \in 0..MaxTime /\ b % Bucket = 0
    <3> HIDE DEF at
    <3>1. b \in Nat /\ b % Bucket = 0 /\ b <= at
      BY <2>1, SizesAreNat, Buckets DEF BucketStart
    <3> HIDE DEF b
    <3> QED
      BY <1>1, <2>1, <3>1
  <2>3. BucketStart(from) <= b /\ b <= BucketStart(to)
    <3> HIDE DEF at, from, to
    <3>1. from \in Nat /\ to \in Nat /\ from <= at /\ at <= to
      BY <1>1, <2>1
    <3> QED
      BY <2>1, <3>1, SizesAreNat, BucketsOrdered DEF BucketStart
  <2>4. b \in Bars(from, to)
    BY <2>2, <2>3 DEF Bars
  <2>5. BarTotal(S, b) > 0
    <3> DEFINE Bar == {j \in S : BucketStart(trail[j].at) = b}
    <3>1. i \in Bar
      OBVIOUS
    <3>2. IsFiniteSet(Bar)
      <4>1. Bar \in SUBSET S
        OBVIOUS
      <4> HIDE DEF Bar
      <4> QED
        BY <1>3, <4>1, FS_Subset
    <3>3. Cardinality(Bar) \in Nat /\ Cardinality(Bar) # 0
      <4> HIDE DEF Bar
      <4> QED
        BY <3>1, <3>2, FS_CardinalityType, FS_EmptySet
    <3> QED
      BY <3>3 DEF BarTotal
  <2>6. b <= b
    BY <2>2
  <2> HIDE DEF b, from, to
  <2>7. b \in {x \in Bars(from, to) : BarTotal(S, x) > 0}
    BY <2>4, <2>5
  <2>8. b \in B
    BY <2>4, <2>6, <2>7 DEF Series
  <2> QED
    BY <2>8 DEF b
<1>5. {i \in S : BucketStart(trail[i].at) \in B} = S
    BY <1>4
<1> HIDE DEF S, B
<1>6. MapThenSumSet(LAMBDA b : BarTotal(S, b), B) = Cardinality(S)
    BY <1>3, <1>5, BarsComeTo
<1> QED
    BY <1>6 DEF S, B

\* The dashboard shows what the trail holds: the bars of every window add up to its
\* events, and no refused query is counted twice (compute_audit_stats,
\* compute_overview_stats).
THEOREM ChartsAreExact == ViewsSpec => []ChartsAddUp
<1>1. ViewsInv => ChartsAddUp
  <2> SUFFICES ASSUME ViewsInv PROVE SeriesAddsUp /\ BlockedOnce
    BY DEF ChartsAddUp
  <2>1. SeriesAddsUp
    BY SeriesSum DEF SeriesAddsUp, ViewsInv
  <2>2. ASSUME NEW w \in Windows, NEW tenant \in Tenants,
               NEW i \in QueriesBlocked(Scan(w[1], w[2], tenant)),
               NEW j \in QueriesBlocked(Scan(w[1], w[2], tenant)),
               trail[i].query = trail[j].query
        PROVE  i = j
    <3> DEFINE S == Scan(w[1], w[2], tenant)
    <3>1. S \subseteq DOMAIN trail
      BY DEF Scan, Newest, Live, LiveAt
    <3> HIDE DEF S
    <3>2. /\ i \in S /\ j \in S
          /\ \/ trail[i].kind = Completed /\ trail[j].kind = Completed
             \/ trail[i].kind \in Causes /\ trail[j].kind \in Causes
      BY DEF S, QueriesBlocked, CompletedIn
    <3>3. trail[i].kind = trail[j].kind \/ {trail[i].kind, trail[j].kind} \subseteq Causes
      BY <3>2
    <3> QED
      BY <2>2, <3>1, <3>2, <3>3 DEF ViewsInv, OncePerQuery
  <2> QED
    BY <2>1, <2>2 DEF BlockedOnce
<1> QED
    BY <1>1, ViewsInvariant, PTL
================================================================================
