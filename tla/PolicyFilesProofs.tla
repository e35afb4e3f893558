-------------------------- MODULE PolicyFilesProofs --------------------------
(* Theorems of PolicyFiles: whatever the knobs, the texts, the number of      *)
(* backups and the moments at which a write fails or the process dies, a      *)
(* refused request leaves the file as it was, what was overwritten can be     *)
(* restored, and somebody was given the policy that the file holds.           *)
EXTENDS PolicyFiles, FiniteSetTheorems, TLAPS

Changing == work.op \in {"update", "restore"}
Loading == work.op \in {"start", "reload"}

\* Where a handler is, and what it knows of the file by then.  The file a request
\* found is in the backup it made, from the copy on until it ends.
ChangeOK ==
    Changing =>
        /\ work.step \in {"backup", "copy", "prepare", "truncate", "fill", "load"}
        /\ Running /\ before # Absent
        /\ work.step \in {"backup", "copy", "prepare"} => file = before /\ ~work.undo
        /\ work.step = "truncate" /\ ~work.undo => file = before
        /\ work.step = "load" => ~work.undo
        /\ file # Absent
        /\ work.step # "backup" => work.own = made /\ made >= 1
        /\ work.step \in {"prepare", "truncate", "fill", "load"} => backups[work.own] = before
        /\ work.undo => work.text = before
        /\ work.op = "update" /\ work.step \in {"backup", "copy", "prepare"} => work.text \in Yaml
        /\ work.op = "restore" => work.from \in 1..MaxMade

LoadOK ==
    Loading =>
        /\ work.step \in {"ensure", "truncate", "fill", "load", "tools"}
        /\ ~work.undo /\ work.text = Source
        /\ work.op = "start" => ~Running
        /\ work.op = "reload" => Running /\ before # Absent
        /\ before # Absent => work.step \in {"ensure", "load", "tools"} /\ file = before
        /\ work.step \in {"load", "tools"} => file # Absent

Control ==
    /\ ChangeOK /\ LoadOK
    /\ Idle => work = Rest
    /\ Idle /\ Running => file # Absent
    /\ \A i \in 1..MaxMade : i > made => backups[i] = Absent

Shelf ==
    /\ \A r \in replaced : r.id \in 1..made /\ (r.id + Keep > made => backups[r.id] = r.text)
    /\ At("copy") => \A r \in replaced : r.id # made

Same ==
    /\ Running /\ ~drift => (IF Idle THEN file ELSE before) \in {loaded, returned}
    /\ Running => audit = loaded \/ split \/ At("tools")

Meant ==
    /\ Source \in authored
    /\ ~torn =>
         /\ Running => loaded \in authored
         /\ ~At("fill") => file \in authored \cup {Absent}
         /\ At("truncate") \/ At("fill") => work.text \in authored \/ (work.op = "update" /\ ~work.undo)
         /\ \A i \in 1..MaxMade :
              backups[i] \in authored \cup {Absent} \/ (At("copy") /\ i = work.own)

Inv == TypeOK /\ Control /\ Shelf /\ Same /\ Meant /\ RefusalRestores
-----------------------------------------------------------------------------
(* The operators.                                                          *)

LEMMA OutcomesKnown ==
    \A t : LoadOutcomes(t) \subseteq {"ok", "rejected", "broken"}
BY DEF LoadOutcomes, ValueOutcomes

LEMMA EmptyType == Empty \in Yaml /\ Empty \in Text /\ Source \in Text /\ Absent \notin Text
BY TextAssumption, SentinelAssumption DEF Empty, Yaml, Text

LEMMA MergeType ==
    ASSUME NEW t \in Yaml, NEW u \in Yaml PROVE Merge(t, u) \in Yaml
BY DEF Merge, Yaml

LEMMA RestType == Rest \in Work /\ Rest.op = "none"
BY EmptyType, SizeAssumption DEF Rest, Work

LEMMA PruneType ==
    ASSUME NEW b \in [1..MaxMade -> Text \cup {Absent}]
    PROVE  /\ Prune(b) \in [1..MaxMade -> Text \cup {Absent}]
           /\ \A i \in 1..MaxMade : Prune(b)[i] \in {b[i], Absent}
BY DEF Prune

LEMMA Sizes ==
    /\ MaxMade \in Nat /\ MaxOps \in Nat /\ MaxFaults \in Nat /\ MaxCrashes \in Nat
    /\ Keep \in Nat /\ Keep >= 1
BY SizeAssumption

\* The Keep newest numbers survive.
LEMMA PruneKeeps ==
    ASSUME NEW b \in [1..MaxMade -> Text \cup {Absent}], NEW m \in 0..MaxMade,
           \A j \in 1..MaxMade : j > m => b[j] = Absent,
           NEW i \in 1..MaxMade, i <= m, i + Keep > m
    PROVE  Prune(b)[i] = b[i]
<1> DEFINE S == {j \in Stored(b) : j > i}
<1>1. i \in Nat /\ m \in Nat /\ Keep \in Nat
    BY SizeAssumption
<1>2. S \subseteq (i + 1)..m
    BY <1>1, SizeAssumption DEF Stored
<1>3. IsFiniteSet((i + 1)..m) /\ Cardinality((i + 1)..m) = m - i
    BY <1>1, FS_Interval
<1>4. Cardinality(S) <= m - i /\ Cardinality(S) \in Nat
    BY <1>2, <1>3, FS_Subset, FS_CardinalityType
<1>5. ~(Cardinality(S) >= Keep)
    BY <1>1, <1>4
<1> QED
    BY <1>5 DEF Prune
-----------------------------------------------------------------------------
(* Types and control.                                                      *)

LEMMA InitInv == Init => Inv
<1> SUFFICES ASSUME Init PROVE Inv
    OBVIOUS
<1>1. TypeOK
    <2>1. /\ file \in Text \cup {Absent} /\ before \in Text \cup {Absent}
          /\ loaded \in Text \cup {Absent} /\ audit \in Text \cup {Absent}
          /\ returned \in Text \cup {Absent}
          /\ backups \in [1..MaxMade -> Text \cup {Absent}]
          /\ replaced \subseteq [id : 0..MaxMade, text : Text \cup {Absent}]
          /\ authored \subseteq Text
        BY EmptyType DEF Init
    <2>2. /\ made \in 0..MaxMade /\ ops \in 0..MaxOps /\ faults \in 0..MaxFaults
          /\ crashes \in 0..MaxCrashes
        BY SizeAssumption DEF Init
    <2>3. work \in Work /\ torn \in BOOLEAN /\ drift \in BOOLEAN /\ split \in BOOLEAN
          /\ outcome = "none"
        BY RestType DEF Init
    <2> QED
        BY <2>1, <2>2, <2>3 DEF TypeOK
<1>2. Idle /\ ~Running /\ work = Rest
    BY RestType DEF Init, Idle, Running
<1>3. Control /\ Shelf /\ Same /\ RefusalRestores
    BY <1>2 DEF Init, Control, ChangeOK, LoadOK, Changing, Loading, Shelf, Same, At, Idle,
                RefusalRestores
<1>4. Meant
    BY <1>2 DEF Init, Meant, At
<1> QED
    BY <1>1, <1>3, <1>4 DEF Inv

LEMMA BeginUpdateStep ==
    ASSUME Inv, NEW u \in Updates, BeginUpdate(u) PROVE Inv'
<1> USE RestType, EmptyType, Sizes, TextAssumption, SentinelAssumption DEF BeginUpdate, Begin, process, observers, budget, At, Idle, Running
<1>1. TypeOK'
    <2>1. work' \in Work
        BY DEF Inv, TypeOK, Work, Rest, Text
    <2> QED
        BY <2>1 DEF Inv, TypeOK
<1>2. Control'
    BY DEF Inv, TypeOK, Work, Control, ChangeOK, LoadOK, Changing, Loading, Rest
<1>3. Shelf'
    BY DEF Inv, TypeOK, Work, Control, ChangeOK, Changing, Shelf, Rest
<1>4. Same'
    BY DEF Inv, TypeOK, Work, Control, ChangeOK, LoadOK, Changing, Loading, Same, Rest
<1>5. Meant'
    BY DEF Inv, TypeOK, Work, Control, ChangeOK, LoadOK, Changing, Loading, Meant, Rest
<1>6. RefusalRestores'
    BY DEF Inv, Control, ChangeOK, LoadOK, Changing, Loading, RefusalRestores, Rest
<1> QED
    BY <1>1, <1>2, <1>3, <1>4, <1>5, <1>6 DEF Inv

LEMMA BeginRestoreStep ==
    ASSUME Inv, NEW i \in 1..MaxMade, BeginRestore(i) PROVE Inv'
<1> USE RestType, EmptyType, Sizes, TextAssumption, SentinelAssumption DEF BeginRestore, Begin, process, observers, budget, At, Idle, Running
<1>1. TypeOK'
    <2>1. i \in 0..MaxMade /\ 0 \in 0..MaxMade
        BY Sizes
    <2>1a. work' = [op |-> "restore", step |-> "backup", text |-> Empty, own |-> 0,
                    from |-> i, undo |-> FALSE]
        BY DEF Rest
    <2>2. work' \in Work
        BY <2>1, <2>1a DEF Work
    <2> QED
        BY <2>2 DEF Inv, TypeOK
<1>2. Control'
    BY DEF Inv, TypeOK, Work, Control, ChangeOK, LoadOK, Changing, Loading, Rest
<1>3. Shelf'
    BY DEF Inv, TypeOK, Work, Control, ChangeOK, Changing, Shelf, Rest
<1>4. Same'
    BY DEF Inv, TypeOK, Work, Control, ChangeOK, LoadOK, Changing, Loading, Same, Rest
<1>5. Meant'
    BY DEF Inv, TypeOK, Work, Control, ChangeOK, LoadOK, Changing, Loading, Meant, Rest
<1>6. RefusalRestores'
    BY DEF Inv, Control, ChangeOK, LoadOK, Changing, Loading, RefusalRestores, Rest
<1> QED
    BY <1>1, <1>2, <1>3, <1>4, <1>5, <1>6 DEF Inv

LEMMA BeginStartStep ==
    ASSUME Inv, BeginStart PROVE Inv'
<1> USE RestType, EmptyType, Sizes, TextAssumption, SentinelAssumption DEF BeginStart, Begin, process, observers, budget, At, Idle, Running
<1>1. TypeOK'
    <2>1. work' \in Work
        BY DEF Inv, TypeOK, Work, Rest, Text
    <2> QED
        BY <2>1 DEF Inv, TypeOK
<1>2. Control'
    BY DEF Inv, TypeOK, Work, Control, ChangeOK, LoadOK, Changing, Loading, Rest
<1>3. Shelf'
    BY DEF Inv, TypeOK, Work, Control, ChangeOK, Changing, Shelf, Rest
<1>4. Same'
    BY DEF Inv, TypeOK, Work, Control, ChangeOK, LoadOK, Changing, Loading, Same, Rest
<1>5. Meant'
    BY DEF Inv, TypeOK, Work, Control, ChangeOK, LoadOK, Changing, Loading, Meant, Rest
<1>6. RefusalRestores'
    BY DEF Inv, Control, ChangeOK, LoadOK, Changing, Loading, RefusalRestores, Rest
<1> QED
    BY <1>1, <1>2, <1>3, <1>4, <1>5, <1>6 DEF Inv

LEMMA BeginReloadStep ==
    ASSUME Inv, BeginReload PROVE Inv'
<1> USE RestType, EmptyType, Sizes, TextAssumption, SentinelAssumption DEF BeginReload, Begin, process, observers, budget, At, Idle, Running
<1>1. TypeOK'
    <2>1. work' \in Work
        BY DEF Inv, TypeOK, Work, Rest, Text
    <2> QED
        BY <2>1 DEF Inv, TypeOK
<1>2. Control'
    BY DEF Inv, TypeOK, Work, Control, ChangeOK, LoadOK, Changing, Loading, Rest
<1>3. Shelf'
    BY DEF Inv, TypeOK, Work, Control, ChangeOK, Changing, Shelf, Rest
<1>4. Same'
    BY DEF Inv, TypeOK, Work, Control, ChangeOK, LoadOK, Changing, Loading, Same, Rest
<1>5. Meant'
    BY DEF Inv, TypeOK, Work, Control, ChangeOK, LoadOK, Changing, Loading, Meant, Rest
<1>6. RefusalRestores'
    BY DEF Inv, Control, ChangeOK, LoadOK, Changing, Loading, RefusalRestores, Rest
<1> QED
    BY <1>1, <1>2, <1>3, <1>4, <1>5, <1>6 DEF Inv

LEMMA OpenBackupStep ==
    ASSUME Inv, OpenBackup PROVE Inv'
<1> USE RestType, EmptyType, Sizes, TextAssumption, SentinelAssumption DEF OpenBackup, process, observers, budget, At, Idle, Running
<1>1. TypeOK'
    <2> made + 1 \in 1..MaxMade
        BY DEF Inv, TypeOK
    <2>1. work' \in Work
        <3>1. work \in Work /\ work' = [work EXCEPT !.own = made + 1, !.step = "copy"]
            BY DEF Inv, TypeOK
        <3>2. made + 1 \in 0..MaxMade
            BY DEF Inv, TypeOK
        <3> QED
            BY <3>1, <3>2 DEF Work
    <2> QED
        BY <2>1 DEF Inv, TypeOK
<1>2. Control'
    BY DEF Inv, TypeOK, Work, Control, ChangeOK, LoadOK, Changing, Loading, Rest
<1>3. Shelf'
    <2>1. made' = made + 1 /\ made \in Nat /\ made + 1 \in 1..MaxMade
        BY DEF Inv, TypeOK
    <2> SUFFICES ASSUME NEW r \in replaced
                 PROVE  /\ r.id \in 1..made' /\ r.id # made'
                        /\ (r.id + Keep > made' => backups'[r.id] = r.text)
        BY DEF Shelf
    <2>2. r.id \in 1..made /\ (r.id + Keep > made => backups[r.id] = r.text)
        BY DEF Inv, Shelf
    <2>3. backups'[r.id] = backups[r.id]
        BY <2>1, <2>2 DEF Inv, TypeOK
    <2> QED
        BY <2>1, <2>2, <2>3
<1>4. Same'
    BY DEF Inv, TypeOK, Work, Control, ChangeOK, LoadOK, Changing, Loading, Same, Rest
<1>5. Meant'
    BY DEF Inv, TypeOK, Work, Control, ChangeOK, LoadOK, Changing, Loading, Meant, Rest
<1>6. RefusalRestores'
    BY DEF Inv, Control, ChangeOK, LoadOK, Changing, Loading, RefusalRestores, Rest
<1> QED
    BY <1>1, <1>2, <1>3, <1>4, <1>5, <1>6 DEF Inv

LEMMA CopyBackupStep ==
    ASSUME Inv, CopyBackup PROVE Inv'
<1> USE RestType, EmptyType, Sizes DEF CopyBackup, process, observers, budget, At, Idle, Running
<1> DEFINE b == [backups EXCEPT ![work.own] = file]
<1>0. /\ Changing /\ ~Loading /\ work.own = made /\ made \in 1..MaxMade /\ file = before
      /\ file \in Text
    BY DEF Inv, TypeOK, Work, Control, ChangeOK, LoadOK, Changing, Loading
<1>0a. /\ b \in [1..MaxMade -> Text \cup {Absent}] /\ b[made] = file
       /\ \A i \in 1..MaxMade : i # made => b[i] = backups[i]
       /\ backups' = Prune(b)
    BY <1>0 DEF Inv, TypeOK
<1>0b. \A i \in 1..MaxMade : i > made => b[i] = Absent
    BY <1>0, <1>0a DEF Inv, Control
<1> HIDE DEF b
<1>0c. /\ backups' \in [1..MaxMade -> Text \cup {Absent}]
       /\ \A i \in 1..MaxMade : backups'[i] \in {b[i], Absent}
    BY <1>0a, PruneType
<1>0d. \A i \in 1..made : i + Keep > made => backups'[i] = b[i]
    <2> SUFFICES ASSUME NEW i \in 1..made, i + Keep > made PROVE backups'[i] = b[i]
        OBVIOUS
    <2>1. made \in 0..MaxMade /\ i \in 1..MaxMade /\ i <= made
        BY <1>0
    <2>2. Prune(b)[i] = b[i]
        BY <2>1, <1>0a, <1>0b, PruneKeeps
    <2> QED
        BY <2>2, <1>0a
<1>1. TypeOK'
    <2>1. /\ work \in Work
          /\ work' = [work EXCEPT !.step = "prepare"]
        BY DEF Inv, TypeOK
    <2>2. work' \in Work
        BY <2>1 DEF Work
    <2> QED
        BY <1>0c, <2>2 DEF Inv, TypeOK
<1>2. Control'
    <2>1. backups'[made] = before
        <3>1. made \in 1..made /\ made + Keep > made
            BY <1>0
        <3> QED
            BY <3>1, <1>0, <1>0a, <1>0d
    <2>2. \A i \in 1..MaxMade : i > made => backups'[i] = Absent
        BY <1>0b, <1>0c
    <2> QED
        BY <1>0, <2>1, <2>2 DEF Inv, TypeOK, Work, Control, ChangeOK, LoadOK, Changing, Loading
<1>3. Shelf'
    <2>1. \A r \in replaced : r.id \in 1..made /\ r.id # made
        BY DEF Inv, Shelf
    <2>2. \A r \in replaced : r.id + Keep > made => backups'[r.id] = r.text
        <3> SUFFICES ASSUME NEW r \in replaced, r.id + Keep > made PROVE backups'[r.id] = r.text
            OBVIOUS
        <3>1. backups'[r.id] = b[r.id]
            BY <2>1, <1>0d
        <3>2. b[r.id] = backups[r.id]
            BY <2>1, <1>0, <1>0a
        <3> QED
            BY <3>1, <3>2 DEF Inv, Shelf
    <2> QED
        BY <2>1, <2>2, <1>0 DEF Inv, TypeOK, Work, Shelf
<1>4. Same'
    BY <1>0 DEF Inv, TypeOK, Work, Same
<1>5. Meant'
    <2>1. ASSUME ~torn, NEW i \in 1..MaxMade PROVE backups'[i] \in authored \cup {Absent}
        BY <2>1, <1>0, <1>0a, <1>0c DEF Inv, Meant
    <2> QED
        BY <2>1, <1>0 DEF Inv, TypeOK, Work, Meant, Changing
<1>6. RefusalRestores'
    BY <1>0 DEF Inv, TypeOK, Work, RefusalRestores, Changing
<1> QED
    BY <1>1, <1>2, <1>3, <1>4, <1>5, <1>6 DEF Inv

\* What a handler knows of the file once it knows what to write.
LEMMA PreparedControl ==
    ASSUME Inv, At("prepare"), Changing, UNCHANGED <<file, backups, made, before, loaded>>,
           work' = Rest \/ \E t : work' = [work EXCEPT !.text = t, !.step = "truncate"]
    PROVE  Control'
<1>1. /\ work \in Work /\ work.step = "prepare" /\ ~work.undo
      /\ Running /\ before # Absent /\ file = before /\ file # Absent
      /\ work.own = made /\ made >= 1 /\ backups[work.own] = before
      /\ work.op = "restore" => work.from \in 1..MaxMade
    BY DEF Inv, TypeOK, Control, ChangeOK, At
<1>2. \/ work' = Rest
      \/ /\ work'.op = work.op /\ work'.step = "truncate" /\ work'.undo = work.undo
         /\ work'.own = work.own /\ work'.from = work.from
    BY <1>1 DEF Work
<1>3. work.op \in {"update", "restore"} /\ Rest.op = "none"
    BY DEF Rest, Changing
<1>4. ChangeOK'
  <2> SUFFICES ASSUME Changing' PROVE ChangeOK'
    BY DEF ChangeOK
  <2>1. /\ work'.op = work.op /\ work'.step = "truncate" /\ ~work'.undo
        /\ work'.own = made' /\ work'.from = work.from
    BY <1>1, <1>2, <1>3 DEF Changing
  <2>2. backups'[work'.own] = before' /\ made' >= 1 /\ file' = before' /\ before' # Absent
    BY <1>1, <2>1
  <2>3. Running'
    BY <1>1 DEF Running
  <2>4. work'.op = "restore" => work'.from \in 1..MaxMade
    BY <1>1, <2>1
  <2> QED
    BY <2>1, <2>2, <2>3, <2>4 DEF ChangeOK
<1>5. LoadOK'
  <2>1. work'.op \notin {"start", "reload"}
    BY <1>2, <1>3
  <2> QED
    BY <2>1 DEF LoadOK, Loading
<1>6. (Idle => work = Rest)' /\ (Idle /\ Running => file # Absent)'
  <2>1. work'.op = "none" => work' = Rest
    BY <1>2, <1>3
  <2> QED
    BY <1>1, <2>1 DEF Idle
<1>7. (\A i \in 1..MaxMade : i > made => backups[i] = Absent)'
    BY DEF Inv, Control
<1> QED
    BY <1>4, <1>5, <1>6, <1>7 DEF Control

LEMMA PrepareUpdateStep ==
    ASSUME Inv, PrepareUpdate PROVE Inv'
<1> USE RestType, EmptyType, Sizes, TextAssumption, SentinelAssumption DEF PrepareUpdate, End, process, observers, budget, At, Idle, Running
<1>1. TypeOK'
    <2>1. work.text \in Yaml /\ file \in Text
        BY DEF Inv, TypeOK, Control, ChangeOK, Changing
    <2>2. file # Garbled => Merge(file, work.text) \in Text
        BY <2>1, MergeType DEF Text
    <2>3. work' \in Work /\ outcome' \in {outcome, "broken", "refused"}
        <3>1. work \in Work
            BY DEF Inv, TypeOK
        <3>2. \/ work' = Rest /\ outcome' \in {"broken", "refused"}
              \/ /\ Merge(file, work.text) \in Text /\ outcome' = outcome
                 /\ work' = [work EXCEPT !.text = Merge(file, work.text), !.step = "truncate"]
            BY <2>2
        <3> QED
            BY <3>1, <3>2 DEF Work
    <2> QED
        BY <2>3 DEF Inv, TypeOK
<1>2. Control'
    <2>1. At("prepare") /\ Changing /\ UNCHANGED <<file, backups, made, before, loaded>>
        BY DEF Changing
    <2>2. work' = Rest \/ \E t : work' = [work EXCEPT !.text = t, !.step = "truncate"]
        OBVIOUS
    <2> QED
        BY <2>1, <2>2, PreparedControl
<1>3. Shelf'
    BY DEF Inv, TypeOK, Work, Control, ChangeOK, Changing, Shelf, Rest
<1>4. Same'
    BY DEF Inv, TypeOK, Work, Control, ChangeOK, LoadOK, Changing, Loading, Same, Rest
<1>5. Meant'
    BY DEF Inv, TypeOK, Work, Control, ChangeOK, LoadOK, Changing, Loading, Meant, Rest
<1>6. RefusalRestores'
    BY DEF Inv, Control, ChangeOK, LoadOK, Changing, Loading, RefusalRestores, Rest
<1> QED
    BY <1>1, <1>2, <1>3, <1>4, <1>5, <1>6 DEF Inv

LEMMA PrepareRestoreStep ==
    ASSUME Inv, PrepareRestore PROVE Inv'
<1> USE RestType, EmptyType, Sizes, TextAssumption, SentinelAssumption DEF PrepareRestore, End, process, observers, budget, At, Idle, Running
<1>1. TypeOK'
    <2>1. work' \in Work
        <3>1. backups[work.from] \in Text \cup {Absent}
            BY DEF Inv, TypeOK, Work, Control, ChangeOK, Changing
        <3>2. /\ work \in Work
              /\ \/ work' = Rest
                 \/ /\ work' = [work EXCEPT !.text = backups[work.from], !.step = "truncate"]
                    /\ backups[work.from] \in Text
            BY <3>1 DEF Inv, TypeOK
        <3> QED
            BY <3>2 DEF Work
    <2> QED
        BY <2>1 DEF Inv, TypeOK
<1>2. Control'
    <2>1. At("prepare") /\ Changing /\ UNCHANGED <<file, backups, made, before, loaded>>
        BY DEF Changing
    <2>2. work' = Rest \/ \E t : work' = [work EXCEPT !.text = t, !.step = "truncate"]
        OBVIOUS
    <2> QED
        BY <2>1, <2>2, PreparedControl
<1>3. Shelf'
    BY DEF Inv, TypeOK, Work, Control, ChangeOK, Changing, Shelf, Rest
<1>4. Same'
    BY DEF Inv, TypeOK, Work, Control, ChangeOK, LoadOK, Changing, Loading, Same, Rest
<1>5. Meant'
    BY DEF Inv, TypeOK, Work, Control, ChangeOK, LoadOK, Changing, Loading, Meant, Rest
<1>6. RefusalRestores'
    BY DEF Inv, Control, ChangeOK, LoadOK, Changing, Loading, RefusalRestores, Rest
<1> QED
    BY <1>1, <1>2, <1>3, <1>4, <1>5, <1>6 DEF Inv

LEMMA TruncateStep ==
    ASSUME Inv, Truncate PROVE Inv'
<1> USE RestType, EmptyType, Sizes, TextAssumption, SentinelAssumption DEF Truncate, process, observers, budget, At, Idle, Running
<1>1. TypeOK'
    BY DEF Inv, TypeOK, Work, Rest
<1>2. Control'
    BY DEF Inv, TypeOK, Work, Control, ChangeOK, LoadOK, Changing, Loading, Rest
<1>3. Shelf'
    BY DEF Inv, TypeOK, Work, Control, ChangeOK, Changing, Shelf, Rest
<1>4. Same'
    BY DEF Inv, TypeOK, Work, Control, ChangeOK, LoadOK, Changing, Loading, Same, Rest
<1>5. Meant'
    BY DEF Inv, TypeOK, Work, Control, ChangeOK, LoadOK, Changing, Loading, Meant, Rest
<1>6. RefusalRestores'
    BY DEF Inv, Control, ChangeOK, LoadOK, Changing, Loading, RefusalRestores, Rest
<1> QED
    BY <1>1, <1>2, <1>3, <1>4, <1>5, <1>6 DEF Inv

LEMMA FillStep ==
    ASSUME Inv, Fill PROVE Inv'
<1> USE RestType, EmptyType, Sizes, TextAssumption, SentinelAssumption DEF Fill, End, process, observers, budget, At, Idle, Running
<1>1. TypeOK'
    <2>1. work' \in Work
        <3>1. work \in Work /\ (work' = Rest \/ work' = [work EXCEPT !.step = "load"])
            BY DEF Inv, TypeOK
        <3> QED
            BY <3>1 DEF Work
    <2>2. work.text \in Text
        BY DEF Inv, TypeOK, Work
    <2> QED
        BY <2>1, <2>2 DEF Inv, TypeOK
<1>2. Control'
    BY DEF Inv, TypeOK, Work, Control, ChangeOK, LoadOK, Changing, Loading, Rest
<1>3. Shelf'
    BY DEF Inv, TypeOK, Work, Control, ChangeOK, Changing, Shelf, Rest
<1>4. Same'
    BY DEF Inv, TypeOK, Work, Control, ChangeOK, LoadOK, Changing, Loading, Same, Rest
<1>5. Meant'
    BY DEF Inv, TypeOK, Work, Control, ChangeOK, LoadOK, Changing, Loading, Meant, Rest
<1>6. RefusalRestores'
    BY DEF Inv, TypeOK, Work, Control, ChangeOK, LoadOK, Changing, Loading, RefusalRestores, Rest
<1> QED
    BY <1>1, <1>2, <1>3, <1>4, <1>5, <1>6 DEF Inv

LEMMA LoadWrittenStep ==
    ASSUME Inv, LoadWritten PROVE Inv'
<1> USE RestType, EmptyType DEF process, observers, budget, At, Idle, Running
<1>0. /\ Changing /\ ~Loading /\ work.step = "load" /\ ~work.undo /\ file \in Text
      /\ backups[work.own] = before /\ before \in Text /\ before # Absent /\ ~Idle /\ Running
      /\ work.own \in 1..MaxMade
    BY Sizes DEF LoadWritten, Inv, TypeOK, Work, Control, ChangeOK, Changing, Loading
<1>1. UNCHANGED <<file, backups, made, loaded, audit, before, replaced, authored, torn, split,
                  budget>>
    BY DEF LoadWritten
<1>2. \/ work' = Rest /\ outcome' = "done" /\ returned' = file /\ drift' = FALSE
      \/ work' = Rest /\ outcome' = "broken" /\ returned' = returned /\ drift' = TRUE
      \/ /\ work' = [work EXCEPT !.text = before, !.undo = TRUE, !.step = "truncate"]
         /\ UNCHANGED <<outcome, returned>> /\ drift' = drift
    <2>1. PICK o \in {"ok", "broken", "rejected"} :
            /\ returned' = (IF o = "ok" THEN file ELSE returned)
            /\ CASE o = "ok" -> End("done")
                 [] o = "broken" -> End("broken")
                 [] o = "rejected" /\ backups[work.own] = Absent -> End("refused")
                 [] o = "rejected" /\ backups[work.own] # Absent ->
                      /\ work' = [work EXCEPT !.text = backups[work.own], !.undo = TRUE,
                                              !.step = "truncate"]
                      /\ UNCHANGED outcome
            /\ drift' = (IF o = "ok" THEN FALSE ELSE drift \/ o = "broken")
        BY OutcomesKnown DEF LoadWritten
    <2>2. CASE o = "ok"
        BY <2>1, <2>2 DEF End
    <2>3. CASE o = "broken"
        BY <2>1, <2>3 DEF End
    <2>4. CASE o = "rejected"
        <3>1. drift \in BOOLEAN
            BY DEF Inv, TypeOK
        <3> QED
            BY <1>0, <2>1, <2>4, <3>1
    <2> QED
        BY <2>2, <2>3, <2>4
<1>a. \/ work' = Rest
      \/ work' = [work EXCEPT !.text = before, !.undo = TRUE, !.step = "truncate"]
    BY <1>2
<1>b. /\ work \in Work /\ work' \in Work
      /\ \/ work' = Rest
         \/ /\ work'.op = work.op /\ work'.step = "truncate" /\ work'.text = before /\ work'.undo
            /\ work'.own = work.own /\ work'.from = work.from
    <2>1. work \in Work
        BY DEF Inv, TypeOK
    <2>2. CASE work' = Rest
        BY <2>1, <2>2
    <2>3. CASE work' = [work EXCEPT !.text = before, !.undo = TRUE, !.step = "truncate"]
        BY <1>0, <2>1, <2>3 DEF Work
    <2> QED
        BY <1>a, <2>1, <2>2, <2>3
<1>3. TypeOK'
    <2>1. outcome' \in {outcome, "done", "broken"} /\ returned' \in {returned, file}
        BY <1>2
    <2>2. drift' \in BOOLEAN
        BY <1>2 DEF Inv, TypeOK
    <2> QED
        BY <1>0, <1>1, <1>b, <2>1, <2>2 DEF Inv, TypeOK
<1>4. Control'
    <2>1. /\ file' = file /\ backups' = backups /\ made' = made /\ before' = before
          /\ Running' /\ file # Absent
        <3>1. loaded' = loaded /\ loaded # Absent /\ file # Absent
            BY <1>0, <1>1
        <3> QED
            BY <1>1, <3>1
    <2>2. CASE work' = Rest
        <3>1. ~Changing' /\ ~Loading' /\ Idle'
            BY <2>2 DEF Changing, Loading
        <3>2. ChangeOK' /\ LoadOK'
            BY <3>1 DEF ChangeOK, LoadOK
        <3>3. \A i \in 1..MaxMade : i > made => backups[i] = Absent
            BY DEF Inv, Control
        <3> QED
            BY <2>1, <2>2, <3>2, <3>3 DEF Control
    <2>3. CASE /\ work'.op = work.op /\ work'.step = "truncate" /\ work'.text = before
               /\ work'.undo /\ work'.own = work.own /\ work'.from = work.from
        <3>2. Changing' /\ ~Loading' /\ ~Idle'
            BY <1>0, <2>3 DEF Changing, Loading
        <3>3. /\ work.own = made /\ made >= 1
              /\ work.op = "restore" => work.from \in 1..MaxMade
            BY <1>0 DEF Inv, Control, ChangeOK
        <3>4. ChangeOK' /\ LoadOK'
            BY <1>0, <2>1, <2>3, <3>2, <3>3 DEF ChangeOK, LoadOK
        <3>5. \A i \in 1..MaxMade : i > made => backups[i] = Absent
            BY DEF Inv, Control
        <3> QED
            BY <2>1, <3>2, <3>4, <3>5 DEF Control
    <2> QED
        BY <1>b, <2>2, <2>3
<1>5. Shelf'
    BY <1>0, <1>1, <1>2 DEF Inv, TypeOK, Work, Shelf
<1>6. Same'
    BY <1>0, <1>1, <1>2 DEF Inv, TypeOK, Work, Same
<1>7. Meant'
    <2>1. ~torn => file \in authored /\ before \in authored
        BY <1>0 DEF Inv, Meant
    <2> QED
        BY <1>0, <1>1, <1>2, <2>1 DEF Inv, TypeOK, Work, Meant
<1>8. RefusalRestores'
    BY <1>0, <1>1, <1>2 DEF Inv, TypeOK, Work, RefusalRestores
<1> QED
    BY <1>3, <1>4, <1>5, <1>6, <1>7, <1>8 DEF Inv

LEMMA EnsureStep ==
    ASSUME Inv, Ensure PROVE Inv'
<1> USE RestType, EmptyType, Sizes, TextAssumption, SentinelAssumption DEF Ensure, process, observers, budget, At, Idle, Running
<1>1. TypeOK'
    BY DEF Inv, TypeOK, Work, Rest
<1>2. Control'
    BY DEF Inv, TypeOK, Work, Control, ChangeOK, LoadOK, Changing, Loading, Rest
<1>3. Shelf'
    BY DEF Inv, TypeOK, Work, Control, ChangeOK, Changing, Shelf, Rest
<1>4. Same'
    BY DEF Inv, TypeOK, Work, Control, ChangeOK, LoadOK, Changing, Loading, Same, Rest
<1>5. Meant'
    BY DEF Inv, TypeOK, Work, Control, ChangeOK, LoadOK, Changing, Loading, Meant, Rest
<1>6. RefusalRestores'
    BY DEF Inv, Control, ChangeOK, LoadOK, Changing, Loading, RefusalRestores, Rest
<1> QED
    BY <1>1, <1>2, <1>3, <1>4, <1>5, <1>6 DEF Inv

LEMMA LoadAtStartStep ==
    ASSUME Inv, LoadAtStart PROVE Inv'
<1> USE RestType, EmptyType, Sizes, TextAssumption, SentinelAssumption DEF LoadAtStart, End, process, observers, budget, At, Idle, Running
<1>1. TypeOK'
    BY DEF Inv, TypeOK, Work, Rest
<1>2. Control'
    BY DEF Inv, TypeOK, Work, Control, ChangeOK, LoadOK, Changing, Loading, Rest
<1>3. Shelf'
    BY DEF Inv, TypeOK, Work, Control, ChangeOK, Changing, Shelf, Rest
<1>4. Same'
    BY DEF Inv, TypeOK, Work, Control, ChangeOK, LoadOK, Changing, Loading, Same, Rest
<1>5. Meant'
    BY DEF Inv, TypeOK, Work, Control, ChangeOK, LoadOK, Changing, Loading, Meant, Rest
<1>6. RefusalRestores'
    BY DEF Inv, Control, ChangeOK, LoadOK, Changing, Loading, RefusalRestores, Rest
<1> QED
    BY <1>1, <1>2, <1>3, <1>4, <1>5, <1>6 DEF Inv

LEMMA LoadAtReloadStep ==
    ASSUME Inv, LoadAtReload PROVE Inv'
<1> USE RestType, EmptyType, Sizes, TextAssumption, SentinelAssumption DEF LoadAtReload, End, process, observers, budget, At, Idle, Running
<1>1. TypeOK'
    <2>1. work' \in Work
        <3>1. work \in Work /\ (work' = Rest \/ work' = [work EXCEPT !.step = "tools"])
            BY DEF Inv, TypeOK
        <3> QED
            BY <3>1 DEF Work
    <2> QED
        BY <2>1 DEF Inv, TypeOK
<1>2. Control'
    BY DEF Inv, TypeOK, Work, Control, ChangeOK, LoadOK, Changing, Loading, Rest
<1>3. Shelf'
    BY DEF Inv, TypeOK, Work, Control, ChangeOK, Changing, Shelf, Rest
<1>4. Same'
    BY DEF Inv, TypeOK, Work, Control, ChangeOK, LoadOK, Changing, Loading, Same, Rest
<1>5. Meant'
    BY DEF Inv, TypeOK, Work, Control, ChangeOK, LoadOK, Changing, Loading, Meant, Rest
<1>6. RefusalRestores'
    BY DEF Inv, Control, ChangeOK, LoadOK, Changing, Loading, RefusalRestores, Rest
<1> QED
    BY <1>1, <1>2, <1>3, <1>4, <1>5, <1>6 DEF Inv

LEMMA SyncAuditStep ==
    ASSUME Inv, SyncAudit PROVE Inv'
<1> USE RestType, EmptyType, Sizes, TextAssumption, SentinelAssumption DEF SyncAudit, End, process, observers, budget, At, Idle, Running
<1>1. TypeOK'
    BY DEF Inv, TypeOK, Work, Rest
<1>2. Control'
    BY DEF Inv, TypeOK, Work, Control, ChangeOK, LoadOK, Changing, Loading, Rest
<1>3. Shelf'
    BY DEF Inv, TypeOK, Work, Control, ChangeOK, Changing, Shelf, Rest
<1>4. Same'
    BY DEF Inv, TypeOK, Work, Control, ChangeOK, LoadOK, Changing, Loading, Same, Rest
<1>5. Meant'
    BY DEF Inv, TypeOK, Work, Control, ChangeOK, LoadOK, Changing, Loading, Meant, Rest
<1>6. RefusalRestores'
    BY DEF Inv, Control, ChangeOK, LoadOK, Changing, Loading, RefusalRestores, Rest
<1> QED
    BY <1>1, <1>2, <1>3, <1>4, <1>5, <1>6 DEF Inv

LEMMA BackupFailsStep ==
    ASSUME Inv, BackupFails PROVE Inv'
<1> USE RestType, EmptyType, Sizes, TextAssumption, SentinelAssumption DEF BackupFails, End, process, observers, budget, At, Idle, Running
<1>1. TypeOK'
    BY DEF Inv, TypeOK, Work, Rest
<1>2. Control'
    BY DEF Inv, TypeOK, Work, Control, ChangeOK, LoadOK, Changing, Loading, Rest
<1>3. Shelf'
    BY DEF Inv, TypeOK, Work, Control, ChangeOK, Changing, Shelf, Rest
<1>4. Same'
    BY DEF Inv, TypeOK, Work, Control, ChangeOK, LoadOK, Changing, Loading, Same, Rest
<1>5. Meant'
    BY DEF Inv, TypeOK, Work, Control, ChangeOK, LoadOK, Changing, Loading, Meant, Rest
<1>6. RefusalRestores'
    BY DEF Inv, Control, ChangeOK, LoadOK, Changing, Loading, RefusalRestores, Rest
<1> QED
    BY <1>1, <1>2, <1>3, <1>4, <1>5, <1>6 DEF Inv

LEMMA UnwritableStep ==
    ASSUME Inv, Unwritable PROVE Inv'
<1> USE RestType, EmptyType, Sizes, TextAssumption, SentinelAssumption DEF Unwritable, End, process, observers, budget, At, Idle, Running
<1>1. TypeOK'
    BY DEF Inv, TypeOK, Work, Rest
<1>2. Control'
    BY DEF Inv, TypeOK, Work, Control, ChangeOK, LoadOK, Changing, Loading, Rest
<1>3. Shelf'
    BY DEF Inv, TypeOK, Work, Control, ChangeOK, Changing, Shelf, Rest
<1>4. Same'
    BY DEF Inv, TypeOK, Work, Control, ChangeOK, LoadOK, Changing, Loading, Same, Rest
<1>5. Meant'
    BY DEF Inv, TypeOK, Work, Control, ChangeOK, LoadOK, Changing, Loading, Meant, Rest
<1>6. RefusalRestores'
    BY DEF Inv, Control, ChangeOK, LoadOK, Changing, Loading, RefusalRestores, Rest
<1> QED
    BY <1>1, <1>2, <1>3, <1>4, <1>5, <1>6 DEF Inv

LEMMA DiskFullStep ==
    ASSUME Inv, DiskFull PROVE Inv'
<1> USE RestType, EmptyType, Sizes, TextAssumption, SentinelAssumption DEF DiskFull, End, process, observers, budget, At, Idle, Running
<1>1. TypeOK'
    BY DEF Inv, TypeOK, Work, Rest
<1>2. Control'
    BY DEF Inv, TypeOK, Work, Control, ChangeOK, LoadOK, Changing, Loading, Rest
<1>3. Shelf'
    BY DEF Inv, TypeOK, Work, Control, ChangeOK, Changing, Shelf, Rest
<1>4. Same'
    BY DEF Inv, TypeOK, Work, Control, ChangeOK, LoadOK, Changing, Loading, Same, Rest
<1>5. Meant'
    BY DEF Inv, TypeOK, Work, Control, ChangeOK, LoadOK, Changing, Loading, Meant, Rest
<1>6. RefusalRestores'
    BY DEF Inv, Control, ChangeOK, LoadOK, Changing, Loading, RefusalRestores, Rest
<1> QED
    BY <1>1, <1>2, <1>3, <1>4, <1>5, <1>6 DEF Inv

LEMMA ToolsInvalidStep ==
    ASSUME Inv, ToolsInvalid PROVE Inv'
<1> USE RestType, EmptyType, Sizes, TextAssumption, SentinelAssumption DEF ToolsInvalid, End, process, observers, budget, At, Idle, Running
<1>1. TypeOK'
    BY DEF Inv, TypeOK, Work, Rest
<1>2. Control'
    BY DEF Inv, TypeOK, Work, Control, ChangeOK, LoadOK, Changing, Loading, Rest
<1>3. Shelf'
    BY DEF Inv, TypeOK, Work, Control, ChangeOK, Changing, Shelf, Rest
<1>4. Same'
    BY DEF Inv, TypeOK, Work, Control, ChangeOK, LoadOK, Changing, Loading, Same, Rest
<1>5. Meant'
    BY DEF Inv, TypeOK, Work, Control, ChangeOK, LoadOK, Changing, Loading, Meant, Rest
<1>6. RefusalRestores'
    BY DEF Inv, TypeOK, Work, Control, ChangeOK, LoadOK, Changing, Loading, RefusalRestores, Rest
<1> QED
    BY <1>1, <1>2, <1>3, <1>4, <1>5, <1>6 DEF Inv

LEMMA CrashStep ==
    ASSUME Inv, Crash PROVE Inv'
<1> USE RestType, EmptyType, Sizes, TextAssumption, SentinelAssumption DEF Crash, process, observers, budget, At, Idle, Running
<1>1. TypeOK'
    <2>1. work' \in Work
        BY DEF Inv, TypeOK, Work, Rest, Control, ChangeOK, Changing
    <2>2. file' \in Text \cup {Absent} /\ torn' \in BOOLEAN /\ crashes' \in 0..MaxCrashes
        BY DEF Inv, TypeOK, Text
    <2> QED
        BY <2>1, <2>2 DEF Inv, TypeOK
<1>2. Control'
    BY DEF Inv, TypeOK, Work, Control, ChangeOK, LoadOK, Changing, Loading, Rest
<1>3. Shelf'
    BY DEF Inv, TypeOK, Work, Control, ChangeOK, Changing, Shelf, Rest
<1>4. Same'
    BY DEF Inv, TypeOK, Work, Control, ChangeOK, LoadOK, Changing, Loading, Same, Rest
<1>5. Meant'
    BY DEF Inv, TypeOK, Work, Control, ChangeOK, LoadOK, Changing, Loading, Meant, Rest
<1>6. RefusalRestores'
    BY DEF Inv, Control, ChangeOK, LoadOK, Changing, Loading, RefusalRestores, Rest
<1> QED
    BY <1>1, <1>2, <1>3, <1>4, <1>5, <1>6 DEF Inv

LEMMA EditByHandStep ==
    ASSUME Inv, NEW t \in Edits, EditByHand(t) PROVE Inv'
<1> USE RestType, EmptyType, Sizes, TextAssumption, SentinelAssumption DEF EditByHand, process, observers, budget, At, Idle, Running
<1>1. TypeOK'
    BY DEF Inv, TypeOK, Work, Rest
<1>2. Control'
    BY DEF Inv, TypeOK, Work, Control, ChangeOK, LoadOK, Changing, Loading, Rest
<1>3. Shelf'
    BY DEF Inv, TypeOK, Work, Control, ChangeOK, Changing, Shelf, Rest
<1>4. Same'
    BY DEF Inv, TypeOK, Work, Control, ChangeOK, LoadOK, Changing, Loading, Same, Rest
<1>5. Meant'
    BY DEF Inv, TypeOK, Work, Control, ChangeOK, LoadOK, Changing, Loading, Meant, Rest
<1>6. RefusalRestores'
    BY DEF Inv, Control, ChangeOK, LoadOK, Changing, Loading, RefusalRestores, Rest
<1> QED
    BY <1>1, <1>2, <1>3, <1>4, <1>5, <1>6 DEF Inv
-----------------------------------------------------------------------------
LEMMA NextInv == Inv /\ [Next]_vars => Inv'
<1> SUFFICES ASSUME Inv, [Next]_vars PROVE Inv'
    OBVIOUS
<1>1. CASE Handler
    BY <1>1, BeginUpdateStep, BeginRestoreStep, BeginStartStep, BeginReloadStep, OpenBackupStep,
       CopyBackupStep, PrepareUpdateStep, PrepareRestoreStep, TruncateStep, FillStep,
       LoadWrittenStep, EnsureStep, LoadAtStartStep, LoadAtReloadStep, SyncAuditStep DEF Handler
<1>2. CASE World
    BY <1>2, BackupFailsStep, UnwritableStep, DiskFullStep, ToolsInvalidStep, CrashStep,
       EditByHandStep DEF World
<1>3. CASE UNCHANGED vars
    BY <1>3 DEF vars, process, observers, budget, Inv, TypeOK, Control, ChangeOK, LoadOK, Changing,
                Loading, Shelf, Same, Meant, RefusalRestores, At, Idle, Running
<1> QED
    BY <1>1, <1>2, <1>3 DEF Next

LEMMA Invariance == Spec => []Inv
BY InitInv, NextInv, PTL DEF Spec

(* What the property asks of a state between requests follows from Same;    *)
(* what it asks of the running text, from Meant.                            *)

\* Every variable of the policy files keeps its type (config.py, app.py).
THEOREM TypesHold == Spec => []TypeOK
<1>1. Inv => TypeOK
    BY DEF Inv
<1> QED
    BY <1>1, Invariance, PTL

\* A refused knob update or restore leaves policy.yaml as it was, for every
\* text, every outcome of the loaders and every crash before it
\* (update_policy_knobs, restore_policy_from_backup).
THEOREM RefusalsRestore == Spec => []RefusalRestores
<1>1. Inv => RefusalRestores
    BY DEF Inv
<1> QED
    BY <1>1, Invariance, PTL

\* For every number of backups kept: the text a handler replaced is in its
\* backup until Keep newer ones were made (backup_policy_file,
\* _prune_policy_backups).
THEOREM BackupsHoldReplaced == Spec => []ReplacedTextsAreKept
<1>1. Inv => ReplacedTextsAreKept
    BY DEF Inv, Shelf, ReplacedTextsAreKept
<1> QED
    BY <1>1, Invariance, PTL

\* For every sequence of starts, reloads, updates and restores: the process, or the
\* caller of the last update or restore, was given the policy that the file holds, but
\* after what drift records; and but after a split reload the audit rules are those of
\* the policy in force (reload_policy and lifespan of app.py; update_policy_knobs and
\* restore_policy_from_backup).
THEOREM FilesAreAccounted == Spec => []FileIsAccounted
<1>1. Inv => FileIsAccounted
    BY RestType DEF Inv, Control, Same, FileIsAccounted, At, Idle
<1> QED
    BY <1>1, Invariance, PTL

\* The empty file that a write leaves for a moment is never the policy of a
\* process, unless a write was cut short (Path.write_text in config.py).
THEOREM NothingHalfWrittenRuns == Spec => []RunsWhatWasWritten
<1>1. Inv => RunsWhatWasWritten
    BY DEF Inv, TypeOK, Meant, RunsWhatWasWritten
<1> QED
    BY <1>1, Invariance, PTL
=============================================================================
