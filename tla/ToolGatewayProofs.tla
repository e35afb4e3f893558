------------------------- MODULE ToolGatewayProofs -------------------------
(* Theorems of ToolGateway: what runs, what an operator's decision commits  *)
(* the gateway to, and what the queue holds, for every set of tools,       *)
(* policies and invocations and any number of restarts.                    *)
EXTENDS ToolGateway, TLAPS

USE DEF Push, Pull

Work == [id : Ids, op : Ops, step : Steps]

LEMMA HandlerType ==
    ASSUME NEW i \in Ids, NEW op \in Ops, NEW step \in Steps
    PROVE  /\ Handler(i, op, step) \in Work
           /\ Handler(i, op, step) # Idle
BY IdleAssumption DEF Handler, Work

LEMMA RecordType ==
    ASSUME TypeOK, NEW i \in Ids, NEW kind \in Kinds, Record(i, kind)
    PROVE  /\ trail' \in [Ids -> [Kinds -> Nat]]
           /\ trail'[i] = [trail[i] EXCEPT ![kind] = trail[i][kind] + 1]
           /\ \A j \in Ids \ {i} : trail'[j] = trail[j]
<1>1. trail[i] \in [Kinds -> Nat] /\ trail \in [Ids -> [Kinds -> Nat]]
    BY DEF TypeOK
<1>2. trail' = [trail EXCEPT ![i] = [trail[i] EXCEPT ![kind] = trail[i][kind] + 1]]
    BY DEF Record
<1>3. [trail[i] EXCEPT ![kind] = trail[i][kind] + 1] \in [Kinds -> Nat]
    BY <1>1
<1> QED
    BY <1>1, <1>2, <1>3

\* The steps of a handler between its approval and its result.
BackendActions ==
    ExecuteLocal \/ FailBeforeCall \/ SendCall \/ RunTool \/ RefuseCall \/ TimeOut \/ EndCall

LEMMA MoreOf ==
    ASSUME NEW f \in [Ids -> Nat], work.id \in Ids
    PROVE  /\ More(f) \in [Ids -> Nat]
           /\ More(f)[work.id] = f[work.id] + 1
           /\ \A i \in Ids \ {work.id} : More(f)[i] = f[i]
BY DEF More

\* They move the handler on and touch nothing but the calls.
LEMMA BackendMoves ==
    ASSUME TypeOK, BackendActions
    PROVE  /\ work \in Work /\ work # Idle /\ work.id \in Ids
           /\ work.step \in {"call", "wait", "ran"}
           /\ work' \in Work /\ work' # Idle /\ work'.id = work.id /\ work'.op = work.op
           /\ work'.step \in {"wait", "ran", "allow", "block", "raise"}
           /\ UNCHANGED <<toolPolicy, rag, tenantRag, req, pending, trail, held, crashes>>
<1>1. /\ work # Idle /\ work.step \in {"call", "wait", "ran"}
      /\ UNCHANGED <<toolPolicy, rag, tenantRag, req, pending, trail, held, crashes>>
    BY DEF BackendActions, ExecuteLocal, FailBeforeCall, SendCall, RunTool, RefuseCall, TimeOut,
           EndCall, At, policies
<1>2. work \in Work /\ work.id \in Ids
    BY <1>1 DEF TypeOK, Work
<1>3. PICK step \in {"wait", "ran", "allow", "block", "raise"} : work' = [work EXCEPT !.step = step]
    BY DEF BackendActions, ExecuteLocal, FailBeforeCall, SendCall, RunTool, RefuseCall, TimeOut,
           EndCall, GoTo
<1>4. work' \in Work /\ work'.id = work.id /\ work'.op = work.op /\ work'.step = step
    BY <1>2, <1>3 DEF Work, Steps
<1>5. work' # Idle
    BY <1>4, IdleAssumption DEF Work
<1> QED
    BY <1>1, <1>2, <1>3, <1>4, <1>5

\* A call is sent from "call" only; it runs, or is given up on, from "wait" only.
LEMMA CallsChange ==
    ASSUME TypeOK, BackendActions
    PROVE  \/ UNCHANGED calls /\ work'.step # "wait"
           \/ /\ work.step = "call" /\ sent' = More(sent) /\ late' = late
              /\ \/ runs' = More(runs) /\ work'.step = "allow"
                 \/ runs' = runs /\ work'.step = "wait"
           \/ /\ work.step = "wait" /\ work'.step # "wait" /\ sent' = sent
              /\ \/ runs' = More(runs) /\ late' = late
                 \/ runs' = runs /\ late' = More(late)
<1>1. work \in Work
    BY BackendMoves
<1>2. ASSUME NEW step \in Steps, GoTo(step)
      PROVE  work'.step = step
    BY <1>1, <1>2 DEF GoTo, Work
<1>3. CASE ExecuteLocal
    BY <1>2, <1>3 DEF ExecuteLocal, At, calls, Steps
<1>4. CASE FailBeforeCall \/ RefuseCall \/ EndCall
    BY <1>2, <1>4 DEF FailBeforeCall, RefuseCall, EndCall, Steps
<1>5. CASE SendCall
    BY <1>2, <1>5 DEF SendCall, At, Steps
<1>6. CASE RunTool
    BY <1>2, <1>6 DEF RunTool, At, Steps
<1>7. CASE TimeOut
    BY <1>2, <1>7 DEF TimeOut, At, Steps
<1> QED
    BY <1>3, <1>4, <1>5, <1>6, <1>7 DEF BackendActions

\* Every step keeps the types.
LEMMA TypeStep == TypeOK /\ [Next]_vars => TypeOK'
<1> SUFFICES ASSUME TypeOK, [Next]_vars PROVE TypeOK'
    OBVIOUS
<1> USE DEF policies, calls
<1>1. ASSUME NEW i \in Ids, NEW c \in Calls, Refuse(i, c)
      PROVE  TypeOK'
    <2>1. trail' \in [Ids -> [Kinds -> Nat]]
        BY <1>1, RecordType DEF Refuse, Kinds
    <2> QED
        BY <1>1, <2>1 DEF Refuse, TypeOK
<1>2. ASSUME NEW i \in Ids, NEW c \in Calls, Enqueue(i, c)
      PROVE  TypeOK'
    <2>1. Handler(i, "hold", "record") \in Work
        BY HandlerType DEF Ops, Steps
    <2> QED
        BY <1>2, <2>1 DEF Enqueue, TypeOK, Work
<1>3. ASSUME NEW i \in Ids, NEW c \in Calls, Allow(i, c)
      PROVE  TypeOK'
    <2>1. Handler(i, "invoke", "call") \in Work
        BY HandlerType DEF Ops, Steps
    <2> QED
        BY <1>3, <2>1 DEF Allow, TypeOK, Work
<1>4. ASSUME NEW i \in Ids, Approve(i)
      PROVE  TypeOK'
    <2>1. Handler(i, "approve", "call") \in Work
        BY HandlerType DEF Ops, Steps
    <2>2. trail' \in [Ids -> [Kinds -> Nat]]
        BY <1>4, RecordType DEF Approve, Kinds
    <2> QED
        BY <1>4, <2>1, <2>2 DEF Approve, TypeOK, Work
<1>5. ASSUME NEW i \in Ids, DropStale(i)
      PROVE  TypeOK'
    BY <1>5 DEF DropStale, TypeOK
<1>6. ASSUME NEW i \in Ids, Deny(i)
      PROVE  TypeOK'
    <2>1. Handler(i, "deny", "record") \in Work
        BY HandlerType DEF Ops, Steps
    <2> QED
        BY <1>6, <2>1 DEF Deny, TypeOK, Work
<1>7. CASE BackendActions
    <2>1. /\ work.id \in Ids /\ work' \in Work
          /\ UNCHANGED <<toolPolicy, rag, tenantRag, req, pending, trail, held, crashes>>
        BY <1>7, BackendMoves
    <2>2. sent \in [Ids -> Nat] /\ runs \in [Ids -> Nat] /\ late \in [Ids -> Nat]
        BY DEF TypeOK
    <2>3. /\ sent' \in {sent, More(sent)}
          /\ runs' \in {runs, More(runs)}
          /\ late' \in {late, More(late)}
        BY <1>7, CallsChange
    <2>4. sent' \in [Ids -> Nat] /\ runs' \in [Ids -> Nat] /\ late' \in [Ids -> Nat]
        BY <2>1, <2>2, <2>3, MoreOf
    <2> QED
        BY <2>1, <2>4 DEF TypeOK, Work
<1>8. CASE Finalize
    <2>1. work \in Work /\ work.id \in Ids /\ work.step \in Kinds
        BY <1>8 DEF Finalize, TypeOK, Work, Kinds
    <2>2. trail' \in [Ids -> [Kinds -> Nat]]
        BY <1>8, <2>1, RecordType DEF Finalize
    <2>3. work' \in Work \cup {Idle}
        BY <1>8, <2>1 DEF Finalize, Work, Steps
    <2> QED
        BY <1>8, <2>2, <2>3 DEF Finalize, TypeOK, Work
<1>9. CASE RemoveRow
    BY <1>9 DEF RemoveRow, TypeOK
<1>10. CASE RecordLast
    <2>1. work.id \in Ids /\ (IF work.op = "hold" THEN "challenge" ELSE "denied") \in Kinds
        BY <1>10 DEF RecordLast, TypeOK, Kinds
    <2>2. trail' \in [Ids -> [Kinds -> Nat]]
        BY <1>10, <2>1, RecordType DEF RecordLast
    <2> QED
        BY <1>10, <2>2 DEF RecordLast, TypeOK
<1>11. CASE Raise
    BY <1>11 DEF Raise, TypeOK
<1>12. CASE ReloadPolicy \/ EditTenantPolicy
    BY <1>12 DEF ReloadPolicy, EditTenantPolicy, TypeOK
<1>13. CASE Restart
    <2>1. late' \in [Ids -> Nat]
        <3>1. late \in [Ids -> Nat]
            BY DEF TypeOK
        <3>2. CASE At("wait")
            <4>1. work.id \in Ids
                BY <3>2 DEF At, TypeOK
            <4> QED
                BY <1>13, <3>1, <3>2, <4>1, MoreOf DEF Restart
        <3> QED
            BY <1>13, <3>1, <3>2 DEF Restart
    <2> QED
        BY <1>13, <2>1, BoundAssumption DEF Restart, TypeOK
<1>14. CASE UNCHANGED vars
    BY <1>14 DEF TypeOK, vars
<1>15. ASSUME NEW i \in Ids, LateRun(i)
      PROVE  TypeOK'
    <2>1. late[i] - 1 \in Nat /\ runs[i] + 1 \in Nat
        BY <1>15 DEF LateRun, TypeOK
    <2>2. late' \in [Ids -> Nat] /\ runs' \in [Ids -> Nat]
        BY <1>15, <2>1 DEF LateRun, TypeOK
    <2> QED
        BY <1>15, <2>2 DEF LateRun, TypeOK
<1> QED
    BY <1>1, <1>2, <1>3, <1>4, <1>5, <1>6, <1>7, <1>8, <1>9, <1>10, <1>11, <1>12, <1>13,
       <1>14, <1>15 DEF Next, BackendActions

\* No handler, restart or reload leaves a value of the wrong kind behind.
THEOREM TypeCorrect == Spec => []TypeOK
<1>1. Init => TypeOK
    BY BoundAssumption DEF Init, TypeOK
<1> QED
    BY <1>1, TypeStep, PTL DEF Spec
-----------------------------------------------------------------------------
(* The invariant.  Its parts say where a handler can be for an invocation,  *)
(* and what is owed to it there.                                           *)

\* The handler that runs has the rights its operation needs.
HandlerOK ==
    work # Idle =>
        /\ req[work.id] # NoCall
        /\ work.op \in {"hold", "deny"} <=> work.step = "record"
        /\ work.op = "deny" => work.id \in held \ pending
        /\ work.op = "hold" => work.id \in pending
        /\ work.op = "approve" => work.id \in pending /\ trail[work.id]["approved"] > 0
        /\ work.op = "invoke" => work.id \notin held
        /\ work.step = "remove" => /\ work.op = "approve"
                                   /\ trail[work.id]["allow"] + trail[work.id]["block"] > 0
        /\ work.step = "call" => /\ EntryOf(req[work.id]) # NoTool
                                 /\ req[work.id].groups \cap EntryOf(req[work.id]).groups # {}
                                 /\ work.op = "invoke" =>
                                      /\ ArgumentsPass(req[work.id])
                                      /\ req[work.id].risk < toolPolicy.challenge

QueueOK ==
    /\ pending \subseteq held
    /\ \A i \in held : req[i] # NoCall
    /\ \A i \in pending : trail[i]["denied"] = 0
    /\ \A i \in pending :
         crashes = 0 /\ ~(work # Idle /\ work.id = i /\ work.step = "remove") =>
            trail[i]["allow"] = 0 /\ trail[i]["block"] = 0

About(i, step) == work # Idle /\ work.id = i /\ work.step = step

\* Every call that was sent had leave of its own.
SendsOK ==
    \A i \in Ids :
        /\ req[i] = NoCall => sent[i] = 0 /\ trail[i] = [k \in Kinds |-> 0]
        /\ i \notin held => sent[i] <= 1 /\ (About(i, "call") => sent[i] = 0)
        /\ i \in held => /\ sent[i] <= trail[i]["approved"]
                         /\ About(i, "call") => sent[i] < trail[i]["approved"]

ToolInv == HandlerOK /\ QueueOK /\ SendsOK

\* What the fields of a handler are.
LEMMA HandlerFields ==
    ASSUME NEW i, NEW op, NEW step
    PROVE  /\ Handler(i, op, step).id = i
           /\ Handler(i, op, step).op = op
           /\ Handler(i, op, step).step = step
BY DEF Handler

\* An event of one kind leaves the counts of the other kinds alone.
LEMMA RecordCounts ==
    ASSUME TypeOK, NEW i \in Ids, NEW kind \in Kinds, Record(i, kind)
    PROVE  /\ trail'[i][kind] = trail[i][kind] + 1
           /\ \A k \in Kinds \ {kind} : trail'[i][k] = trail[i][k]
           /\ \A j \in Ids \ {i} : trail'[j] = trail[j]
           /\ \A j \in Ids : trail[j] \in [Kinds -> Nat]
<1>1. trail[i] \in [Kinds -> Nat] /\ \A j \in Ids : trail[j] \in [Kinds -> Nat]
    BY DEF TypeOK
<1>2. trail'[i] = [trail[i] EXCEPT ![kind] = trail[i][kind] + 1]
    BY RecordType
<1> QED
    BY <1>1, <1>2, RecordType

\* A direct call that starts has a tool, a group and arguments in order.
LEMMA AllowedCall ==
    ASSUME TypeOK, NEW c \in Calls, Verdict(c) = "allow"
    PROVE  /\ EntryOf(c) # NoTool /\ c.groups \cap EntryOf(c).groups # {}
           /\ ArgumentsPass(c) /\ c.risk < toolPolicy.challenge
<1>1. Admissible(c, TenantRag) /\ ArgumentsPass(c) /\ Decide(c.risk) = "allow"
    BY DEF Verdict, Decide
<1>2. c.risk \in Nat /\ toolPolicy.challenge \in Nat
    BY CallAssumption, PolicyAssumption DEF TypeOK, Call, ToolPolicy
<1>3. c.risk < toolPolicy.challenge
    BY <1>1, <1>2 DEF Decide
<1> QED
    BY <1>1, <1>3 DEF Admissible, CallerAllowed

LEMMA StartStep ==
    ASSUME TypeOK, ToolInv, NEW i \in Ids, NEW c \in Calls,
           Refuse(i, c) \/ Enqueue(i, c) \/ Allow(i, c)
    PROVE  ToolInv'
<1> USE DEF policies, calls
<1>1. /\ req[i] = NoCall /\ req' = [req EXCEPT ![i] = c] /\ work = Idle
      /\ UNCHANGED <<toolPolicy, rag, tenantRag, sent, crashes>>
    BY DEF Refuse, Enqueue, Allow
<1>2. c # NoCall /\ req'[i] = c /\ \A j \in Ids \ {i} : req'[j] = req[j]
    BY <1>1, CallAssumption DEF TypeOK
<1>3. /\ i \notin held /\ i \notin pending /\ sent[i] = 0
      /\ trail[i] = [k \in Kinds |-> 0] /\ held \subseteq Ids /\ pending \subseteq held
    BY <1>1 DEF ToolInv, QueueOK, SendsOK, TypeOK
<1>4. CASE Refuse(i, c)
    <2>1. /\ work' = Idle /\ UNCHANGED <<pending, held>>
          /\ \A j \in Ids \ {i} : trail'[j] = trail[j]
        BY <1>1, <1>4, RecordCounts DEF Refuse, Kinds
    <2>2. HandlerOK'
        BY <2>1 DEF HandlerOK
    <2>3. QueueOK'
        BY <1>1, <1>2, <1>3, <2>1 DEF ToolInv, QueueOK
    <2>4. SendsOK'
        BY <1>1, <1>2, <1>3, <2>1 DEF ToolInv, SendsOK, About
    <2> QED
        BY <2>2, <2>3, <2>4 DEF ToolInv
<1>5. CASE Enqueue(i, c)
    <2>1. /\ work' # Idle /\ work'.id = i /\ work'.op = "hold" /\ work'.step = "record"
          /\ pending' = pending \cup {i} /\ held' = held \cup {i} /\ trail' = trail
        BY <1>5, HandlerType, HandlerFields DEF Enqueue, Ops, Steps
    <2>2. HandlerOK'
        BY <1>2, <2>1 DEF HandlerOK
    <2>3. QueueOK'
        BY <1>1, <1>2, <1>3, <2>1 DEF ToolInv, QueueOK, Kinds
    <2>4. SendsOK'
        BY <1>1, <1>2, <1>3, <2>1 DEF ToolInv, SendsOK, About, Kinds
    <2> QED
        BY <2>2, <2>3, <2>4 DEF ToolInv
<1>6. CASE Allow(i, c)
    <2>1. /\ work' # Idle /\ work'.id = i /\ work'.op = "invoke" /\ work'.step = "call"
          /\ UNCHANGED <<pending, held, trail>>
        BY <1>6, HandlerType, HandlerFields DEF Allow, Ops, Steps
    <2>2. HandlerOK'
        <3>1. Verdict(c) = "allow"
            BY <1>6 DEF Allow
        <3> QED
            BY <1>1, <1>2, <1>3, <2>1, <3>1, AllowedCall
               DEF HandlerOK, EntryOf, ArgumentsPass, Oversized, BlockedArguments
    <2>3. QueueOK'
        BY <1>1, <1>2, <1>3, <2>1 DEF ToolInv, QueueOK
    <2>4. SendsOK'
        BY <1>1, <1>2, <1>3, <2>1 DEF ToolInv, SendsOK, About
    <2> QED
        BY <2>2, <2>3, <2>4 DEF ToolInv
<1> QED
    BY <1>4, <1>5, <1>6

LEMMA OperatorStep ==
    ASSUME TypeOK, ToolInv, NEW i \in Ids, Approve(i) \/ DropStale(i) \/ Deny(i)
    PROVE  ToolInv'
<1> USE DEF policies, calls
<1>1. /\ i \in pending /\ i \in held /\ req[i] # NoCall /\ work = Idle
      /\ UNCHANGED <<toolPolicy, rag, tenantRag, req, sent, held, crashes>>
    BY DEF Approve, DropStale, Deny, ToolInv, QueueOK
<1>2. CASE Approve(i)
    <2>1. /\ work' # Idle /\ work'.id = i /\ work'.op = "approve" /\ work'.step = "call"
          /\ pending' = pending /\ Admissible(req[i], rag) /\ Record(i, "approved")
        BY <1>2, HandlerType, HandlerFields DEF Approve, Ops, Steps
    <2>2. /\ trail'[i]["approved"] = trail[i]["approved"] + 1
          /\ \A k \in Kinds \ {"approved"} : trail'[i][k] = trail[i][k]
          /\ \A j \in Ids \ {i} : trail'[j] = trail[j]
          /\ trail[i]["approved"] \in Nat /\ sent[i] \in Nat
        BY <2>1, RecordCounts DEF Kinds, TypeOK
    <2>3. HandlerOK'
        BY <1>1, <2>1, <2>2 DEF HandlerOK, Admissible, CallerAllowed, EntryOf
    <2>4. QueueOK'
        BY <1>1, <2>1, <2>2 DEF ToolInv, QueueOK, Kinds, TypeOK
    <2>5. SendsOK'
        BY <1>1, <2>1, <2>2 DEF ToolInv, SendsOK, About, TypeOK
    <2> QED
        BY <2>3, <2>4, <2>5 DEF ToolInv
<1>3. CASE DropStale(i)
    <2>1. pending' = pending \ {i} /\ UNCHANGED <<work, trail>>
        BY <1>3 DEF DropStale
    <2> QED
        BY <1>1, <2>1 DEF ToolInv, HandlerOK, QueueOK, SendsOK, About
<1>4. CASE Deny(i)
    <2>1. /\ work' # Idle /\ work'.id = i /\ work'.op = "deny" /\ work'.step = "record"
          /\ pending' = pending \ {i} /\ trail' = trail
        BY <1>4, HandlerType, HandlerFields DEF Deny, Ops, Steps
    <2>2. HandlerOK'
        BY <1>1, <2>1 DEF HandlerOK
    <2>3. QueueOK'
        BY <1>1, <2>1 DEF ToolInv, QueueOK
    <2>4. SendsOK'
        BY <1>1, <2>1 DEF ToolInv, SendsOK, About
    <2> QED
        BY <2>2, <2>3, <2>4 DEF ToolInv
<1> QED
    BY <1>2, <1>3, <1>4

\* One call is sent, and the leave for it is used up, or none is.
LEMMA BackendStep ==
    ASSUME TypeOK, ToolInv, BackendActions
    PROVE  ToolInv'
<1>1. /\ work \in Work /\ work # Idle /\ work.id \in Ids
      /\ work.step \in {"call", "wait", "ran"}
      /\ work' # Idle /\ work'.id = work.id /\ work'.op = work.op
      /\ work'.step \in {"wait", "ran", "allow", "block", "raise"}
      /\ UNCHANGED <<toolPolicy, rag, tenantRag, req, pending, trail, held, crashes>>
    BY BackendMoves
<1>2. /\ req[work.id] # NoCall /\ work.op \notin {"hold", "deny"}
      /\ work.op = "approve" => work.id \in pending /\ trail[work.id]["approved"] > 0
      /\ work.op = "invoke" => work.id \notin held
    BY <1>1 DEF ToolInv, HandlerOK
<1>3. HandlerOK'
    BY <1>1, <1>2 DEF HandlerOK
<1>4. QueueOK'
    BY <1>1 DEF ToolInv, QueueOK
<1>5. SendsOK'
    <2> SUFFICES ASSUME NEW i \in Ids
                 PROVE  /\ req[i] = NoCall => sent'[i] = 0 /\ trail[i] = [k \in Kinds |-> 0]
                        /\ i \notin held => sent'[i] <= 1
                        /\ i \in held => sent'[i] <= trail[i]["approved"]
                        /\ ~About(i, "call")'
        BY <1>1 DEF SendsOK
    <2>1. ~About(i, "call")'
        BY <1>1 DEF About
    <2>2. CASE sent' = sent
        BY <2>1, <2>2 DEF ToolInv, SendsOK
    <2>3. CASE sent' = More(sent) /\ work.step = "call"
        <3>1. /\ sent'[work.id] = sent[work.id] + 1
              /\ \A j \in Ids \ {work.id} : sent'[j] = sent[j]
              /\ sent[i] \in Nat /\ trail[i]["approved"] \in Nat
            BY <1>1, <2>3, MoreOf DEF TypeOK, Kinds
        <3> QED
            BY <1>1, <1>2, <2>1, <2>3, <3>1 DEF ToolInv, SendsOK, About
    <2> QED
        BY <2>2, <2>3, CallsChange DEF calls
<1> QED
    BY <1>3, <1>4, <1>5 DEF ToolInv

\* The rest of a handler records its events and removes its row.
LEMMA HandlerStep ==
    ASSUME TypeOK, ToolInv, Finalize \/ RemoveRow \/ RecordLast \/ Raise
    PROVE  ToolInv'
<1> USE DEF policies, calls
<1>1. /\ work \in Work /\ work # Idle /\ work.id \in Ids
      /\ UNCHANGED <<toolPolicy, rag, tenantRag, req, sent, held, crashes>>
    BY DEF Finalize, RemoveRow, RecordLast, Raise, TypeOK, Work
<1>2. /\ req[work.id] # NoCall /\ pending \subseteq held /\ held \subseteq Ids
      /\ \A i \in Ids : trail[i] \in [Kinds -> Nat]
    BY <1>1 DEF ToolInv, HandlerOK, QueueOK, TypeOK
<1>3. CASE Finalize
    <2>1. /\ work.step \in {"allow", "block"} /\ pending' = pending
          /\ work' = IF work.op = "approve" THEN [work EXCEPT !.step = "remove"] ELSE Idle
        BY <1>3 DEF Finalize
    <2>2. work.op \in {"invoke", "approve"}
        BY <1>1, <2>1 DEF ToolInv, HandlerOK, Work, Ops
    <2>3. /\ trail'[work.id][work.step] = trail[work.id][work.step] + 1
          /\ \A k \in Kinds \ {work.step} : trail'[work.id][k] = trail[work.id][k]
          /\ \A j \in Ids \ {work.id} : trail'[j] = trail[j]
        BY <1>1, <1>3, <2>1, RecordCounts DEF Finalize, Kinds
    <2>4. trail'[work.id]["approved"] = trail[work.id]["approved"]
          /\ trail'[work.id]["denied"] = trail[work.id]["denied"]
        BY <2>1, <2>3 DEF Kinds
    <2>5. CASE work.op = "approve"
        <3>1. /\ work' \in Work /\ work'.id = work.id /\ work'.op = "approve"
              /\ work'.step = "remove"
            BY <1>1, <2>1, <2>5 DEF Work, Steps
        <3>2. work.id \in pending /\ trail[work.id]["approved"] > 0
            BY <1>1, <2>5 DEF ToolInv, HandlerOK
        <3>3. trail'[work.id]["allow"] + trail'[work.id]["block"] > 0
            BY <1>1, <1>2, <2>1, <2>3 DEF Kinds
        <3>4. HandlerOK'
            BY <1>1, <1>2, <2>1, <2>4, <3>1, <3>2, <3>3 DEF HandlerOK
        <3>5. QueueOK'
            <4>1. work' # Idle
                BY <3>1, IdleAssumption DEF Work
            <4>2. \A i \in pending : trail'[i]["denied"] = 0
                BY <1>2, <2>3, <2>4 DEF ToolInv, QueueOK
            <4>3. \A i \in pending \ {work.id} :
                    crashes = 0 => trail'[i]["allow"] = 0 /\ trail'[i]["block"] = 0
                BY <1>2, <2>3 DEF ToolInv, QueueOK
            <4> QED
                BY <1>1, <1>2, <2>1, <3>1, <4>1, <4>2, <4>3 DEF ToolInv, QueueOK
        <3>6. SendsOK'
            BY <1>1, <1>2, <2>3, <2>4, <3>1 DEF ToolInv, SendsOK, About
        <3> QED
            BY <3>4, <3>5, <3>6 DEF ToolInv
    <2>6. CASE work.op = "invoke"
        <3>1. work' = Idle /\ work.id \notin held /\ work.id \notin pending
            BY <1>1, <1>2, <2>1, <2>6 DEF ToolInv, HandlerOK
        <3>2. HandlerOK'
            BY <3>1 DEF HandlerOK
        <3>3. QueueOK'
            BY <1>1, <1>2, <2>1, <2>3, <3>1 DEF ToolInv, QueueOK
        <3>4. SendsOK'
            BY <1>1, <1>2, <2>3, <3>1 DEF ToolInv, SendsOK, About
        <3> QED
            BY <3>2, <3>3, <3>4 DEF ToolInv
    <2> QED
        BY <2>2, <2>5, <2>6
<1>4. CASE RemoveRow
    <2>1. work' = Idle /\ pending' = pending \ {work.id} /\ trail' = trail
        BY <1>4 DEF RemoveRow
    <2> QED
        BY <1>1, <1>2, <2>1 DEF ToolInv, HandlerOK, QueueOK, SendsOK, About
<1>5. CASE RecordLast
    <2> DEFINE kind == IF work.op = "hold" THEN "challenge" ELSE "denied"
    <2>1. /\ work.step = "record" /\ pending' = pending /\ work' = Idle
          /\ Record(work.id, kind)
        BY <1>5 DEF RecordLast
    <2>2. kind \in {"challenge", "denied"} /\ kind \in Kinds
        BY DEF Kinds
    <2>3. /\ \A k \in Kinds \ {kind} : trail'[work.id][k] = trail[work.id][k]
          /\ \A j \in Ids \ {work.id} : trail'[j] = trail[j]
        BY <1>1, <2>1, <2>2, RecordCounts
    <2>4. kind = "denied" => work.id \notin pending
        BY <1>1, <2>1 DEF ToolInv, HandlerOK
    <2>5. /\ trail'[work.id]["approved"] = trail[work.id]["approved"]
          /\ trail'[work.id]["allow"] = trail[work.id]["allow"]
          /\ trail'[work.id]["block"] = trail[work.id]["block"]
          /\ kind # "denied" => trail'[work.id]["denied"] = trail[work.id]["denied"]
        BY <2>2, <2>3 DEF Kinds
    <2> HIDE DEF kind
    <2>6. HandlerOK'
        BY <2>1 DEF HandlerOK
    <2>7. QueueOK'
        BY <1>1, <1>2, <2>1, <2>3, <2>4, <2>5 DEF ToolInv, QueueOK
    <2>8. SendsOK'
        BY <1>1, <1>2, <2>1, <2>3, <2>5 DEF ToolInv, SendsOK, About
    <2> QED
        BY <2>6, <2>7, <2>8 DEF ToolInv
<1>6. CASE Raise
    <2>1. work.step = "raise" /\ work' = Idle /\ UNCHANGED <<pending, trail>>
        BY <1>6 DEF Raise
    <2> QED
        BY <1>1, <1>2, <2>1 DEF ToolInv, HandlerOK, QueueOK, SendsOK, About
<1> QED
    BY <1>3, <1>4, <1>5, <1>6

\* Reloads come between handlers; a restart ends whichever one runs; a server that
\* runs late tells no handler.
LEMMA PolicyStep ==
    ASSUME TypeOK, ToolInv,
           ReloadPolicy \/ EditTenantPolicy \/ Restart \/ UNCHANGED vars \/ \E i \in Ids : LateRun(i)
    PROVE  ToolInv'
<1> USE DEF policies, calls
<1>1. UNCHANGED <<req, pending, sent, trail, held>>
    BY DEF ReloadPolicy, EditTenantPolicy, Restart, LateRun, vars
<1>2. CASE EditTenantPolicy \/ UNCHANGED vars \/ \E i \in Ids : LateRun(i)
    <2>1. UNCHANGED <<toolPolicy, work, crashes>>
        BY <1>2 DEF EditTenantPolicy, LateRun, vars
    <2> QED
        BY <1>1, <2>1
           DEF ToolInv, HandlerOK, QueueOK, SendsOK, About, EntryOf, ArgumentsPass, Oversized, BlockedArguments
<1>3. CASE ReloadPolicy
    <2>1. work = Idle /\ UNCHANGED <<work, crashes>>
        BY <1>3 DEF ReloadPolicy
    <2> QED
        BY <1>1, <2>1 DEF ToolInv, HandlerOK, QueueOK, SendsOK, About
<1>4. CASE Restart
    <2>1. work' = Idle /\ crashes' # 0
        BY <1>4, BoundAssumption DEF Restart, TypeOK
    <2> QED
        BY <1>1, <2>1 DEF ToolInv, HandlerOK, QueueOK, SendsOK, About
<1> QED
    BY <1>2, <1>3, <1>4

LEMMA ToolInvariant == Spec => [](TypeOK /\ ToolInv)
<1>1. Init => ToolInv
    <2> SUFFICES ASSUME Init PROVE ToolInv
        OBVIOUS
    <2>1. HandlerOK /\ QueueOK
        BY DEF Init, HandlerOK, QueueOK
    <2>2. SendsOK
        BY DEF Init, SendsOK, Kinds
    <2> QED
        BY <2>1, <2>2 DEF ToolInv
<1>2. TypeOK /\ ToolInv /\ [Next]_vars => ToolInv'
    BY StartStep, OperatorStep, BackendStep, HandlerStep, PolicyStep DEF Next, BackendActions
<1> QED
    BY <1>1, <1>2, TypeCorrect, PTL DEF Spec
-----------------------------------------------------------------------------
\* Every run, and every call that may still run, is one that was sent.
RunsOK ==
    \A i \in Ids :
        /\ runs[i] + late[i] <= sent[i]
        /\ About(i, "wait") => runs[i] + late[i] < sent[i]

LEMMA RunsFrame ==
    ASSUME RunsOK, UNCHANGED <<sent, runs, late>>,
           \A i \in Ids : About(i, "wait")' => About(i, "wait")
    PROVE  RunsOK'
BY DEF RunsOK

LEMMA RunsStep == TypeOK /\ RunsOK /\ [Next]_vars => RunsOK'
<1> SUFFICES ASSUME TypeOK, RunsOK, [Next]_vars PROVE RunsOK'
    OBVIOUS
<1> USE DEF policies, calls
<1>1. \A i \in Ids : sent[i] \in Nat /\ runs[i] \in Nat /\ late[i] \in Nat
    BY DEF TypeOK
<1>2. ASSUME NEW i \in Ids, NEW c \in Calls, Refuse(i, c) \/ Enqueue(i, c) \/ Allow(i, c)
      PROVE  RunsOK'
    <2>1. /\ UNCHANGED <<sent, runs, late>>
          /\ work' \in {Idle, Handler(i, "hold", "record"), Handler(i, "invoke", "call")}
        BY <1>2 DEF Refuse, Enqueue, Allow
    <2> QED
        BY <2>1, RunsFrame, HandlerFields DEF About
<1>3. ASSUME NEW i \in Ids, Approve(i) \/ DropStale(i) \/ Deny(i)
      PROVE  RunsOK'
    <2>1. /\ UNCHANGED <<sent, runs, late>>
          /\ work' \in {Idle, Handler(i, "approve", "call"), Handler(i, "deny", "record")}
        BY <1>3 DEF Approve, DropStale, Deny
    <2> QED
        BY <2>1, RunsFrame, HandlerFields DEF About
<1>4. CASE BackendActions
    <2>1. /\ work # Idle /\ work.id \in Ids /\ work'.id = work.id
          /\ sent \in [Ids -> Nat] /\ runs \in [Ids -> Nat] /\ late \in [Ids -> Nat]
        BY <1>4, BackendMoves DEF TypeOK
    <2>2. CASE UNCHANGED calls /\ work'.step # "wait"
        BY <2>2, RunsFrame DEF About
    <2>3. CASE /\ work.step = "call" /\ sent' = More(sent) /\ late' = late
               /\ \/ runs' = More(runs) /\ work'.step = "allow"
                  \/ runs' = runs /\ work'.step = "wait"
        <3>1. /\ sent'[work.id] = sent[work.id] + 1
              /\ \A j \in Ids \ {work.id} : sent'[j] = sent[j] /\ runs'[j] = runs[j]
              /\ \/ runs'[work.id] = runs[work.id] + 1 /\ work'.step = "allow"
                 \/ runs'[work.id] = runs[work.id]
            BY <2>1, <2>3, MoreOf
        <3> QED
            BY <1>1, <2>1, <2>3, <3>1 DEF RunsOK, About
    <2>4. CASE /\ work.step = "wait" /\ work'.step # "wait" /\ sent' = sent
               /\ \/ runs' = More(runs) /\ late' = late
                  \/ runs' = runs /\ late' = More(late)
        <3>1. /\ runs'[work.id] + late'[work.id] = runs[work.id] + late[work.id] + 1
              /\ \A j \in Ids \ {work.id} : runs'[j] = runs[j] /\ late'[j] = late[j]
            BY <1>1, <2>1, <2>4, MoreOf
        <3>2. runs[work.id] + late[work.id] < sent[work.id]
            BY <2>1, <2>4 DEF RunsOK, About
        <3> QED
            BY <1>1, <2>1, <2>4, <3>1, <3>2 DEF RunsOK, About
    <2> QED
        BY <1>4, <2>2, <2>3, <2>4, CallsChange
<1>5. CASE Finalize \/ RemoveRow \/ RecordLast \/ Raise
    <2>1. UNCHANGED <<sent, runs, late>> /\ work' \in {Idle, [work EXCEPT !.step = "remove"]}
        BY <1>5 DEF Finalize, RemoveRow, RecordLast, Raise
    <2>2. work \in Work
        BY <1>5 DEF Finalize, RemoveRow, RecordLast, Raise, TypeOK, Work
    <2> QED
        BY <2>1, <2>2, RunsFrame DEF About, Work
<1>6. CASE ReloadPolicy \/ EditTenantPolicy \/ UNCHANGED vars
    BY <1>6, RunsFrame DEF ReloadPolicy, EditTenantPolicy, About, vars
<1>7. ASSUME NEW i \in Ids, LateRun(i)
      PROVE  RunsOK'
    <2>1. /\ runs'[i] + late'[i] = runs[i] + late[i] /\ UNCHANGED <<sent, work>>
          /\ \A j \in Ids \ {i} : runs'[j] = runs[j] /\ late'[j] = late[j]
        BY <1>1, <1>7 DEF LateRun, TypeOK
    <2> QED
        BY <2>1 DEF RunsOK, About
<1>8. CASE Restart
    <2>1. work' = Idle /\ UNCHANGED <<sent, runs>>
        BY <1>8 DEF Restart
    <2>2. CASE At("wait")
        <3>1. work.id \in Ids /\ late \in [Ids -> Nat]
            BY <2>2 DEF At, TypeOK
        <3>2. /\ late'[work.id] = late[work.id] + 1
              /\ \A j \in Ids \ {work.id} : late'[j] = late[j]
            BY <1>8, <2>2, <3>1, MoreOf DEF Restart
        <3>3. runs[work.id] + late[work.id] < sent[work.id]
            BY <2>2, <3>1 DEF At, RunsOK, About
        <3> QED
            BY <1>1, <2>1, <3>1, <3>2, <3>3 DEF RunsOK, About
    <2>3. CASE ~At("wait")
        BY <1>8, <2>1, <2>3, RunsFrame DEF Restart, About
    <2> QED
        BY <2>2, <2>3
<1> QED
    BY <1>2, <1>3, <1>4, <1>5, <1>6, <1>7, <1>8 DEF Next, BackendActions

\* A server does not run a call twice, nor one that was not sent to it.
LEMMA RunsAreSent == Spec => [](TypeOK /\ RunsOK)
<1>1. Init => RunsOK
    BY DEF Init, RunsOK, About
<1> QED
    BY <1>1, RunsStep, TypeCorrect, PTL DEF Spec

\* No backend does the work of a call more often than it was allowed to: over any
\* number of crashes, retried approvals, reloads and late runs, a held call runs at
\* most once for every approval in the audit trail, and a direct call once.
THEOREM ApprovalsBoundRuns == Spec => []RunsAreApproved
<1>1. TypeOK /\ ToolInv /\ RunsOK => RunsAreApproved
    <2> SUFFICES ASSUME TypeOK, ToolInv, RunsOK, NEW i \in Ids
                 PROVE  runs[i] <= IF i \in held THEN trail[i]["approved"] ELSE 1
        BY DEF RunsAreApproved
    <2>1. /\ sent[i] \in Nat /\ runs[i] \in Nat /\ late[i] \in Nat
          /\ trail[i]["approved"] \in Nat
        BY DEF TypeOK, Kinds
    <2>2. runs[i] <= sent[i]
        BY <2>1 DEF RunsOK
    <2> QED
        BY <2>1, <2>2 DEF ToolInv, SendsOK
<1> QED
    BY <1>1, ToolInvariant, RunsAreSent, PTL

\* Whatever an operator sees in the queue between two requests is undecided.
THEOREM QueueIsUndecided == Spec => []QueueMatchesTrail
<1>1. ToolInv => QueueMatchesTrail
    BY DEF ToolInv, QueueOK, QueueMatchesTrail
<1> QED
    BY <1>1, ToolInvariant, PTL

\* A call goes to its backend from one place, and it is about one invocation.
LEMMA OnlyBackendSends ==
    ASSUME TypeOK, [Next]_vars, NEW i \in Ids, sent'[i] # sent[i]
    PROVE  work # Idle /\ work.step = "call" /\ work.id = i /\ work \in Work
<1>1. BackendActions
    BY DEF Next, Refuse, Enqueue, Allow, Approve, DropStale, Deny, Finalize, RemoveRow, LateRun,
           RecordLast, Raise, ReloadPolicy, EditTenantPolicy, Restart, vars, calls, BackendActions
<1>2. work.step = "call" /\ sent' = More(sent)
    BY <1>1, CallsChange DEF calls
<1>3. work.id \in Ids /\ work # Idle /\ work \in Work
    BY <1>1, BackendMoves
<1> QED
    BY <1>2, <1>3, MoreOf DEF TypeOK

\* A denied, dropped or finished invocation is never handed to a backend by a later
\* step: the operator's "never run backend" outlives retries, crashes and policy
\* changes.  What an earlier approval sent may still run at its server.
THEOREM ResolutionIsFinal == Spec => ResolvedIsNotSent
<1>1. TypeOK /\ ToolInv /\ [Next]_vars
        => [\A i \in held \ pending : sent'[i] = sent[i]]_vars
    <2> SUFFICES ASSUME TypeOK, ToolInv, [Next]_vars,
                        NEW i \in held \ pending, sent'[i] # sent[i]
                 PROVE  FALSE
        OBVIOUS
    <2>1. work # Idle /\ work.step = "call" /\ work.id = i /\ work \in Work
        BY OnlyBackendSends DEF TypeOK
    <2>2. work.op \in {"invoke", "approve"}
        BY <2>1 DEF ToolInv, HandlerOK, Work, Ops
    <2> QED
        BY <2>1, <2>2 DEF ToolInv, HandlerOK
<1> QED
    BY <1>1, ToolInvariant, PTL DEF Spec, ResolvedIsNotSent

\* No interleaving of reloads, held rows and restarts sends a call for a caller whom
\* the tool policy in force does not allow; what no operator saw also passed
\* the schema, size, pattern and domain checks and stayed below the threshold.
THEOREM CallsHaveAuthority == Spec => CallsAreAuthorised
<1> DEFINE Authorised(i) ==
        /\ EntryOf(req[i]) # NoTool
        /\ req[i].groups \cap EntryOf(req[i]).groups # {}
        /\ i \notin held => ArgumentsPass(req[i]) /\ req[i].risk < toolPolicy.challenge
<1>1. TypeOK /\ ToolInv /\ [Next]_vars
        => [\A i \in Ids : sent'[i] # sent[i] => Authorised(i)]_vars
    <2> SUFFICES ASSUME TypeOK, ToolInv, [Next]_vars, NEW i \in Ids, sent'[i] # sent[i]
                 PROVE  Authorised(i)
        OBVIOUS
    <2>1. work # Idle /\ work.step = "call" /\ work.id = i /\ work \in Work
        BY OnlyBackendSends
    <2>2. i \notin held => work.op = "invoke"
        BY <2>1 DEF ToolInv, HandlerOK, QueueOK, Work, Ops
    <2> QED
        BY <2>1, <2>2 DEF ToolInv, HandlerOK
<1> QED
    BY <1>1, ToolInvariant, PTL DEF Spec, CallsAreAuthorised

\* No row disappears from the queue undecided.
THEOREM RowsAreNeverLost == Spec => RowsLeaveDecided
<1> DEFINE Decided(i) ==
        \/ work' # Idle /\ work'.op = "deny"
        \/ work # Idle /\ trail[i]["approved"] > 0 /\ trail[i]["allow"] + trail[i]["block"] > 0
        \/ ~Admissible(req[i], rag)
<1>1. TypeOK /\ ToolInv /\ [Next]_vars => [\A i \in pending \ pending' : Decided(i)]_vars
    <2> SUFFICES ASSUME TypeOK, ToolInv, [Next]_vars, NEW i \in pending, i \notin pending'
                 PROVE  Decided(i)
        OBVIOUS
    <2>1. \/ DropStale(i)
          \/ Deny(i)
          \/ RemoveRow /\ work.id = i
        BY DEF Next, Refuse, Enqueue, Allow, Approve, DropStale, Deny, ExecuteLocal, FailBeforeCall,
               SendCall, RunTool, RefuseCall, TimeOut, EndCall, LateRun, Finalize, RemoveRow, RecordLast, Raise, ReloadPolicy, EditTenantPolicy, Restart, vars
    <2>2. i \in Ids
        BY DEF TypeOK
    <2>3. CASE DropStale(i)
        BY <2>3 DEF DropStale
    <2>4. CASE Deny(i)
        BY <2>2, <2>4, HandlerType, HandlerFields DEF Deny, Ops, Steps
    <2>5. CASE RemoveRow /\ work.id = i
        BY <2>5 DEF RemoveRow, ToolInv, HandlerOK
    <2> QED
        BY <2>1, <2>3, <2>4, <2>5
<1> QED
    BY <1>1, ToolInvariant, PTL DEF Spec, RowsLeaveDecided
-----------------------------------------------------------------------------
(* The gateway implements ToolTickets.                                      *)

\* When an invocation stands where.
LEMMA TicketIs ==
    ASSUME NEW i \in Ids
    PROVE  /\ req[i] = NoCall => TicketOf(i) = "new"
           /\ req[i] # NoCall /\ i \in pending => TicketOf(i) = "held"
           /\ req[i] # NoCall /\ i \notin held /\ i \notin pending /\ work # Idle /\ work.id = i
                => TicketOf(i) = "running"
           /\ req[i] # NoCall /\ i \notin pending /\ i \in held => TicketOf(i) = "closed"
           /\ req[i] # NoCall /\ i \notin pending /\ work = Idle => TicketOf(i) = "closed"
BY DEF TicketOf

LEMMA TicketBecomes ==
    ASSUME NEW i \in Ids
    PROVE  /\ req'[i] = NoCall => TicketOf(i)' = "new"
           /\ req'[i] # NoCall /\ i \in pending' => TicketOf(i)' = "held"
           /\ req'[i] # NoCall /\ i \notin held' /\ i \notin pending' /\ work' # Idle /\ work'.id = i
                => TicketOf(i)' = "running"
           /\ req'[i] # NoCall /\ i \notin pending' /\ i \in held' => TicketOf(i)' = "closed"
           /\ req'[i] # NoCall /\ i \notin pending' /\ work' = Idle => TicketOf(i)' = "closed"
BY DEF TicketOf

\* An invocation that no handler takes up or puts down stands where it stood.
LEMMA TicketStays ==
    ASSUME NEW i \in Ids, req'[i] = req[i], i \in pending' <=> i \in pending,
           i \in held' <=> i \in held,
           (work' # Idle /\ work'.id = i) <=> (work # Idle /\ work.id = i)
    PROVE  TicketOf(i)' = TicketOf(i)
BY DEF TicketOf

LEMMA TicketMoves ==
    ASSUME NEW i \in Ids, NEW s, TicketOf(i)' = s,
           \A j \in Ids \ {i} : TicketOf(j)' = TicketOf(j),
           \A j \in Ids : trail'[j]["approved"] = trail[j]["approved"],
           UNCHANGED <<sent, runs>>
    PROVE  Tickets!Become(i, s)
BY DEF Tickets!Become

LEMMA AllStay ==
    ASSUME \A j \in Ids : TicketOf(j)' = TicketOf(j),
           \A j \in Ids : trail'[j]["approved"] = trail[j]["approved"]
    PROVE  /\ [j \in Ids |-> TicketOf(j)]' = [j \in Ids |-> TicketOf(j)]
           /\ [j \in Ids |-> trail[j]["approved"]]' = [j \in Ids |-> trail[j]["approved"]]
OBVIOUS

\* The handlers that a caller's request starts.
LEMMA RequestsAsk ==
    ASSUME TypeOK, ToolInv, NEW i \in Ids, NEW c \in Calls,
           Refuse(i, c) \/ Enqueue(i, c) \/ Allow(i, c)
    PROVE  Tickets!Ask(i)
<1>1. /\ req[i] = NoCall /\ work = Idle /\ req' = [req EXCEPT ![i] = c]
      /\ UNCHANGED <<sent, runs>>
    BY DEF Refuse, Enqueue, Allow, calls
<1>2. req'[i] # NoCall /\ \A j \in Ids \ {i} : req'[j] = req[j]
    BY <1>1, CallAssumption DEF TypeOK
<1>3. i \notin held /\ i \notin pending
    BY <1>1 DEF ToolInv, QueueOK
<1>4. TicketOf(i) = "new"
    BY <1>1, TicketIs
<1>5. CASE Refuse(i, c)
    <2>1. UNCHANGED <<work, pending, held>> /\ Record(i, "block")
        BY <1>5 DEF Refuse
    <2>2. \A j \in Ids : trail'[j]["approved"] = trail[j]["approved"]
        BY <2>1, RecordCounts DEF Kinds
    <2>3. TicketOf(i)' = "closed"
        BY <1>1, <1>2, <1>3, <2>1, TicketBecomes
    <2>4. \A j \in Ids \ {i} : TicketOf(j)' = TicketOf(j)
        BY <1>2, <2>1, TicketStays
    <2>5. Tickets!Become(i, "closed")
        BY <1>1, <2>2, <2>3, <2>4, TicketMoves
    <2> QED
        BY <1>4, <2>5 DEF Tickets!Ask
<1>6. CASE Enqueue(i, c)
    <2>1. /\ work' # Idle /\ work'.id = i /\ trail' = trail
          /\ pending' = pending \cup {i} /\ held' = held \cup {i}
        BY <1>6, HandlerType, HandlerFields DEF Enqueue, Ops, Steps
    <2>2. TicketOf(i)' = "held"
        BY <1>2, <2>1, TicketBecomes
    <2>3. \A j \in Ids \ {i} : TicketOf(j)' = TicketOf(j)
        BY <1>1, <1>2, <2>1, TicketStays
    <2>4. Tickets!Become(i, "held")
        BY <1>1, <2>1, <2>2, <2>3, TicketMoves
    <2> QED
        BY <1>4, <2>4 DEF Tickets!Ask
<1>7. CASE Allow(i, c)
    <2>1. /\ work' # Idle /\ work'.id = i /\ UNCHANGED <<trail, pending, held>>
        BY <1>7, HandlerType, HandlerFields DEF Allow, Ops, Steps
    <2>2. TicketOf(i)' = "running"
        BY <1>2, <1>3, <2>1, TicketBecomes
    <2>3. \A j \in Ids \ {i} : TicketOf(j)' = TicketOf(j)
        BY <1>1, <1>2, <2>1, TicketStays
    <2>4. Tickets!Become(i, "running")
        BY <1>1, <2>1, <2>2, <2>3, TicketMoves
    <2> QED
        BY <1>4, <2>4 DEF Tickets!Ask
<1> QED
    BY <1>5, <1>6, <1>7

\* The handlers that an operator's decision starts: the row waits, and they approve
\* it or take it away.
LEMMA OperatorDecides ==
    ASSUME TypeOK, ToolInv, NEW i \in Ids, Approve(i) \/ DropStale(i) \/ Deny(i)
    PROVE  Tickets!Approve(i) \/ Tickets!Close(i)
<1>1. /\ i \in pending /\ i \in held /\ req[i] # NoCall /\ work = Idle
      /\ UNCHANGED <<req, sent, runs, held>>
    BY DEF Approve, DropStale, Deny, ToolInv, QueueOK, calls
<1>2. \A j \in pending : j \in held /\ req[j] # NoCall
    BY DEF ToolInv, QueueOK
<1>3. TicketOf(i) = "held"
    BY <1>1, TicketIs
<1>4. CASE Approve(i)
    <2>1. /\ work' # Idle /\ work'.id = i /\ pending' = pending /\ Record(i, "approved")
        BY <1>4, HandlerType, HandlerFields DEF Approve, Ops, Steps
    <2>2. /\ trail'[i]["approved"] = trail[i]["approved"] + 1
          /\ \A j \in Ids \ {i} : trail'[j] = trail[j]
        BY <2>1, RecordCounts DEF Kinds
    <2>3. TicketOf(i)' = "held"
        BY <1>1, <2>1, TicketBecomes
    <2>4. \A j \in Ids \ {i} : TicketOf(j)' = TicketOf(j)
        BY <1>1, <2>1, TicketStays
    <2>5. \A j \in Ids : TicketOf(j)' = TicketOf(j)
        BY <1>3, <2>3, <2>4
    <2>6. [j \in Ids |-> TicketOf(j)]' = [j \in Ids |-> TicketOf(j)]
        BY <2>5
    <2>7. [j \in Ids |-> trail[j]["approved"]]'
            = [[j \in Ids |-> trail[j]["approved"]] EXCEPT ![i] = @ + 1]
        BY <2>2
    <2> QED
        BY <1>1, <1>3, <2>6, <2>7 DEF Tickets!Approve
<1>5. CASE DropStale(i) \/ Deny(i)
    <2>1. pending' = pending \ {i} /\ trail' = trail
        BY <1>5 DEF DropStale, Deny
    <2>2. work' = Idle \/ work'.id = i
        BY <1>1, <1>5, HandlerFields DEF DropStale, Deny
    <2>3. TicketOf(i)' = "closed"
        BY <1>1, <2>1, TicketBecomes
    <2>4. \A j \in Ids \ {i} : TicketOf(j)' = TicketOf(j)
        BY <1>1, <2>1, <2>2, TicketStays
    <2>5. Tickets!Become(i, "closed")
        BY <1>1, <2>1, <2>3, <2>4, TicketMoves
    <2> QED
        BY <1>3, <2>5 DEF Tickets!Close
<1> QED
    BY <1>4, <1>5

\* A call is sent for an invocation that is owed one, it runs, or the ticket does not
\* see the step.
LEMMA BackendMovesTicket ==
    ASSUME TypeOK, ToolInv, RunsOK, BackendActions
    PROVE  Tickets!Send(work.id) \/ Tickets!Run(work.id) \/ UNCHANGED Tickets!ticketVars
<1>1. /\ work \in Work /\ work # Idle /\ work.id \in Ids
      /\ work' # Idle /\ work'.id = work.id /\ UNCHANGED <<req, pending, trail, held>>
    BY BackendMoves
<1>2. \A j \in Ids : TicketOf(j)' = TicketOf(j)
    BY <1>1, TicketStays
<1>3. /\ [j \in Ids |-> TicketOf(j)]' = [j \in Ids |-> TicketOf(j)]
      /\ [j \in Ids |-> trail[j]["approved"]]' = [j \in Ids |-> trail[j]["approved"]]
    BY <1>1, <1>2
<1>4. CASE UNCHANGED <<sent, runs>>
    BY <1>3, <1>4 DEF Tickets!ticketVars
<1>5. CASE work.step = "call" /\ sent' = More(sent) /\ runs' \in {runs, More(runs)}
    <2>1. /\ sent' = [sent EXCEPT ![work.id] = @ + 1]
          /\ \E n \in 0..1 : runs' = [runs EXCEPT ![work.id] = @ + n]
        <3>1. sent' = [sent EXCEPT ![work.id] = @ + 1]
            BY <1>5 DEF More
        <3>2. CASE runs' = runs
            <4>1. runs' = [runs EXCEPT ![work.id] = @ + 0]
                BY <1>1, <3>2 DEF TypeOK
            <4> QED
                BY <3>1, <4>1
        <3>3. CASE runs' = More(runs)
            <4>1. runs' = [runs EXCEPT ![work.id] = @ + 1]
                BY <3>3 DEF More
            <4> QED
                BY <3>1, <4>1
        <3> QED
            BY <1>5, <3>2, <3>3
    <2>2. work.op \in {"invoke", "approve"} /\ req[work.id] # NoCall
        BY <1>1, <1>5 DEF ToolInv, HandlerOK, Work, Ops
    <2>3. CASE work.op = "invoke"
        <3>1. work.id \notin held /\ work.id \notin pending
            BY <1>1, <2>3 DEF ToolInv, HandlerOK, QueueOK
        <3>2. TicketOf(work.id) = "running"
            BY <1>1, <2>2, <3>1, TicketIs
        <3>3. sent[work.id] = 0
            BY <1>1, <1>5, <3>1 DEF ToolInv, SendsOK, About
        <3> QED
            BY <1>1, <1>3, <2>1, <3>2, <3>3 DEF Tickets!Send
    <2>4. CASE work.op = "approve"
        <3>1. work.id \in held /\ work.id \in pending
            BY <1>1, <2>4 DEF ToolInv, HandlerOK, QueueOK
        <3>2. TicketOf(work.id) = "held"
            BY <1>1, <2>2, <3>1, TicketIs
        <3>3. sent[work.id] < trail[work.id]["approved"]
            BY <1>1, <1>5, <3>1 DEF ToolInv, SendsOK, About
        <3> QED
            BY <1>1, <1>3, <2>1, <3>2, <3>3 DEF Tickets!Send
    <2> QED
        BY <2>2, <2>3, <2>4
<1>6. CASE work.step = "wait" /\ sent' = sent /\ runs' = More(runs)
    <2>1. runs' = [runs EXCEPT ![work.id] = @ + 1]
        BY <1>6 DEF More
    <2>2. runs[work.id] < sent[work.id]
        BY <1>1, <1>6 DEF RunsOK, About, TypeOK
    <2> QED
        BY <1>3, <1>6, <2>1, <2>2 DEF Tickets!Run
<1> QED
    BY <1>4, <1>5, <1>6, CallsChange DEF calls

\* A call that nobody waits for was sent and had not run.
LEMMA LateRunsTicket ==
    ASSUME TypeOK, RunsOK, NEW i \in Ids, LateRun(i)
    PROVE  Tickets!Run(i)
<1>1. /\ UNCHANGED <<req, pending, work, sent, trail, held>>
      /\ runs' = [runs EXCEPT ![i] = @ + 1] /\ late[i] > 0
    BY DEF LateRun
<1>2. runs[i] < sent[i]
    BY <1>1 DEF RunsOK, TypeOK
<1>3. \A j \in Ids : TicketOf(j)' = TicketOf(j)
    BY <1>1, TicketStays
<1>4. /\ [j \in Ids |-> TicketOf(j)]' = [j \in Ids |-> TicketOf(j)]
      /\ [j \in Ids |-> trail[j]["approved"]]' = [j \in Ids |-> trail[j]["approved"]]
    BY <1>1, <1>3
<1> QED
    BY <1>1, <1>2, <1>4 DEF Tickets!Run

\* A handler that ends, of itself or with the process, takes an invocation with it
\* only if it ran it for its caller.
LEMMA HandlerEnds ==
    ASSUME TypeOK, ToolInv, NEW i \in Ids, work # Idle, work.id = i, work' = Idle, 
           UNCHANGED <<req, pending, sent, runs, held>>,
           \A j \in Ids : trail'[j]["approved"] = trail[j]["approved"]
    PROVE  Tickets!Close(i) \/ UNCHANGED Tickets!ticketVars
<1>1. req[i] # NoCall /\ pending \subseteq held
    BY DEF ToolInv, HandlerOK, QueueOK
<1>2. \A j \in Ids \ {i} : TicketOf(j)' = TicketOf(j)
    BY TicketStays
<1>3. CASE i \in held
    <2>1. TicketOf(i) = TicketOf(i)'
        BY <1>1, <1>3, TicketIs, TicketBecomes
    <2>2. \A j \in Ids : TicketOf(j)' = TicketOf(j)
        BY <1>2, <2>1
    <2> QED
        BY <2>2, AllStay DEF Tickets!ticketVars
<1>4. CASE i \notin held
    <2>1. TicketOf(i) = "running" /\ TicketOf(i)' = "closed"
        BY <1>1, <1>4, TicketIs, TicketBecomes
    <2>2. Tickets!Become(i, "closed")
        BY <1>1, <1>2, <2>1, TicketMoves
    <2> QED
        BY <2>1, <2>2 DEF Tickets!Close
<1> QED
    BY <1>3, <1>4

LEMMA HandlerMoves ==
    ASSUME TypeOK, ToolInv, Finalize \/ RemoveRow \/ RecordLast \/ Raise
    PROVE  (\E i \in Ids : Tickets!Close(i)) \/ UNCHANGED Tickets!ticketVars
<1>1. /\ work \in Work /\ work # Idle /\ work.id \in Ids
      /\ UNCHANGED <<req, sent, runs, held>>
    BY DEF Finalize, RemoveRow, RecordLast, Raise, TypeOK, Work, calls
<1>2. PICK i \in Ids : work.id = i
    BY <1>1
<1>3. req[i] # NoCall /\ pending \subseteq held
    BY <1>1, <1>2 DEF ToolInv, HandlerOK, QueueOK
<1>4. CASE Finalize
    <2>1. /\ work.step \in {"allow", "block"} /\ pending' = pending /\ Record(i, work.step)
          /\ work' = IF work.op = "approve" THEN [work EXCEPT !.step = "remove"] ELSE Idle
        BY <1>2, <1>4 DEF Finalize
    <2>2. \A j \in Ids : trail'[j]["approved"] = trail[j]["approved"]
        BY <2>1, RecordCounts DEF Kinds
    <2>3. CASE work.op = "approve"
        <3>1. work' \in Work /\ work'.id = work.id
            BY <1>1, <2>1, <2>3 DEF Work, Steps
        <3>2. work' # Idle
            BY <3>1, IdleAssumption DEF Work
        <3>3. \A j \in Ids : TicketOf(j)' = TicketOf(j)
            BY <1>1, <2>1, <3>1, <3>2, TicketStays
        <3> QED
            BY <1>1, <2>2, <3>3, AllStay DEF Tickets!ticketVars
    <2>4. CASE work.op # "approve"
        BY <1>1, <1>2, <2>1, <2>2, <2>4, HandlerEnds
    <2> QED
        BY <2>3, <2>4
<1>5. CASE RemoveRow
    <2>1. work' = Idle /\ pending' = pending \ {i} /\ trail' = trail /\ work.step = "remove"
        BY <1>2, <1>5 DEF RemoveRow
    <2>2. i \in pending
        BY <1>1, <1>2, <2>1 DEF ToolInv, HandlerOK
    <2>3. TicketOf(i) = "held" /\ TicketOf(i)' = "closed"
        BY <1>1, <1>3, <2>1, <2>2, TicketIs, TicketBecomes
    <2>4. \A j \in Ids \ {i} : TicketOf(j)' = TicketOf(j)
        BY <1>1, <1>2, <2>1, TicketStays
    <2>5. Tickets!Become(i, "closed")
        BY <1>1, <2>1, <2>3, <2>4, TicketMoves
    <2> QED
        BY <2>3, <2>5 DEF Tickets!Close
<1>6. CASE RecordLast
    <2> DEFINE kind == IF work.op = "hold" THEN "challenge" ELSE "denied"
    <2>1. pending' = pending /\ work' = Idle /\ Record(i, kind)
        BY <1>2, <1>6 DEF RecordLast
    <2>2. kind \in Kinds \ {"approved"}
        BY DEF Kinds
    <2> HIDE DEF kind
    <2>3. \A j \in Ids : trail'[j]["approved"] = trail[j]["approved"]
        BY <2>1, <2>2, RecordCounts DEF Kinds
    <2> QED
        BY <1>1, <1>2, <2>1, <2>3, HandlerEnds
<1>7. CASE Raise
    BY <1>1, <1>2, <1>7, HandlerEnds DEF Raise
<1> QED
    BY <1>4, <1>5, <1>6, <1>7

\* Whatever path its handlers take, wherever the process stops and however late a server
\* is, an invocation goes the way that ToolTickets allows: a direct call is sent once, a
\* held one once for each approval, a closed one not again, and every run is of a call
\* that was sent.
THEOREM InvocationsAreTickets == Spec => ImplementsTickets
<1>1. Init => Tickets!TicketInit
    BY DEF Init, Tickets!TicketInit, TicketOf, Kinds
<1>2. TypeOK /\ ToolInv /\ RunsOK /\ [Next]_vars
        => [Tickets!TicketNext]_(Tickets!ticketVars)
    <2> SUFFICES ASSUME TypeOK, ToolInv, RunsOK, [Next]_vars
                 PROVE  Tickets!TicketNext \/ UNCHANGED Tickets!ticketVars
        OBVIOUS
    <2> USE DEF Tickets!TicketNext
    <2>1. ASSUME NEW i \in Ids, NEW c \in Calls, Refuse(i, c) \/ Enqueue(i, c) \/ Allow(i, c)
          PROVE  Tickets!TicketNext
        BY <2>1, RequestsAsk
    <2>2. ASSUME NEW i \in Ids, Approve(i) \/ DropStale(i) \/ Deny(i)
          PROVE  Tickets!TicketNext
        BY <2>2, OperatorDecides
    <2>3. CASE BackendActions
        <3>1. work.id \in Ids
            BY <2>3, BackendMoves
        <3> QED
            BY <2>3, <3>1, BackendMovesTicket
    <2>4. CASE Finalize \/ RemoveRow \/ RecordLast \/ Raise
        BY <2>4, HandlerMoves
    <2>5. CASE ReloadPolicy \/ EditTenantPolicy \/ UNCHANGED vars
        <3>1. UNCHANGED <<req, pending, work, sent, runs, trail, held>>
            BY <2>5 DEF ReloadPolicy, EditTenantPolicy, vars, policies, calls
        <3>2. \A j \in Ids : TicketOf(j)' = TicketOf(j)
            BY <3>1, TicketStays
        <3> QED
            BY <3>1, <3>2, AllStay DEF Tickets!ticketVars
    <2>6. CASE Restart
        <3>1. UNCHANGED <<req, pending, sent, runs, trail, held>> /\ work' = Idle
            BY <2>6 DEF Restart
        <3>2. CASE work = Idle
            <4>1. \A j \in Ids : TicketOf(j)' = TicketOf(j)
                BY <3>1, <3>2, TicketStays
            <4> QED
                BY <3>1, <4>1, AllStay DEF Tickets!ticketVars
        <3>3. CASE work # Idle
            <4>1. work.id \in Ids
                BY <3>3 DEF TypeOK
            <4> QED
                BY <3>1, <3>3, <4>1, HandlerEnds
        <3> QED
            BY <3>2, <3>3
    <2>7. ASSUME NEW i \in Ids, LateRun(i)
          PROVE  Tickets!TicketNext
        BY <2>7, LateRunsTicket
    <2> QED
        BY <2>1, <2>2, <2>3, <2>4, <2>5, <2>6, <2>7 DEF Next, BackendActions
<1> QED
    BY <1>1, <1>2, ToolInvariant, RunsAreSent, PTL DEF Spec, Tickets!TicketSpec, ImplementsTickets
=============================================================================
