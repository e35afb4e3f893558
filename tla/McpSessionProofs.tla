--------------------------- MODULE McpSessionProofs ---------------------------
(* Theorems of McpSession: whatever is lost, late or restarted, and for any    *)
(* number of calls and restarts, tools are called in sessions whose handshake  *)
(* is complete, and an invocation is the call of BackendCall.                  *)
EXTENDS McpSession, TLAPS

Methods == {"initialize", "notifications/initialized", "tools/call"}
Message == [id : Nat, method : Methods, session : Nat \cup {NoSession}, call : Calls]

Types ==
    /\ client \in [session : Nat \cup {NoSession}, initialized : BOOLEAN]
    /\ current = Idle \/ current \in [pc : Methods, call : Calls, id : Nat \ {0}]
    /\ lastId \in Nat /\ current.id <= lastId
    /\ net \subseteq Message /\ \A m \in net : m.id \in 1..lastId
    /\ opened \in Nat
    /\ sessions \in [DOMAIN sessions -> BOOLEAN] /\ DOMAIN sessions \subseteq 1..opened
    /\ state \in [Calls -> {"none", "called", "returned", "failed"}]
    /\ ran \in [Calls -> {0, 1}]
    /\ restarts \in [server : Nat, gateway : Nat]

\* One invocation is waited for, and what answers its request belongs to it.
Turn ==
    /\ \A c \in Calls : state[c] = "called" <=> Waiting /\ current.call = c
    /\ \A m \in net : m.id = current.id =>
         /\ m.method = current.pc /\ m.call = current.call
         /\ m.method = "notifications/initialized" => m.session = client.session
    /\ current.pc = "initialize" /\ answer.kind # "none" => answer.session \in 1..opened

\* A session that has completed its handshake, also if a restart has forgotten it:
\* its number is not given out again.
Good(s) ==
    /\ s \in 1..opened
    /\ \/ Known(s) /\ sessions[s]
       \/ ~Known(s) /\ restarts.server > 0

Handshake ==
    /\ client.initialized => Good(client.session)
    /\ current.pc \in {"initialize", "notifications/initialized"} => ~client.initialized
    /\ current.pc = "notifications/initialized" /\ answer.kind = "ok" => Good(client.session)
    /\ \A m \in net : m.method = "tools/call" => Good(m.session)

\* No tools/call was sent for the invocation.
Unsent(c) == ran[c] = 0 /\ \A m \in net : ~(m.method = "tools/call" /\ m.call = c)

\* A request on its way has not run, and there is one for an invocation at most.
Once ==
    /\ \A c \in Calls : state[c] = "none" => Unsent(c)
    /\ current.pc \in {"initialize", "notifications/initialized"} => Unsent(current.call)
    /\ \A m \in net : m.method = "tools/call" =>
         /\ ran[m.call] = 0
         /\ \A o \in net : o.method = "tools/call" /\ o.call = m.call => o = m
    /\ \A c \in Calls : state[c] = "returned" => ran[c] = 1
    /\ current.pc = "tools/call" /\ answer.kind = "ok" => ran[current.call] = 1

Inv == Types /\ Turn /\ Handshake /\ Once
-----------------------------------------------------------------------------
(* The operators.                                                          *)

LEMMA Methodical ==
    /\ Idle.pc = "idle" /\ Idle.call = NoCall /\ Idle.id = 0
    /\ NoAnswer.kind = "none"
    /\ NoCall \notin Calls /\ NoSession \notin Nat
BY CallAssumption DEF Idle, NoAnswer

\* _post takes the next number for its request.
LEMMA SendType ==
    ASSUME Types, NEW method \in Methods, NEW session \in Nat \cup {NoSession}, NEW call \in Calls,
           Send(method, session, call)
    PROVE  \E m \in Message :
             /\ m = [id |-> lastId + 1, method |-> method, session |-> session, call |-> call]
             /\ m.method = method /\ m.session = session /\ m.call = call
             /\ net' = net \cup {m} /\ m \notin net
             /\ lastId' = m.id /\ lastId' \in Nat
             /\ current' = [pc |-> method, call |-> call, id |-> m.id]
             /\ current'.pc = method /\ current'.call = call /\ current'.id = m.id
             /\ current' \in [pc : Methods, call : Calls, id : Nat \ {0}]
             /\ \A o \in net' : o.id \in 1..lastId'
             /\ \A o \in net : o.id # m.id
             /\ answer'.kind = "none"
<1> DEFINE m == [id |-> lastId + 1, method |-> method, session |-> session, call |-> call]
<1>1. lastId + 1 \in Nat \ {0} /\ \A o \in net : o.id \in 1..lastId
    BY DEF Types
<1>2. /\ m \in Message /\ m.id = lastId + 1
      /\ m.method = method /\ m.session = session /\ m.call = call
    BY <1>1 DEF Message
<1>3. /\ net' = net \cup {m} /\ lastId' = lastId + 1
      /\ current' = [pc |-> method, call |-> call, id |-> lastId + 1]
    BY DEF Send
<1>4. \A o \in net : o.id # lastId + 1
    <2>1. \A i \in 1..lastId : i # lastId + 1
        BY DEF Types
    <2> QED
        BY <1>1, <2>1
<1>5. \A o \in net' : o.id \in 1..(lastId + 1)
    <2>1. \A i \in 1..lastId : i \in 1..(lastId + 1)
        BY DEF Types
    <2>2. lastId + 1 \in 1..(lastId + 1)
        BY <1>1
    <2> HIDE DEF m
    <2> QED
        BY <1>1, <1>2, <1>3, <2>1, <2>2
<1>6. answer'.kind = "none"
    BY Methodical DEF Send
<1>7. /\ current' \in [pc : Methods, call : Calls, id : Nat \ {0}]
      /\ current'.pc = method /\ current'.call = call /\ current'.id = lastId + 1
    BY <1>1, <1>3
<1> HIDE DEF m
<1>8. m \notin net
    BY <1>2, <1>4
<1> QED
    BY <1>1, <1>2, <1>3, <1>4, <1>5, <1>6, <1>7, <1>8 DEF m

LEMMA Awaited ==
    ASSUME Types, Waiting
    PROVE  current \in [pc : Methods, call : Calls, id : Nat \ {0}]
BY Methodical DEF Types, Waiting

LEMMA MethodsDiffer ==
    ASSUME NEW pc, pc \in Methods PROVE pc # "idle"
BY DEF Methods
-----------------------------------------------------------------------------
(* Types.                                                                  *)

LEMMA TypesInit == Init => Types
BY DEF Init, Types, NewClient, Idle, NoAnswer


LEMMA TypesStep == Inv /\ [Next]_vars => Types'
<1> SUFFICES ASSUME Types, Turn, Handshake, Once, [Next]_vars PROVE Types'
    BY DEF Inv
<1>1. ASSUME NEW c \in Calls, Invoke(c) PROVE Types'
    <2>1. UNCHANGED <<client, sessions, opened, ran, restarts>>
        BY <1>1 DEF Invoke, server
    <2>2. \E method \in Methods, s \in Nat \cup {NoSession} : Send(method, s, c)
        BY <1>1 DEF Invoke, Types, Methods
    <2>3. PICK m \in Message :
            /\ net' = net \cup {m} /\ current' \in [pc : Methods, call : Calls, id : Nat \ {0}]
            /\ current'.id = lastId' /\ lastId' \in Nat
            /\ \A o \in net' : o.id \in 1..lastId'
        BY <2>2, SendType
    <2>4. state' \in [Calls -> {"none", "called", "returned", "failed"}]
        BY <1>1 DEF Types, Invoke
    <2> QED
        BY <2>1, <2>3, <2>4 DEF Types
<1>2. CASE OpenSession
    <2>1. answer.session \in Nat /\ current.call \in Calls
        BY <1>2, Awaited, MethodsDiffer DEF OpenSession, Turn, Types, Waiting
    <2>2. /\ client' = [client EXCEPT !.session = answer.session]
          /\ Send("notifications/initialized", answer.session, current.call)
          /\ UNCHANGED <<sessions, opened, ran, state, restarts>>
        BY <1>2 DEF OpenSession, server
    <2>3. PICK m \in Message :
            /\ net' = net \cup {m} /\ current' \in [pc : Methods, call : Calls, id : Nat \ {0}]
            /\ current'.id = lastId' /\ lastId' \in Nat
            /\ \A o \in net' : o.id \in 1..lastId'
        BY <2>1, <2>2, SendType DEF Methods
    <2> QED
        BY <2>1, <2>2, <2>3 DEF Types
<1>3. CASE CompleteHandshake
    <2>1. client.session \in Nat \cup {NoSession} /\ current.call \in Calls
        BY <1>3, Awaited, MethodsDiffer DEF CompleteHandshake, Types, Waiting
    <2>2. /\ client' = [client EXCEPT !.initialized = TRUE]
          /\ Send("tools/call", client.session, current.call)
          /\ UNCHANGED <<sessions, opened, ran, state, restarts>>
        BY <1>3 DEF CompleteHandshake, server
    <2>3. PICK m \in Message :
            /\ net' = net \cup {m} /\ current' \in [pc : Methods, call : Calls, id : Nat \ {0}]
            /\ current'.id = lastId' /\ lastId' \in Nat
            /\ \A o \in net' : o.id \in 1..lastId'
        BY <2>1, <2>2, SendType DEF Methods
    <2>4. client' \in [session : Nat \cup {NoSession}, initialized : BOOLEAN]
        BY <2>2 DEF Types
    <2> QED
        BY <2>2, <2>3, <2>4 DEF Types
<1>4. CASE Return
    <2>1. client' \in [session : Nat \cup {NoSession}, initialized : BOOLEAN]
        BY <1>4 DEF Return, Types
    <2>2. current' = Idle /\ UNCHANGED <<net, lastId, opened, sessions, ran, restarts>>
        BY <1>4 DEF Return, Finish, server
    <2>3. state' \in [Calls -> {"none", "called", "returned", "failed"}]
        BY <1>4 DEF Return, Finish, Types
    <2> QED
        BY <2>1, <2>2, <2>3, Methodical DEF Types
<1>5. CASE Refuse
    <2>1. client' \in [session : Nat \cup {NoSession}, initialized : BOOLEAN]
        BY <1>5 DEF Refuse, Turn, Types
    <2>2. current' = Idle /\ UNCHANGED <<net, lastId, opened, sessions, ran, restarts>>
        BY <1>5 DEF Refuse, Finish, server
    <2>3. state' \in [Calls -> {"none", "called", "returned", "failed"}]
        BY <1>5 DEF Refuse, Finish, Types
    <2> QED
        BY <2>1, <2>2, <2>3, Methodical DEF Types
<1>6. CASE TimeOut
    <2>1. client' \in [session : Nat \cup {NoSession}, initialized : BOOLEAN]
        BY <1>6 DEF TimeOut, Types
    <2>2. current' = Idle /\ UNCHANGED <<net, lastId, opened, sessions, ran, restarts>>
        BY <1>6 DEF TimeOut, Finish, server
    <2>3. state' \in [Calls -> {"none", "called", "returned", "failed"}]
        BY <1>6 DEF TimeOut, Finish, Types
    <2> QED
        BY <2>1, <2>2, <2>3, Methodical DEF Types
<1>7. ASSUME NEW m \in net, HandleInitialize(m) PROVE Types'
    <2>1. /\ opened' = opened + 1 /\ opened' \in Nat
          /\ DOMAIN sessions' = DOMAIN sessions \cup {opened'}
          /\ sessions' \in [DOMAIN sessions' -> BOOLEAN]
        BY <1>7 DEF HandleInitialize, Known, Types
    <2>2. DOMAIN sessions' \subseteq 1..opened'
        BY <2>1 DEF Types
    <2>3. net' = net \ {m} /\ UNCHANGED <<client, current, lastId, ran, state, restarts>>
        BY <1>7 DEF HandleInitialize, Deliver
    <2> QED
        BY <2>1, <2>2, <2>3 DEF Types
<1>8. ASSUME NEW m \in net, HandleInitialized(m) PROVE Types'
    <2>1. DOMAIN sessions' = DOMAIN sessions /\ sessions' \in [DOMAIN sessions -> BOOLEAN]
        BY <1>8 DEF HandleInitialized, Types
    <2>2. net' = net \ {m} /\ UNCHANGED <<client, current, lastId, opened, ran, state, restarts>>
        BY <1>8 DEF HandleInitialized, Deliver
    <2> QED
        BY <2>1, <2>2 DEF Types
<1>9. ASSUME NEW m \in net, HandleCall(m) PROVE Types'
    <2>1. /\ net' = net \ {m}
          /\ UNCHANGED <<client, current, lastId, sessions, opened, state, restarts>>
        BY <1>9 DEF HandleCall, Deliver
    <2>2. ran' \in [Calls -> {0, 1}]
        <3>1. ran[m.call] = 0 /\ m.call \in Calls
            BY <1>9 DEF HandleCall, Once, Types, Message
        <3> QED
            BY <1>9, <3>1 DEF HandleCall, Types
    <2> QED
        BY <2>1, <2>2 DEF Types
<1>10. ASSUME NEW m \in net, Lose(m) PROVE Types'
    BY <1>10 DEF Lose, Deliver, Types, server
<1>11. CASE RestartServer
    <2>1. sessions' \in [DOMAIN sessions' -> BOOLEAN] /\ DOMAIN sessions' = {}
        BY <1>11 DEF RestartServer
    <2> QED
        BY <1>11, <2>1 DEF RestartServer, Types
<1>12. CASE RestartGateway
    <2>1. state' \in [Calls -> {"none", "called", "returned", "failed"}]
        BY <1>12 DEF RestartGateway, Types
    <2> QED
        BY <1>12, <2>1, Methodical DEF RestartGateway, Types, NewClient, server
<1>13. CASE UNCHANGED vars
    BY <1>13 DEF vars, server, Types
<1> QED
    BY <1>1, <1>2, <1>3, <1>4, <1>5, <1>6, <1>7, <1>8, <1>9, <1>10, <1>11, <1>12, <1>13 DEF Next
-----------------------------------------------------------------------------
(* Who waits for what.                                                     *)

LEMMA TurnStarts == Init => Turn
BY Methodical DEF Init, Turn, Waiting

\* The messages of the invocation that is waited for are those it has just sent.
Answering ==
    /\ \A m \in net : m.id = current.id =>
         /\ m.method = current.pc /\ m.call = current.call
         /\ m.method = "notifications/initialized" => m.session = client.session
    /\ current.pc = "initialize" /\ answer.kind # "none" => answer.session \in 1..opened

LEMMA SentTurn ==
    ASSUME Types, NEW method \in Methods, NEW session \in Nat \cup {NoSession}, NEW call \in Calls,
           Send(method, session, call),
           method = "notifications/initialized" => session = client'.session
    PROVE  Answering' /\ Waiting' /\ current'.call = call
<1>1. PICK m \in Message :
        /\ m = [id |-> lastId + 1, method |-> method, session |-> session, call |-> call]
        /\ net' = net \cup {m} /\ current' = [pc |-> method, call |-> call, id |-> m.id]
        /\ \A o \in net : o.id # m.id
        /\ answer'.kind = "none"
    BY SendType
<1>2. m.method = method /\ m.session = session /\ m.call = call
    BY <1>1
<1>3. current'.pc = method /\ current'.call = call /\ current'.id = m.id
    BY <1>1
<1>4. Waiting'
    BY <1>3, MethodsDiffer DEF Waiting
<1> QED
    BY <1>1, <1>2, <1>3, <1>4 DEF Answering

\* When the invocation ends, nothing is waited for.
LEMMA EndTurn ==
    ASSUME Types, Turn, NEW outcome \in {"returned", "failed"}, Waiting, Finish(outcome),
           UNCHANGED net
    PROVE  Turn'
<1>1. current.call \in Calls
    BY Awaited
<1>2. current' = Idle /\ state' = [state EXCEPT ![current.call] = outcome]
    BY DEF Finish
<1>3. \A c \in Calls : state'[c] # "called"
    BY <1>1, <1>2 DEF Turn, Types
<1>4. ~Waiting' /\ current'.pc = "idle" /\ current'.id = 0
    BY <1>2, Methodical DEF Waiting
<1>5. \A m \in net' : m.id # 0
    BY DEF Types
<1> QED
    BY <1>3, <1>4, <1>5 DEF Turn

\* A message of another request leaves the answer alone.
LEMMA Quiet ==
    ASSUME Types, Turn, NEW m \in net, net' = net \ {m}, UNCHANGED <<client, current, state>>,
           opened <= opened', opened' \in Nat,
           \/ answer' = answer
           \/ m.id = current.id /\ (m.method = "initialize" => answer'.session \in 1..opened')
    PROVE  Turn'
<1>1. \A x \in 1..opened : x \in 1..opened'
    BY DEF Types
<1>2. current.pc = "initialize" /\ answer'.kind # "none" => answer'.session \in 1..opened'
    BY <1>1 DEF Turn
<1> QED
    BY <1>2 DEF Turn, Waiting

LEMMA TurnStep == Inv /\ [Next]_vars => Turn'
<1> SUFFICES ASSUME Types, Turn, [Next]_vars PROVE Turn'
    BY DEF Inv
<1>1. ASSUME NEW c \in Calls, Invoke(c) PROVE Turn'
    <2>1. PICK method \in {"initialize", "tools/call"}, s \in Nat \cup {NoSession} :
            Send(method, s, c)
        BY <1>1 DEF Invoke, Types
    <2>2. Answering' /\ Waiting' /\ current'.call = c
        BY <2>1, SentTurn DEF Methods
    <2>3. \A d \in Calls : state'[d] = "called" <=> d = c
        BY <1>1 DEF Invoke, Turn, Types
    <2> QED
        BY <2>2, <2>3 DEF Turn, Answering
<1>2. CASE OpenSession
    <2>1. answer.session \in Nat /\ current.call \in Calls /\ Waiting
        BY <1>2, Awaited, MethodsDiffer DEF OpenSession, Turn, Types, Waiting
    <2>2. client'.session = answer.session /\ state' = state
        BY <1>2 DEF OpenSession, Types
    <2>3. Answering' /\ Waiting' /\ current'.call = current.call
        BY <1>2, <2>1, <2>2, SentTurn DEF OpenSession, Methods
    <2> QED
        BY <2>1, <2>2, <2>3 DEF Turn, Answering
<1>3. CASE CompleteHandshake
    <2>1. client.session \in Nat \cup {NoSession} /\ current.call \in Calls /\ Waiting
        BY <1>3, Awaited, MethodsDiffer DEF CompleteHandshake, Types, Waiting
    <2>2. Answering' /\ Waiting' /\ current'.call = current.call
        BY <1>3, <2>1, SentTurn DEF CompleteHandshake, Methods
    <2>3. state' = state
        BY <1>3 DEF CompleteHandshake
    <2> QED
        BY <2>1, <2>2, <2>3 DEF Turn, Answering
<1>4. CASE Return
    BY <1>4, EndTurn DEF Return, Waiting
<1>5. CASE Refuse
    BY <1>5, EndTurn DEF Refuse
<1>6. CASE TimeOut
    BY <1>6, EndTurn DEF TimeOut
<1>7. ASSUME NEW m \in net, HandleInitialize(m) PROVE Turn'
    <2>1. /\ opened' = opened + 1 /\ opened' \in 1..opened' /\ opened <= opened' /\ opened' \in Nat
          /\ net' = net \ {m} /\ UNCHANGED <<client, current, state>>
        BY <1>7 DEF HandleInitialize, Deliver, Types
    <2>2. \/ answer' = answer
          \/ m.id = current.id /\ answer'.session = opened'
        BY <1>7 DEF HandleInitialize, Reply
    <2> QED
        BY <2>1, <2>2, Quiet
<1>8. ASSUME NEW m \in net, HandleInitialized(m) PROVE Turn'
    <2>1. /\ opened' = opened /\ opened <= opened' /\ opened' \in Nat
          /\ net' = net \ {m} /\ UNCHANGED <<client, current, state>>
        BY <1>8 DEF HandleInitialized, Deliver, Types
    <2>2. answer' = answer \/ (m.id = current.id /\ m.method # "initialize")
        BY <1>8 DEF HandleInitialized, Reply
    <2> QED
        BY <2>1, <2>2, Quiet
<1>9. ASSUME NEW m \in net, HandleCall(m) PROVE Turn'
    <2>1. /\ opened' = opened /\ opened <= opened' /\ opened' \in Nat
          /\ net' = net \ {m} /\ UNCHANGED <<client, current, state>>
        BY <1>9 DEF HandleCall, Deliver, Types
    <2>2. answer' = answer \/ (m.id = current.id /\ m.method # "initialize")
        BY <1>9 DEF HandleCall, Reply
    <2> QED
        BY <2>1, <2>2, Quiet
<1>10. ASSUME NEW m \in net, Lose(m) PROVE Turn'
    <2>1. /\ opened' = opened /\ opened <= opened' /\ opened' \in Nat /\ answer' = answer
          /\ net' = net \ {m} /\ UNCHANGED <<client, current, state>>
        BY <1>10 DEF Lose, Deliver, Types, server
    <2> QED
        BY <2>1, Quiet
<1>11. CASE RestartServer
    BY <1>11 DEF RestartServer, Turn, Waiting
<1>12. CASE RestartGateway
    <2>1. \A c \in Calls : state'[c] # "called"
        BY <1>12 DEF RestartGateway
    <2>2. ~Waiting' /\ current'.pc = "idle" /\ current'.id = 0 /\ net' = net
        BY <1>12, Methodical DEF RestartGateway, Waiting
    <2>3. \A m \in net : m.id # 0
        BY DEF Types
    <2> QED
        BY <2>1, <2>2, <2>3 DEF Turn
<1>13. CASE UNCHANGED vars
    BY <1>13 DEF vars, server, Turn, Waiting
<1> QED
    BY <1>1, <1>2, <1>3, <1>4, <1>5, <1>6, <1>7, <1>8, <1>9, <1>10, <1>11, <1>12, <1>13 DEF Next
-----------------------------------------------------------------------------
(* Handshakes.                                                             *)

\* Whatever happens, a session stays good.
LEMMA GoodStays ==
    ASSUME Types, [Next]_vars, NEW s, Good(s) PROVE Good(s)'
<1>1. s \in 1..opened /\ opened \in Nat
    BY DEF Good, Types
<1>2. CASE UNCHANGED <<sessions, opened>> /\ restarts'.server = restarts.server
    BY <1>2 DEF Good, Known
<1>3. ASSUME NEW m \in net, HandleInitialize(m) PROVE Good(s)'
    <2>1. /\ opened' = opened + 1 /\ DOMAIN sessions' = DOMAIN sessions \cup {opened'}
          /\ restarts' = restarts
        BY <1>3 DEF HandleInitialize
    <2>2. s \in 1..opened' /\ s # opened'
        BY <1>1, <2>1
    <2>3. Known(s)' <=> Known(s)
        BY <2>1, <2>2 DEF Known
    <2>4. Known(s) => sessions'[s] = sessions[s]
        BY <1>3 DEF HandleInitialize, Known, Types
    <2> QED
        BY <2>1, <2>2, <2>3, <2>4 DEF Good
<1>4. ASSUME NEW m \in net, HandleInitialized(m) PROVE Good(s)'
    <2>1. DOMAIN sessions' = DOMAIN sessions /\ UNCHANGED <<opened, restarts>>
        BY <1>4 DEF HandleInitialized
    <2>2. Known(s) /\ sessions[s] => sessions'[s]
        BY <1>4 DEF HandleInitialized, Known, Types
    <2> QED
        BY <2>1, <2>2 DEF Good, Known
<1>5. CASE RestartServer
    <2>1. restarts'.server > 0 /\ ~Known(s)' /\ opened' = opened
        BY <1>5 DEF RestartServer, Known, Types
    <2> QED
        BY <1>1, <2>1 DEF Good
<1>6. CASE RestartGateway
    <2>1. UNCHANGED <<sessions, opened>> /\ restarts'.server = restarts.server
        BY <1>6 DEF RestartGateway, server, Types
    <2> QED
        BY <1>2, <2>1
<1>7. CASE \/ \E c \in Calls : Invoke(c)
           \/ OpenSession \/ CompleteHandshake \/ Return \/ Refuse \/ TimeOut
           \/ \E m \in net : HandleCall(m) \/ Lose(m)
           \/ UNCHANGED vars
    <2>1. UNCHANGED <<sessions, opened, restarts>>
        BY <1>7 DEF Invoke, OpenSession, CompleteHandshake, Return, Refuse, TimeOut, HandleCall,
                    Lose, vars, server
    <2> QED
        BY <1>2, <2>1
<1> QED
    BY <1>3, <1>4, <1>5, <1>6, <1>7 DEF Next

LEMMA HandshakeStep == Inv /\ [Next]_vars => Handshake'
<1> SUFFICES ASSUME Types, Turn, Handshake, [Next]_vars PROVE Handshake'
    BY DEF Inv
<1>0. \A s : Good(s) => Good(s)'
    BY GoodStays
<1>1. ASSUME NEW c \in Calls, Invoke(c) PROVE Handshake'
    <2>1. client' = client
        BY <1>1 DEF Invoke
    <2>2. CASE client.initialized
        <3>1. PICK m \in Message : /\ net' = net \cup {m} /\ m.session = client.session
                                   /\ current'.pc = "tools/call"
            <4>1. client.session \in Nat \cup {NoSession} /\ "tools/call" \in Methods
                BY DEF Types, Methods
            <4>2. Send("tools/call", client.session, c)
                BY <1>1, <2>2 DEF Invoke
            <4>3. PICK m \in Message :
                    /\ m.method = "tools/call" /\ m.session = client.session
                    /\ net' = net \cup {m} /\ current'.pc = "tools/call"
              <5> DEFINE s == client.session
                         k == "tools/call"
              <5>1. s \in Nat \cup {NoSession} /\ k \in Methods /\ Send(k, s, c)
                BY <4>1, <4>2
              <5>2. \E m \in Message : /\ m.method = k /\ m.session = s
                                       /\ net' = net \cup {m} /\ current'.pc = k
                <6> HIDE DEF s, k
                <6> QED
                    BY <5>1, SendType
              <5> QED
                BY <5>2
            <4> QED
                BY <4>3
        <3> QED
            BY <1>0, <2>1, <2>2, <3>1 DEF Handshake
    <2>3. CASE ~client.initialized
        <3>1. PICK m \in Message : /\ net' = net \cup {m} /\ m.method = "initialize"
                                   /\ current'.pc = "initialize"
            <4>1. Send("initialize", NoSession, c)
                BY <1>1, <2>3 DEF Invoke
            <4> QED
                BY <4>1, SendType DEF Methods
        <3> QED
            BY <1>0, <2>1, <2>3, <3>1 DEF Handshake
    <2> QED
        BY <2>2, <2>3
<1>2. CASE OpenSession
    <2>1. answer.session \in Nat /\ current.call \in Calls
        BY <1>2, Awaited, MethodsDiffer DEF OpenSession, Turn, Types, Waiting
    <2>2. ~client.initialized /\ client'.initialized = client.initialized
        BY <1>2 DEF OpenSession, Handshake, Types
    <2>3. PICK m \in Message : /\ net' = net \cup {m} /\ m.method = "notifications/initialized"
                               /\ current'.pc = "notifications/initialized" /\ answer'.kind = "none"
        BY <1>2, <2>1, SendType DEF OpenSession, Methods
    <2> QED
        BY <1>0, <2>2, <2>3 DEF Handshake
<1>3. CASE CompleteHandshake
    <2>1. client.session \in Nat \cup {NoSession} /\ current.call \in Calls
        BY <1>3, Awaited, MethodsDiffer DEF CompleteHandshake, Types, Waiting
    <2>2. Good(client.session)' /\ client'.session = client.session
        BY <1>0, <1>3 DEF CompleteHandshake, Handshake, Types
    <2>3. PICK m \in Message : /\ net' = net \cup {m} /\ m.session = client.session
                               /\ current'.pc = "tools/call"
        BY <1>3, <2>1, SendType DEF CompleteHandshake, Methods
    <2> QED
        BY <1>0, <2>2, <2>3 DEF Handshake
<1>4. CASE Return \/ Refuse \/ TimeOut
    <2>1. current'.pc = "idle" /\ net' = net
        BY <1>4, Methodical DEF Return, Refuse, TimeOut, Finish
    <2>2. client'.initialized => client.initialized /\ client'.session = client.session
        BY <1>4 DEF Return, Refuse, TimeOut, Handshake, Types
    <2> QED
        BY <1>0, <2>1, <2>2 DEF Handshake
<1>5. ASSUME NEW m \in net, HandleInitialize(m) \/ HandleCall(m) \/ Lose(m) PROVE Handshake'
    <2>1. net' = net \ {m} /\ UNCHANGED <<client, current>>
        BY <1>5 DEF HandleInitialize, HandleCall, Lose, Deliver
    <2>2. current.pc = "notifications/initialized" => answer' = answer
        <3> SUFFICES ASSUME m.id = current.id, current.pc = "notifications/initialized",
                            HandleInitialize(m) \/ HandleCall(m)
                     PROVE  FALSE
            BY <1>5 DEF HandleInitialize, HandleCall, Lose, Reply
        <3>1. m.method = current.pc
            BY DEF Turn
        <3> QED
            BY <3>1 DEF HandleInitialize, HandleCall
    <2> QED
        BY <1>0, <2>1, <2>2 DEF Handshake
<1>6. ASSUME NEW m \in net, HandleInitialized(m) PROVE Handshake'
    <2>1. net' = net \ {m} /\ UNCHANGED <<client, current>>
        BY <1>6 DEF HandleInitialized, Deliver
    <2>2. \/ answer' = answer
          \/ answer'.kind # "ok"
          \/ m.id = current.id /\ Known(m.session)
        BY <1>6 DEF HandleInitialized, Reply
    <2>3. m.id = current.id /\ Known(m.session) => Good(client.session)'
        <3> SUFFICES ASSUME m.id = current.id, Known(m.session) PROVE Good(client.session)'
            OBVIOUS
        <3>1. m.session = client.session
            BY <1>6 DEF HandleInitialized, Turn
        <3>2. Known(m.session)' /\ sessions'[m.session] /\ opened' = opened
            BY <1>6 DEF HandleInitialized, Known
        <3> QED
            BY <2>1, <3>1, <3>2 DEF Good, Known, Types
    <2> QED
        BY <1>0, <2>1, <2>2, <2>3 DEF Handshake
<1>7. CASE RestartServer \/ UNCHANGED vars
    <2>1. UNCHANGED <<client, current, net, answer>>
        BY <1>7 DEF RestartServer, vars
    <2> QED
        BY <1>0, <2>1 DEF Handshake
<1>8. CASE RestartGateway
    <2>1. ~client'.initialized /\ current'.pc = "idle" /\ net' = net
        BY <1>8, Methodical DEF RestartGateway, NewClient
    <2> QED
        BY <1>0, <2>1 DEF Handshake
<1> QED
    BY <1>1, <1>2, <1>3, <1>4, <1>5, <1>6, <1>7, <1>8 DEF Next
-----------------------------------------------------------------------------
(* Runs.                                                                   *)

LEMMA OnceStep == Inv /\ [Next]_vars => Once'
<1> SUFFICES ASSUME Types, Turn, Once, [Next]_vars PROVE Once'
    BY DEF Inv
<1>1. ASSUME NEW c \in Calls, Invoke(c) PROVE Once'
    <2>1. PICK method \in {"initialize", "tools/call"}, s \in Nat \cup {NoSession} :
            Send(method, s, c)
        BY <1>1 DEF Invoke, Types
    <2>2. PICK m \in Message : /\ net' = net \cup {m} /\ m.call = c /\ m.method = method
                               /\ current'.pc = method /\ current'.call = c /\ answer'.kind = "none"
        BY <2>1, SendType DEF Methods
    <2>3. state[c] = "none" /\ Unsent(c) /\ ran' = ran
        BY <1>1 DEF Invoke, Once, server
    <2>4. \A d \in Calls : d # c => (Unsent(d) => Unsent(d)') /\ state'[d] = state[d]
        BY <1>1, <2>2, <2>3 DEF Unsent, Invoke, Types
    <2>5. state'[c] = "called"
        BY <1>1 DEF Invoke, Types
    <2>6. method = "initialize" => Unsent(c)'
        BY <2>2, <2>3 DEF Unsent
    <2>7. \A o \in net : o.call \in Calls
        BY DEF Types, Message
    <2> QED
        BY <2>2, <2>3, <2>4, <2>5, <2>6, <2>7 DEF Once, Unsent
<1>2. CASE OpenSession
    <2>1. answer.session \in Nat /\ current.call \in Calls
        BY <1>2, Awaited, MethodsDiffer DEF OpenSession, Turn, Types, Waiting
    <2>2. PICK m \in Message : /\ net' = net \cup {m} /\ m.method = "notifications/initialized"
                               /\ current'.pc = "notifications/initialized"
                               /\ current'.call = current.call /\ answer'.kind = "none"
        BY <1>2, <2>1, SendType DEF OpenSession, Methods
    <2>3. state' = state /\ ran' = ran
        BY <1>2 DEF OpenSession, server
    <2>4. \A d : Unsent(d) => Unsent(d)'
        BY <2>2, <2>3 DEF Unsent
    <2>5. Unsent(current.call)
        BY <1>2 DEF OpenSession, Once
    <2> QED
        BY <2>2, <2>3, <2>4, <2>5 DEF Once
<1>3. CASE CompleteHandshake
    <2>1. client.session \in Nat \cup {NoSession} /\ current.call \in Calls /\ Waiting
        BY <1>3, Awaited, MethodsDiffer DEF CompleteHandshake, Types, Waiting
    <2>2. PICK m \in Message : /\ net' = net \cup {m} /\ m.call = current.call
                               /\ current'.pc = "tools/call" /\ answer'.kind = "none"
        BY <1>3, <2>1, SendType DEF CompleteHandshake, Methods
    <2>3. state' = state /\ ran' = ran
        BY <1>3 DEF CompleteHandshake, server
    <2>4. Unsent(current.call) /\ state[current.call] = "called"
        BY <1>3, <2>1 DEF CompleteHandshake, Once, Turn
    <2>5. \A d \in Calls : d # current.call => (Unsent(d) => Unsent(d)')
        BY <2>2, <2>3 DEF Unsent
    <2> QED
        BY <2>2, <2>3, <2>4, <2>5 DEF Once, Unsent
<1>4. CASE Return \/ Refuse \/ TimeOut
    <2>1. PICK outcome \in {"returned", "failed"} :
            /\ Finish(outcome)
            /\ outcome = "returned" => Return
        BY <1>4 DEF Return, Refuse, TimeOut
    <2>2. current.call \in Calls /\ current'.pc = "idle" /\ net' = net /\ ran' = ran
        BY <1>4, <2>1, Awaited, Methodical DEF Return, Refuse, TimeOut, Finish, Waiting, server
    <2>3. state' = [state EXCEPT ![current.call] = outcome]
        BY <2>1 DEF Finish
    <2>4. outcome = "returned" => ran[current.call] = 1
        BY <2>1 DEF Return, Once
    <2>5. \A d : Unsent(d) => Unsent(d)'
        BY <2>2 DEF Unsent
    <2> QED
        BY <2>2, <2>3, <2>4, <2>5 DEF Once, Types
<1>5. ASSUME NEW m \in net, HandleInitialize(m) \/ HandleInitialized(m) \/ Lose(m) PROVE Once'
    <2>1. net' = net \ {m} /\ UNCHANGED <<current, state, ran>>
        BY <1>5 DEF HandleInitialize, HandleInitialized, Lose, Deliver, server
    <2>2. current.pc = "tools/call" => answer' = answer
        <3> SUFFICES ASSUME m.id = current.id, current.pc = "tools/call",
                            HandleInitialize(m) \/ HandleInitialized(m)
                     PROVE  FALSE
            BY <1>5 DEF HandleInitialize, HandleInitialized, Lose, Reply
        <3>1. m.method = current.pc
            BY DEF Turn
        <3> QED
            BY <3>1 DEF HandleInitialize, HandleInitialized
    <2>3. \A d : Unsent(d) => Unsent(d)'
        BY <2>1 DEF Unsent
    <2> QED
        BY <2>1, <2>2, <2>3 DEF Once
<1>6. ASSUME NEW m \in net, HandleCall(m) PROVE Once'
    <2>1. /\ net' = net \ {m} /\ UNCHANGED <<current, state>>
          /\ m.method = "tools/call" /\ m.call \in Calls
        BY <1>6 DEF HandleCall, Deliver, Types, Message
    <2>2. ran[m.call] = 0 /\ \A o \in net' : ~(o.method = "tools/call" /\ o.call = m.call)
        BY <2>1 DEF Once
    <2>3. \A d \in Calls : d # m.call => ran'[d] = ran[d]
        BY <1>6 DEF HandleCall, Types
    <2>4. \A d : Unsent(d) => d # m.call
        BY <2>1 DEF Unsent
    <2>5. \A d \in Calls : Unsent(d) => Unsent(d)'
        BY <2>1, <2>3, <2>4 DEF Unsent
    <2>6. current.pc \in Methods => current.call \in Calls
        BY Awaited, MethodsDiffer DEF Waiting
    <2>7. \A o \in net' : o.call \in Calls
        BY <2>1 DEF Types, Message
    <2>8. current.pc = "tools/call" /\ answer'.kind = "ok" => ran'[current.call] = 1
        <3>1. CASE m.id = current.id
            <4>1. m.call = current.call
                BY <3>1 DEF Turn
            <4> QED
                BY <1>6, <2>1, <2>2, <3>1, <4>1 DEF HandleCall, Reply, Types
        <3>2. CASE m.id # current.id
            <4>1. answer' = answer
                BY <1>6, <3>2 DEF HandleCall, Reply
            <4> QED
                BY <2>2, <2>3, <2>6, <4>1 DEF Once, Methods
        <3> QED
            BY <3>1, <3>2
    <2>9. \A d \in Calls : state[d] = "returned" => ran'[d] = 1
        BY <2>2, <2>3 DEF Once
    <2> QED
        BY <2>1, <2>2, <2>3, <2>5, <2>6, <2>7, <2>8, <2>9 DEF Once, Methods
<1>7. CASE RestartServer \/ UNCHANGED vars
    <2>1. UNCHANGED <<current, net, state, ran, answer>>
        BY <1>7 DEF RestartServer, vars, server
    <2> QED
        BY <2>1 DEF Once, Unsent
<1>8. CASE RestartGateway
    <2>1. current'.pc = "idle" /\ UNCHANGED <<net, ran>>
        BY <1>8, Methodical DEF RestartGateway, server
    <2>2. \A c \in Calls : state'[c] \in {"none", "returned"} => state'[c] = state[c]
        BY <1>8 DEF RestartGateway
    <2> QED
        BY <2>1, <2>2 DEF Once, Unsent
<1> QED
    BY <1>1, <1>2, <1>3, <1>4, <1>5, <1>6, <1>7, <1>8 DEF Next

LEMMA Invariant == Spec => []Inv
<1>1. Init => Inv
    <2>1. Init => Types /\ Turn
        BY TypesInit, TurnStarts
    <2>2. Init => Handshake /\ Once
        BY Methodical DEF Init, NewClient, Handshake, Once, Unsent
    <2> QED
        BY <2>1, <2>2 DEF Inv
<1>2. Inv /\ [Next]_vars => Inv'
    BY TypesStep, TurnStep, HandshakeStep, OnceStep DEF Inv
<1> QED
    BY <1>1, <1>2, PTL DEF Spec
-----------------------------------------------------------------------------

\* A tools/call travels only in a session that has completed its handshake, unless the
\* server forgot it in a restart, whatever was lost or late during the handshake
\* (_ensure_initialized).
THEOREM CallsAreReady == Spec => []CallsAreInReadySessions
<1>1. Inv => CallsAreInReadySessions
    BY DEF Inv, Handshake, Good, CallsAreInReadySessions, ServerForgot, Known
<1> QED
    BY <1>1, Invariant, PTL

\* Each step of the client, of the server or of the network is a step of BackendCall
\* or changes nothing that it is about: an invocation runs at most once, and it
\* returned only if it ran (call_tool, _post).
THEOREM CallsAreBackendCalls == Spec => Backend!CallSafety
<1> USE DEF Backend!callVars
<1>1. Init => Backend!CallInit
    BY DEF Init, Backend!CallInit
<1>2. Inv /\ [Next]_vars => [Backend!CallNext]_(Backend!callVars)
    <2> SUFFICES ASSUME Types, Turn, Once, [Next]_vars PROVE [Backend!CallNext]_(Backend!callVars)
        BY DEF Inv
    <2> USE DEF Backend!CallNext
    <2>1. ASSUME NEW c \in Calls, Invoke(c) PROVE Backend!Call(c)
        BY <2>1 DEF Invoke, server, Backend!Call
    <2>2. CASE Return
        <3>1. current.call \in Calls /\ Waiting
            BY <2>2, Awaited DEF Return, Waiting
        <3>2. Backend!Return(current.call)
            BY <2>2, <3>1 DEF Return, Finish, server, Turn, Once, Backend!Return
        <3> QED
            BY <3>1, <3>2
    <2>3. CASE Refuse \/ TimeOut
        <3>1. current.call \in Calls /\ Waiting
            BY <2>3, Awaited DEF Refuse, TimeOut
        <3>2. Backend!Fail(current.call)
            BY <2>3, <3>1 DEF Refuse, TimeOut, Finish, server, Turn, Backend!Fail
        <3> QED
            BY <3>1, <3>2
    <2>4. ASSUME NEW m \in net, HandleCall(m) PROVE [Backend!CallNext]_(Backend!callVars)
        <3>1. m.call \in Calls /\ m.method = "tools/call" /\ ran[m.call] = 0 /\ state' = state
            BY <2>4 DEF HandleCall, Types, Message, Once
        <3>2. state[m.call] \in {"called", "failed"}
            BY <3>1 DEF Once, Unsent, Types
        <3>3. CASE ran' = ran
            BY <3>1, <3>3
        <3>4. CASE ran' = [ran EXCEPT ![m.call] = @ + 1]
            <4>1. Backend!Run(m.call)
                BY <3>1, <3>2, <3>4 DEF Backend!Run
            <4> QED
                BY <3>1, <4>1
        <3> QED
            BY <2>4, <3>3, <3>4 DEF HandleCall
    <2>5. CASE RestartGateway
        <3>1. /\ ran' = ran
              /\ state' = [c \in Calls |-> IF state[c] = "called" THEN "failed" ELSE state[c]]
            BY <2>5 DEF RestartGateway, server
        <3>2. CASE Waiting
            <4>1. current.call \in Calls /\ state[current.call] = "called"
                BY <3>2, Awaited DEF Turn
            <4>2. state' = [state EXCEPT ![current.call] = "failed"]
                BY <3>1, <4>1 DEF Turn, Types
            <4>3. Backend!Fail(current.call)
                BY <3>1, <4>1, <4>2 DEF Backend!Fail
            <4> QED
                BY <4>1, <4>3
        <3>3. CASE ~Waiting
            <4>1. state' = state
                BY <3>1, <3>3 DEF Turn, Types
            <4> QED
                BY <3>1, <4>1
        <3> QED
            BY <3>2, <3>3
    <2>6. CASE \/ OpenSession \/ CompleteHandshake \/ RestartServer \/ UNCHANGED vars
               \/ \E m \in net : HandleInitialize(m) \/ HandleInitialized(m) \/ Lose(m)
        BY <2>6 DEF OpenSession, CompleteHandshake, RestartServer, HandleInitialize, HandleInitialized,
                    Lose, vars, server
    <2> QED
        BY <2>1, <2>2, <2>3, <2>4, <2>5, <2>6 DEF Next
<1> QED
    BY <1>1, <1>2, Invariant, PTL DEF Spec, Backend!CallSafety
=============================================================================
