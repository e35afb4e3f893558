----------------------------- MODULE McpSession ------------------------------
(* The gateway's client of an MCP server over HTTP                         *)
(* (tools_gateway/backends/mcp_shim.py): a handshake once per process,     *)
(* then one tools/call per invocation, in the session that the handshake   *)
(* opened.  Nothing is retried, and the handshake is never repeated once   *)
(* it succeeded.                                                           *)
(*                                                                         *)
(* The handlers call the client without await, so one request is waited    *)
(* for at a time; requests that were given up may still reach the server.  *)
(* The server is external: sessions live in its memory.                    *)
(***************************************************************************)
EXTENDS Naturals, FiniteSets

CONSTANTS
    Calls,              \* invocations of one tool of this backend
    NoCall, NoSession,
    MaxServerRestarts, MaxGatewayRestarts       \* bounds

ASSUME CallAssumption == NoCall \notin Calls /\ NoSession \notin Nat
ASSUME BoundAssumption == {MaxServerRestarts, MaxGatewayRestarts} \subseteq Nat

VARIABLES
    client,     \* _session_id, _initialized of the entry in _clients
    current,    \* [pc, call]: the request _post waits for, and its invocation
    net,        \* requests on their way: [id, method, session, call]
    answer,     \* what came back for the current request
    lastId,     \* requests sent so far, _request_id and the notifications
    sessions,   \* server: session -> whether its handshake is complete
    opened,     \* server: sessions opened so far
    state, ran, \* call -> how it stands, how often the tool ran for it
    restarts    \* [server, gateway]

server == <<sessions, opened, ran>>
vars == <<client, current, net, answer, lastId, server, state, restarts>>

NewClient == [session |-> NoSession, initialized |-> FALSE]
Idle == [pc |-> "idle", call |-> NoCall, id |-> 0]
NoAnswer == [kind |-> "none"]
-----------------------------------------------------------------------------
(* The client.                                                             *)

Waiting == current.pc # "idle"

\* _post: the session goes along, except with `initialize`.
Send(method, session, call) ==
    /\ lastId' = lastId + 1
    /\ net' = net \cup {[id |-> lastId + 1, method |-> method, session |-> session, call |-> call]}
    /\ current' = [pc |-> method, call |-> call, id |-> lastId + 1]
    /\ answer' = NoAnswer

Finish(outcome) ==
    /\ state' = [state EXCEPT ![current.call] = outcome]
    /\ current' = Idle
    /\ answer' = NoAnswer

\* invoke_mcp_backend, call_tool, _ensure_initialized
Invoke(c) ==
    /\ ~Waiting
    /\ state[c] = "none"
    /\ state' = [state EXCEPT ![c] = "called"]
    /\ IF client.initialized THEN Send("tools/call", client.session, c)
       ELSE Send("initialize", NoSession, c)
    /\ UNCHANGED <<client, server, restarts>>

\* Mutant: a session counts as initialised when it is opened.
OpenSession_Ready ==
    /\ current.pc = "initialize" /\ answer.kind = "ok"
    /\ client' = [session |-> answer.session, initialized |-> TRUE]
    /\ Send("notifications/initialized", answer.session, current.call)
    /\ UNCHANGED <<server, state, restarts>>

OpenSession ==
    /\ current.pc = "initialize" /\ answer.kind = "ok"
    /\ client' = [client EXCEPT !.session = answer.session]
    /\ Send("notifications/initialized", answer.session, current.call)
    /\ UNCHANGED <<server, state, restarts>>

\* Only now is the handshake complete for later calls.
CompleteHandshake ==
    /\ current.pc = "notifications/initialized" /\ answer.kind = "ok"
    /\ client' = [client EXCEPT !.initialized = TRUE]
    /\ Send("tools/call", client.session, current.call)
    /\ UNCHANGED <<server, state, restarts>>

Return ==
    /\ current.pc = "tools/call" /\ answer.kind = "ok"
    /\ Finish("returned")
    /\ UNCHANGED <<client, net, lastId, server, restarts>>

\* An HTTP or JSON-RPC error, isError, an empty body, no JSON: all end the call.  The
\* session of the headers is taken over before the body is looked at.
Refuse ==
    /\ Waiting /\ answer.kind \in {"refused", "unusable"}
    /\ client' = IF current.pc = "initialize" THEN [client EXCEPT !.session = answer.session]
                 ELSE client
    /\ Finish("failed")
    /\ UNCHANGED <<net, lastId, server, restarts>>

\* Mutant: a tools/call that timed out is sent once more.
TimeOut_Resends ==
    /\ Waiting
    /\ IF current.pc = "tools/call" /\ lastId < 4
       THEN /\ Send("tools/call", client.session, current.call)
            /\ UNCHANGED state
       ELSE /\ Finish("failed")
            /\ UNCHANGED <<net, lastId>>
    /\ UNCHANGED <<client, server, restarts>>

\* The request, the server or the answer took too long, or the connection broke.
TimeOut ==
    /\ Waiting
    /\ Finish("failed")
    /\ UNCHANGED <<client, net, lastId, server, restarts>>
-----------------------------------------------------------------------------
(* The server, and what happens to both.                                   *)

Known(s) == s \in DOMAIN sessions

Reply(m, reply) == answer' = IF m.id = current.id THEN reply ELSE answer

Deliver(m) == net' = net \ {m}

HandleInitialize(m) ==
    /\ m.method = "initialize"
    /\ Deliver(m)
    /\ opened' = opened + 1
    /\ sessions' = [s \in DOMAIN sessions \cup {opened'} |-> Known(s) /\ sessions[s]]
    /\ \E kind \in {"ok", "unusable"} : Reply(m, [kind |-> kind, session |-> opened'])
    /\ UNCHANGED <<client, current, lastId, ran, state, restarts>>

HandleInitialized(m) ==
    /\ m.method = "notifications/initialized"
    /\ Deliver(m)
    /\ sessions' = [s \in DOMAIN sessions |-> sessions[s] \/ s = m.session]
    /\ Reply(m, [kind |-> IF Known(m.session) THEN "ok" ELSE "refused"])
    /\ UNCHANGED <<client, current, lastId, opened, ran, state, restarts>>

\* The tool runs, or raises, only in a session whose handshake is complete.
HandleCall(m) ==
    /\ m.method = "tools/call"
    /\ Deliver(m)
    /\ IF Known(m.session) /\ sessions[m.session]
       THEN /\ ran' = [ran EXCEPT ![m.call] = @ + 1]
            /\ \E kind \in {"ok", "unusable"} : Reply(m, [kind |-> kind])
       ELSE /\ Reply(m, [kind |-> "refused"])
            /\ UNCHANGED ran
    /\ UNCHANGED <<client, current, lastId, sessions, opened, state, restarts>>

Lose(m) ==
    /\ Deliver(m)
    /\ UNCHANGED <<client, current, lastId, server, answer, state, restarts>>

RestartServer ==
    /\ restarts.server < MaxServerRestarts
    /\ restarts' = [restarts EXCEPT !.server = @ + 1]
    /\ sessions' = << >>
    /\ UNCHANGED <<client, current, net, lastId, opened, ran, answer, state>>

RestartGateway ==
    /\ restarts.gateway < MaxGatewayRestarts
    /\ restarts' = [restarts EXCEPT !.gateway = @ + 1]
    /\ client' = NewClient
    /\ current' = Idle
    /\ answer' = NoAnswer
    /\ state' = [c \in Calls |-> IF state[c] = "called" THEN "failed" ELSE state[c]]
    /\ UNCHANGED <<net, lastId, server>>
-----------------------------------------------------------------------------
Init ==
    /\ client = NewClient
    /\ current = Idle
    /\ net = {}
    /\ answer = NoAnswer
    /\ lastId = 0
    /\ sessions = << >>
    /\ opened = 0
    /\ state = [c \in Calls |-> "none"]
    /\ ran = [c \in Calls |-> 0]
    /\ restarts = [server |-> 0, gateway |-> 0]

Next ==
    \/ \E c \in Calls : Invoke(c)
    \/ OpenSession \/ CompleteHandshake \/ Return \/ Refuse \/ TimeOut
    \/ \E m \in net :
         HandleInitialize(m) \/ HandleInitialized(m) \/ HandleCall(m) \/ Lose(m)
    \/ RestartServer \/ RestartGateway

Spec == Init /\ [][Next]_vars

\* httpx gives up after its timeout, and the handler goes on with what it got.
FairSpec == Spec /\ WF_vars(TimeOut)
-----------------------------------------------------------------------------
(* Properties.                                                             *)

\* Sessions opened before the server last restarted: opened counts on.
ServerForgot(s) == s \notin DOMAIN sessions

\* A tools/call travels only in a session that has completed its handshake, unless
\* the server forgot the session in a restart: no lost or late answer during the
\* handshake leaves a client behind that calls in a half-open session
\* (_ensure_initialized sets _initialized last).
CallsAreInReadySessions ==
    \A m \in net : m.method = "tools/call" =>
      \/ Known(m.session) /\ sessions[m.session]
      \/ restarts.server > 0 /\ ServerForgot(m.session)

\* Whatever is lost, late or restarted, an invocation is the call that the gateway
\* relies on: it runs at most once, it returned only if it ran, and it ends
\* (call_tool posts each request once, under a timeout).
Backend == INSTANCE BackendCall WITH Calls <- Calls, state <- state, ran <- ran
ImplementsBackendCall == Backend!CallSpec
==============================================================================
