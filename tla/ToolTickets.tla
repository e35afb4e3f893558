---------------------------- MODULE ToolTickets ------------------------------
(* What the tool gateway promises of an invocation.  It is refused, or its *)
(* call is sent to the backend at once and no more than once, or it waits  *)
(* for an operator, whose every approval is good for one call.  Once       *)
(* closed it stays closed: it is not sent, does not come back to the queue *)
(* and is not asked for again under its name.  A call that was sent runs   *)
(* at most once, at once or later: nothing recalls it.                     *)
(***************************************************************************)
EXTENDS Naturals

CONSTANT Ids

VARIABLES
    state,      \* invocation -> "new" | "running" | "held" | "closed"
    approvals,  \* invocation -> how often an operator approved it
    sent,       \* invocation -> how often its call went to the backend
    runs        \* invocation -> how often its backend did the work

ticketVars == <<state, approvals, sent, runs>>

Become(i, s) ==
    /\ state' = [state EXCEPT ![i] = s]
    /\ UNCHANGED <<approvals, sent, runs>>

\* Refused, held, or let through to its backend.
Ask(i) == state[i] = "new" /\ \E s \in {"closed", "held", "running"} : Become(i, s)

Approve(i) ==
    /\ state[i] = "held"
    /\ approvals' = [approvals EXCEPT ![i] = @ + 1]
    /\ UNCHANGED <<state, sent, runs>>

\* A local backend has done the work when the call comes back.
Send(i) ==
    /\ \/ state[i] = "running" /\ sent[i] = 0
       \/ state[i] = "held" /\ sent[i] < approvals[i]
    /\ sent' = [sent EXCEPT ![i] = @ + 1]
    /\ \E n \in 0..1 : runs' = [runs EXCEPT ![i] = @ + n]
    /\ UNCHANGED <<state, approvals>>

\* Whatever has become of the invocation in the meantime.
Run(i) ==
    /\ runs[i] < sent[i]
    /\ runs' = [runs EXCEPT ![i] = @ + 1]
    /\ UNCHANGED <<state, approvals, sent>>

\* Answered, denied, dropped, or cut off by the end of the process.
Close(i) == state[i] \in {"running", "held"} /\ Become(i, "closed")

TicketInit ==
    /\ state = [i \in Ids |-> "new"]
    /\ approvals = [i \in Ids |-> 0]
    /\ sent = [i \in Ids |-> 0]
    /\ runs = [i \in Ids |-> 0]

TicketNext == \E i \in Ids : Ask(i) \/ Approve(i) \/ Send(i) \/ Run(i) \/ Close(i)

TicketSpec == TicketInit /\ [][TicketNext]_ticketVars
==============================================================================
