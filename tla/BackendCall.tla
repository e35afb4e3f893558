----------------------------- MODULE BackendCall -----------------------------
(* What the tool gateway may rely on when it calls a backend: a call runs  *)
(* at most once, one that returned has run, and every call ends.  One that *)
(* failed may have run, or may yet run.                                    *)
EXTENDS Naturals

CONSTANT Calls

VARIABLES
    state,      \* call -> "none" | "called" | "returned" | "failed"
    ran         \* call -> how often the tool ran for it

callVars == <<state, ran>>

Call(c) ==
    /\ state[c] = "none"
    /\ state' = [state EXCEPT ![c] = "called"]
    /\ UNCHANGED ran

\* Also after its caller has given up.
Run(c) ==
    /\ state[c] \in {"called", "failed"}
    /\ ran[c] = 0
    /\ ran' = [ran EXCEPT ![c] = 1]
    /\ UNCHANGED state

Return(c) ==
    /\ state[c] = "called"
    /\ ran[c] = 1
    /\ state' = [state EXCEPT ![c] = "returned"]
    /\ UNCHANGED ran

Fail(c) ==
    /\ state[c] = "called"
    /\ state' = [state EXCEPT ![c] = "failed"]
    /\ UNCHANGED ran

CallInit ==
    /\ state = [c \in Calls |-> "none"]
    /\ ran = [c \in Calls |-> 0]

CallNext == \E c \in Calls : Call(c) \/ Run(c) \/ Return(c) \/ Fail(c)

\* What may happen, and, with the fairness, that every call ends.
CallSafety == CallInit /\ [][CallNext]_callVars
CallSpec == CallSafety /\ \A c \in Calls : WF_callVars(Return(c) \/ Fail(c))
==============================================================================
