----------------------------- MODULE MCAuditLog -----------------------------
(* Small instances of AuditLog.                                            *)
EXTENDS AuditLog, TLC

Old == [ev |-> 0, kind |-> "scan_input", decision |-> "allow", debug |-> TRUE]
Preview == [ev |-> 1, kind |-> "scan_input", decision |-> "allow", debug |-> TRUE]
Blocked == [ev |-> 2, kind |-> "scan_input", decision |-> "block", debug |-> FALSE]
mcEvents == {Old, Preview, Blocked}
mcLegacy == {Old, Blocked}

mcDefault ==
    [chain |-> FALSE, keep |-> 1, days |-> 1, by_kind |-> [k \in Kinds |-> NoDays],
     by_decision |-> [d \in Decisions |-> NoDays], debug_ticks |-> 2]
\* previews go within the day, blocks stay two days
Chained == [mcDefault EXCEPT !.chain = TRUE, !.keep = 2, !.debug_ticks = 1,
                             !.by_decision["block"] = 2]
\* nothing expires
Eternal == [mcDefault EXCEPT !.days = 0, !.debug_ticks = 0]
mcPolicies == {Chained, Eternal}
mcChained == {Chained}
mcNone == {}
=============================================================================
