--------------------------- MODULE MCAuditDelivery ---------------------------
(* A small instance of AuditDelivery.                                      *)
EXTENDS AuditDelivery

Event(kind, decision, notable) ==
    [kind |-> kind, decision |-> decision, notable |-> notable]
mcShapes == {Event("connector_sync", "allow", FALSE), Event("connector_sync", "allow", TRUE),
             Event("scan_input", "allow", FALSE), Event("scan_input", "block", FALSE)}

Rules(every) ==
    [k \in Kinds |-> IF k = "connector_sync" THEN [when |-> {"allow"}, every |-> every]
                     ELSE [when |-> {"allow"}, every |-> 0]]
mcPolicies == {Rules(2), Rules(3), [k \in Kinds |-> NoRule]}
==============================================================================
