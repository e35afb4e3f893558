---------------------------- MODULE MCAuditViews -----------------------------
(* A small instance of AuditViews: one kind is kept a tick longer.         *)
EXTENDS AuditViews

mcTtl == [k \in EventKinds |-> IF k = Completed THEN 0 ELSE 1]
TenantSymmetry == Permutations(Tenants)
==============================================================================
