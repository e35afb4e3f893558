---------------------------- MODULE MCOperatorViews ----------------------------
(* A small instance of OperatorViews.                                      *)
EXTENDS OperatorViews

\* A file that judges two queries of the last tick, one that remembers longer.
short == [enabled |-> TRUE, window |-> 0, full |-> 2, corpus |-> 2, elevated |-> 50,
          severe |-> 100, breadth |-> 150, novelty |-> 100, action |-> "throttle"]
long == [short EXCEPT !.window = 1, !.action = "alert", !.corpus = 3]
mcRules == {short, long}
mcFiles == {[t \in Tenants |-> NoFile], [t \in Tenants |-> IF t = "acme" THEN long ELSE NoFile]}
mcDirectory == {{}, {"leads"}}
mcRetrievals == {{"d1"}, {"d2"}}

Token(id, signer, user, groups, tenant) ==
    [id |-> id, signer |-> signer, user |-> user, groups |-> groups, tenant |-> tenant,
     claims |-> tenant # NoTenant]

\* A listed user; the same name signed in at another tenant, once with an
\* operator's group; a listed operator.
mcTokens == {
    Token("ann", "none", "ann", {}, NoTenant),
    Token("jwt", "jwt", "ann", {}, "acme"),
    Token("idp", "idp", "ann", {"leads"}, "acme"),
    Token("key", "none", "ops", {}, NoTenant)}

full == [demo |-> {[token |-> "ann", user |-> "ann", groups |-> {"leads"}, tenant |-> NoTenant]},
         admins |-> {[token |-> "key", user |-> "ops", roles |-> Roles, tenant |-> NoTenant]},
         default |-> {}, jwt |-> TRUE, idp |-> TRUE, jwks |-> TRUE,
         inherits |-> [g \in Groups |-> CASE g = "leads" -> {"staff"}
                                          [] g = "staff" -> {"all-staff"} [] OTHER -> {}],
         roleMap |-> [r \in Roles |-> IF r = "audit_reader" THEN {"staff"} ELSE {}],
         allTenants |-> {}, useScim |-> TRUE, scimSource |-> TRUE]
mcAcls == {full,
    [full EXCEPT !.admins = {[token |-> "key", user |-> "ops", roles |-> Roles, tenant |-> "acme"]},
                 !.demo = {}, !.scimSource = FALSE, !.allTenants = {"staff"}]}
================================================================================
