----------------------------- MODULE OperatorViews -----------------------------
(***************************************************************************)
(* Callers and operators on the extraction monitor: the tokens of Access   *)
(* in front of the routes that feed and read ExtractionMonitor.            *)
(***************************************************************************)
EXTENDS ExtractionMonitor

CONSTANTS
    Tokens,         \* [id, signer, user, groups, tenant, claims]
    AclTexts,       \* what the ACL file may say
    Directory,      \* sets of groups a SCIM directory may give a user
    Groups, ApiKey, DefaultTenant, NoToken, NoTenant, Everywhere, Nobody

VARIABLES acl, scim

INSTANCE Access

\* What the files and the directory name exists: users, groups, tenants.
ASSUME TokensAssumption ==
    Tokens \subseteq [id : STRING, signer : {"none", "jwt", "idp"}, user : Users,
                     groups : SUBSET Groups, tenant : Tenants \cup {NoTenant}, claims : BOOLEAN]
ASSUME AclAssumption ==
    AclTexts \subseteq
      [demo : SUBSET [token : STRING, user : Users, groups : SUBSET Groups,
                      tenant : Tenants \cup {NoTenant}],
       admins : SUBSET [token : STRING, user : Users, roles : SUBSET STRING,
                        tenant : Tenants \cup {NoTenant}],
       default : SUBSET Groups, inherits : [Groups -> SUBSET Groups],
       roleMap : [Roles -> SUBSET Groups], allTenants : SUBSET Groups,
       jwt : BOOLEAN, idp : BOOLEAN, jwks : BOOLEAN, useScim : BOOLEAN, scimSource : BOOLEAN]
ASSUME NamesAssumption ==
    /\ Directory \subseteq SUBSET Groups /\ "all-staff" \in Groups
    /\ DefaultTenant \in Tenants /\ NoTenant \notin Tenants

access == <<acl, scim>>
allVars == <<vars, access>>

\* POST /v1/query: the subject is the one the token names.
Query(t, docs) ==
    LET auth == ResolveAuth(t)
    IN /\ auth # Nobody
       /\ Observe([tenant |-> auth.tenant, user |-> auth.user], docs)
       /\ UNCHANGED access

\* GET /admin/extraction/watch
Look(t) ==
    /\ MayAct(t, "audit_reader")
    /\ Watch(AllowedTenants(Scope(t), Tenants))
    /\ UNCHANGED access

\* POST /admin/reload-policy loads the ACL after the policy.
ReloadPolicy(rules, text) ==
    /\ \E t \in Tokens : MayAct(t, "policy_admin")
    /\ Reload(rules)
    /\ ReloadAcl(text)

\* The enterprise package polls the directory.
PollScim(u, groups) ==
    /\ SyncScim(u, groups)
    /\ Change
    /\ UNCHANGED <<windows, config, now, past, floor, queries>>

InitViews ==
    /\ Init
    /\ acl \in {LoadAcl(text) : text \in AclTexts}
    /\ scim = [u \in Users |-> {}]

NextViews ==
    \/ \E t \in Tokens, docs \in Retrievals : Query(t, docs)
    \/ \E t \in Tokens : Look(t)
    \/ \E rules \in RuleSets, text \in AclTexts : ReloadPolicy(rules, text)
    \/ \E u \in Users, groups \in Directory : PollScim(u, groups)
    \/ (Restart \/ World) /\ UNCHANGED access

SpecViews == InitViews /\ [][NextViews]_allVars
-----------------------------------------------------------------------------
(* Properties.                                                             *)

\* The three ways in which routes ask for an operator's tenants agree: what the
\* watch list is cut to (admin_allowed_tenant_ids), what the document and canary
\* routes let pass (admin_can_access_tenant) and what the audit routes filter by
\* (admin_effective_tenant_filter), whatever tenant the operator asks for.
TenantChecksAgree ==
    \A t \in Tokens, role \in Roles : MayAct(t, role) =>
      LET s == Scope(t)
      IN /\ s = Everywhere <=> TenantFilter(s, NoTenant) = NoTenant
         /\ \A x \in Tenants :
              /\ CanAccessTenant(s, x) <=> x \in AllowedTenants(s, Tenants)
              /\ CanAccessTenant(s, x) <=> TenantFilter(s, x) = x

\* A caller has the groups that the token, the file or the directory names, and
\* beyond them only what the hierarchy gives for these (_expand_groups,
\* _merge_scim_groups).  These are bounds and not an equality: the code expands one
\* level, and one more when the directory adds groups, not the closure.
GroupsAreInherited ==
    \A t \in Tokens : ResolveAuth(t) # Nobody =>
      LET auth == ResolveAuth(t)
          listed == {u \in acl.demo : u.token = t.id}
          named == IF listed # {} THEN (CHOOSE u \in listed : TRUE).groups ELSE t.groups
          base == (IF named = {} THEN acl.default ELSE named)
                    \cup (IF acl.useScim THEN scim[auth.user] ELSE {})
      IN base \subseteq auth.groups /\ auth.groups \subseteq Inherited(base)
================================================================================
