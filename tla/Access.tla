-------------------------------- MODULE Access --------------------------------
(***************************************************************************)
(* Who a bearer token stands for: the caller's groups and tenant (acl.py), *)
(* the operator's roles and tenants (admin_auth.py), the guards of the     *)
(* routes (app.py) and the loading of the ACL file (config.py).            *)
(*                                                                         *)
(* A token is a record of what its signature, if any, vouches for; a text  *)
(* of the ACL file is a record of its entries.                             *)
(***************************************************************************)
EXTENDS Naturals, FiniteSets

CONSTANTS
    Groups,
    ApiKey,         \* the token RAG_ADMIN_API_KEY, or NoToken
    DefaultTenant,  \* "default"
    NoToken, NoTenant, Everywhere, Nobody

Roles == {"policy_admin", "audit_reader", "audit_debug_reader", "ingest_admin"}

VARIABLES
    acl,    \* app.state.acl
    scim    \* the SCIM cache: user -> groups, {} for none
-----------------------------------------------------------------------------
\* load_acl_policy: OIDC without a key set and SCIM without a source are off,
\* entries without a tenant get the default one, operators without one get all.
LoadAcl(text) ==
    [text EXCEPT !.idp = @ /\ text.jwks, !.useScim = @ /\ text.scimSource,
                 !.default = IF @ = {} THEN {"all-staff"} ELSE @,
                 !.demo = {IF u.tenant = NoTenant THEN [u EXCEPT !.tenant = DefaultTenant] ELSE u
                             : u \in text.demo}]

\* Mutant: what a group inherits from is added instead of what it inherits.
ExpandGroups_Reversed(groups) ==
    LET base == IF groups = {} THEN acl.default ELSE groups
    IN base \cup {g \in Groups : acl.inherits[g] \cap base # {}}

\* _expand_groups: one level of the hierarchy.
ExpandGroups(groups) ==
    LET base == IF groups = {} THEN acl.default ELSE groups
    IN base \cup UNION {acl.inherits[g] : g \in base}

\* _merge_scim_groups expands once more when the directory adds something.
MergeScimGroups(user, groups) ==
    IF acl.useScim /\ scim[user] # {} THEN ExpandGroups(groups \cup scim[user]) ELSE groups

Context(user, groups, tenant) ==
    [user |-> user, groups |-> MergeScimGroups(user, ExpandGroups(groups)), tenant |-> tenant]

\* jwt.decode accepts the token under the secret or the key set in force.
Vouched(t, signer) == t.signer = signer /\ IF signer = "idp" THEN acl.idp ELSE acl.jwt
ClaimedTenant(t) == IF t.tenant = NoTenant THEN DefaultTenant ELSE t.tenant

\* resolve_auth: the listed users, the identity provider, the shared secret.
ResolveAuth(t) ==
    LET listed == {u \in acl.demo : u.token = t.id}
    IN IF listed # {}
       THEN LET u == CHOOSE u \in listed : TRUE IN Context(u.user, u.groups, u.tenant)
       ELSE IF Vouched(t, "idp") \/ Vouched(t, "jwt")
       THEN Context(t.user, t.groups, ClaimedTenant(t))
       ELSE Nobody

\* _admin_roles_from_idp_groups, _tenant_scope_from_claims
MappedRoles(groups) == {r \in Roles : acl.roleMap[r] \cap groups # {}}
ClaimedScope(t, groups) ==
    IF groups \cap acl.allTenants # {} \/ ~t.claims THEN Everywhere ELSE ClaimedTenant(t)

\* resolve_admin: listed operators, the API key, then the same two kinds of
\* signed tokens, which count when the role map gives one of their groups a role.
ResolveAdmin(t) ==
    LET listed == {u \in acl.admins : u.token = t.id}
        groups == ExpandGroups(t.groups)
        signed == Vouched(t, "idp") \/ Vouched(t, "jwt")
    IN CASE listed # {} ->
              LET u == CHOOSE u \in listed : TRUE
              IN [user |-> u.user, roles |-> u.roles \cap Roles,
                  scope |-> IF u.tenant = NoTenant THEN Everywhere ELSE u.tenant]
         [] listed = {} /\ t.id = ApiKey ->
              [user |-> ApiKey, roles |-> Roles, scope |-> Everywhere]
         [] listed = {} /\ t.id # ApiKey /\ signed /\ MappedRoles(groups) # {} ->
              [user |-> t.user, roles |-> MappedRoles(groups), scope |-> ClaimedScope(t, groups)]
         [] OTHER -> Nobody

\* _require_admin_role: without a key and without operators the routes are open.
Unguarded == ApiKey = NoToken /\ acl.admins = {}
MayAct(t, role) ==
    Unguarded \/ (ResolveAdmin(t) # Nobody /\ role \in ResolveAdmin(t).roles)
Scope(t) == IF Unguarded THEN Everywhere ELSE ResolveAdmin(t).scope

\* admin_allowed_tenant_ids, admin_can_access_tenant, admin_effective_tenant_filter
AllowedTenants(scope, known) ==
    IF scope = Everywhere THEN known \cup {DefaultTenant} ELSE {scope}
CanAccessTenant(scope, tenant) == scope = Everywhere \/ tenant = scope

\* Mutant: the filter that was asked for wins over the scope.
TenantFilter_Requested(scope, requested) ==
    IF requested # NoTenant THEN requested
    ELSE IF scope = Everywhere THEN NoTenant ELSE scope
TenantFilter(scope, requested) == IF scope = Everywhere THEN requested ELSE scope
-----------------------------------------------------------------------------
ReloadAcl(text) == acl' = LoadAcl(text) /\ UNCHANGED scim
SyncScim(user, groups) == scim' = [scim EXCEPT ![user] = groups] /\ UNCHANGED acl
-----------------------------------------------------------------------------
\* Reference: all that the hierarchy gives somebody with these groups, the least
\* set that holds them and whatever its members inherit.
Inherited(groups) ==
    LET closed == {S \in SUBSET Groups : \A g \in S : acl.inherits[g] \subseteq S}
    IN {g \in Groups : \A S \in closed : groups \subseteq S => g \in S}
===============================================================================
