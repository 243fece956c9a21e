------------------------ MODULE OrganizationController ------------------------
(* The Organization controller: the objects of an organization, its entries   *)
(* in dex, the identity provider all organizations share, and the credentials *)
(* of its service proxy.  There is one worker, so one pass at a time; users,  *)
(* the caches and the other controllers go on between its steps.  That the    *)
(* object itself is read from a cache is the subject of Lifecycle.            *)
EXTENDS Mishaps, Sequences, SequencesExt, FiniteSets

CONSTANTS Orgs,      \* names of organizations
          Default    \* the one called "greenhouse", whose dex client serves all

\* No organization is called like a redirect of a user, or like no redirect at all.
ASSUME OrgsAssumption ==
    /\ Default \in Orgs
    /\ IsFiniteSet(Orgs) /\ Orgs \cap {"none", "custom"} = {}

VARIABLES
    org,        \* the Organizations
    orgQueue,   \* organizations waiting for a pass
    orgPass,    \* the running pass
    owned,      \* per organization: how many of the groups of objects exist
    dex,        \* connectors, clients, and the clients of the service proxies
    secret,     \* per organization: the internal Secret ...
    cached,     \* ... and what the cache shows of it
    plugins,    \* organizations with a service-proxy Plugin
    proxyDef,   \* the ClusterPluginDefinition service-proxy exists
    scim        \* the SCIM API: "up", "down", or without the admin group

orgVars == <<org, orgQueue, orgPass, owned, dex, secret, cached, plugins, proxyDef, scim>>

\* The work queue: first in, first out, without duplicates.
Enqueue(o) == IF o \in ToSet(orgQueue) THEN orgQueue ELSE Append(orgQueue, o)
EnqueueAll == LET more == {o \in Orgs \ ToSet(orgQueue) : org[o].state \in {"live", "deleting"}}
              IN  orgQueue \o SetToSeq(more)

Idle == [at |-> "idle"]
Live(o) == org[o].state = "live"
Stages == {"cleanup", "foundation", "dex", "serviceProxy", "status"}
Conditions == {"namespace", "rbac", "teamRoles", "oidc", "adminTeam", "serviceProxy"}

\* Redirect URIs: the dashboard of an organization, or one that a user configures.
Custom == "custom"
Redirects == Orgs \cup {Custom}
NoClient == {"none"}

Spec0 == [oidc |-> TRUE, custom |-> TRUE, scim |-> FALSE]
NewOrg == [state |-> "live", spec |-> Spec0, scimAPI |-> "nil", ready |-> "nil",
           false |-> {}]

------------------------------------------------------------------------------
(* What every organization has, in the order in which it is created.          *)

reconcileNamespace == {"Namespace"}

\* Roles and bindings for the user groups of the organization, on the cluster and
\* in the namespace; cluster admins and plugin admins get theirs through TeamRoles.
reconcileClusterRole(group) == <<"ClusterRole", group>>
reconcileClusterRoleBinding(group) == <<"ClusterRoleBinding", group>>
reconcileRole(group) == <<"Role", group>>
reconcileRoleBinding(group) == <<"RoleBinding", group>>
reconcileRBAC ==
    UNION {{reconcileClusterRole(group), reconcileClusterRoleBinding(group),
            reconcileRole(group), reconcileRoleBinding(group)} : group \in {"admin", "member"}}
    \cup {reconcileRole("clusterAdmin"), reconcileRole("pluginAdmin")}

\* Permissions for Flux to apply the definitions of Catalogs: cluster-wide only for
\* the default organization.
reconcileCatalogServiceAccount == <<"ServiceAccount", "catalog">>
reconcileCatalogClusterRole == <<"ClusterRole", "catalog">>
reconcileCatalogClusterRoleBinding == <<"ClusterRoleBinding", "catalog">>
reconcileCatalogRole == <<"Role", "catalog">>
reconcileCatalogRoleBinding == <<"RoleBinding", "catalog">>
reconcileCatalogPermissions(o) ==
    {reconcileCatalogServiceAccount} \cup
        IF o = Default
        THEN {reconcileCatalogClusterRole, reconcileCatalogClusterRoleBinding}
        ELSE {reconcileCatalogRole, reconcileCatalogRoleBinding}

defaultTeamRoles == {"cluster-admin", "cluster-viewer", "cluster-developer",
                     "application-developer", "node-maintainer", "namespace-creator"}
reconcileDefaultTeamRoles == {<<"TeamRole", name>> : name \in defaultTeamRoles}

\* The groups of objects and the condition that speaks of each.  A pass that fails
\* within a group has made some of it, which is not told apart from none.
Groups(o) == <<reconcileNamespace, reconcileRBAC, reconcileCatalogPermissions(o),
               reconcileDefaultTeamRoles>>
GroupCondition == <<"namespace", "rbac", "rbac", "teamRoles">>

------------------------------------------------------------------------------
(* dex.                                                                       *)

getRedirectForOrg(o) == o
getRedirects(o, custom) == {getRedirectForOrg(o)} \cup (IF custom THEN {Custom} ELSE {})

\* The default organization keeps what the client has: the redirects of others.
OAuth2ClientForgets(o, custom, client) == getRedirects(o, custom)
OAuth2Client(o, custom, client) ==
    getRedirects(o, custom) \cup (IF o = Default THEN client \ NoClient ELSE {})

Specs == [oidc : BOOLEAN, custom : BOOLEAN, scim : BOOLEAN]
OrgTypeOK ==
    /\ org \in [Orgs -> [state : {"live", "deleting", "gone", "absent"}, spec : Specs,
                         scimAPI : {"nil", "Unknown", "True", "False"},
                         ready : {"nil", "True", "False"}, false : SUBSET Conditions]]
    /\ orgQueue \in Seq(Orgs) /\ IsInjective(orgQueue)
    /\ orgPass \in {Idle} \cup [o : Orgs, spec : Specs, false : SUBSET Conditions,
                                failed : BOOLEAN, at : Stages]
    /\ owned \in [Orgs -> 0..Len(GroupCondition)]
    /\ dex \in [connectors : SUBSET Orgs, clients : [Orgs -> {NoClient} \cup SUBSET Redirects],
                proxies : [Orgs -> {"none", "match", "differ"}]]
    /\ secret \in [Orgs -> {"none", "empty", "full"}]
    /\ cached \in [Orgs -> {"none", "empty", "full"}]
    /\ plugins \in SUBSET Orgs
    /\ proxyDef \in BOOLEAN
    /\ scim \in {"up", "down", "noGroup"}

\* An organization has just been created; the default organization is set up, or
\* there is none.
OrgInit(spec, default) ==
    LET setUp(o) == o = Default /\ default
    IN  /\ org = [o \in Orgs |->
                    IF o # Default THEN [NewOrg EXCEPT !.spec = spec]
                    ELSE [NewOrg EXCEPT !.scimAPI = "Unknown", !.ready = "True",
                                        !.state = IF default THEN "live" ELSE "absent"]]
        /\ orgQueue = SetToSeq(Orgs \ {Default})
        /\ owned = [o \in Orgs |-> IF setUp(o) THEN Len(Groups(o)) ELSE 0]
        /\ dex = [connectors |-> {o \in Orgs : setUp(o)},
                  clients |-> [o \in Orgs |-> IF setUp(o) THEN getRedirects(o, TRUE) ELSE NoClient],
                  proxies |-> [o \in Orgs |-> IF setUp(o) THEN "match" ELSE "none"]]
        /\ secret = [o \in Orgs |-> IF setUp(o) THEN "full" ELSE "none"]
        /\ plugins = {o \in Orgs : setUp(o)}
    /\ cached = secret
    /\ orgPass = Idle
    /\ proxyDef = TRUE
    /\ scim = "up"

------------------------------------------------------------------------------
(* The pass.  It works on the spec it read at its start; an error ends it at  *)
(* the stage where it happens, with the condition of the stage set to False   *)
(* in memory, and leads to the status.                                        *)

At(stage) == orgPass.at = stage
This == orgPass.o
Snapshot == orgPass.spec

Continue(stage, cond) ==
    orgPass' = [orgPass EXCEPT !.at = stage, !.false = @ \ cond]
Fail(cond) == orgPass' = [orgPass EXCEPT !.at = "status", !.false = @ \cup cond,
                                         !.failed = TRUE]

\* Reconcile: the phase is chosen by the object.
StartPass(o) ==
    /\ orgPass = Idle /\ orgQueue # <<>> /\ o = Head(orgQueue)
    /\ orgQueue' = Tail(orgQueue)
    /\ orgPass' = IF org[o].state \in {"gone", "absent"} THEN Idle
                  ELSE [o |-> o, spec |-> org[o].spec, false |-> org[o].false,
                        failed |-> FALSE,
                        at |-> IF Live(o) THEN "foundation" ELSE "cleanup"]
    /\ UNCHANGED <<org, owned, dex, secret, cached, plugins, proxyDef, scim, mishaps>>

\* Each object that is created is one more event of an owned object.
EnsureFoundation ==
    /\ At("foundation")
    /\ \E n \in 0..Len(Groups(This)) :
          LET fails == n < Len(Groups(This))
          IN  /\ Mishap(fails)
              /\ owned' = [owned EXCEPT ![This] = IF n > @ THEN n ELSE @]
              /\ IF fails
                 THEN orgPass' = [orgPass EXCEPT
                        !.at = "status", !.failed = TRUE,
                        !.false = (@ \ {GroupCondition[i] : i \in 1..n})
                                     \cup {GroupCondition[n + 1]}]
                 ELSE Continue(IF Snapshot.oidc THEN "dex" ELSE "serviceProxy",
                               {"namespace", "rbac", "teamRoles"})
    /\ orgQueue' = IF owned' # owned THEN Enqueue(This) ELSE orgQueue
    /\ UNCHANGED <<org, dex, secret, cached, plugins, proxyDef, scim>>

\* The entries of dex.  A failing call may be a Secret that is missing, no redirect
\* URL, or dex itself; the client of the default organization must be there already
\* when its redirects are appended to.
reconcileDexConnector(d, o) == [d EXCEPT !.connectors = @ \cup {o}]
reconcileOAuth2Client(d, o, custom) ==
    [d EXCEPT !.clients[o] = OAuth2Client(o, custom, @)]
appendRedirectsToDefaultConnector(d, o) ==
    [d EXCEPT !.clients[Default] = @ \cup {getRedirectForOrg(o)}]

DexSteps(d, o, custom, n) ==
    LET d1 == reconcileDexConnector(d, o)
        d2 == reconcileOAuth2Client(d1, o, custom)
    IN  IF n = 0 THEN d ELSE IF n = 1 THEN d1 ELSE IF n = 2 \/ o = Default THEN d2
        ELSE appendRedirectsToDefaultConnector(d2, o)

EnsureOIDC ==
    /\ At("dex")
    /\ \E n \in 0..3 :
          LET refused == n = 2 /\ This # Default /\ dex.clients[Default] = NoClient
              fails == n < IF This = Default THEN 2 ELSE 3
          IN  /\ n = 3 => This # Default /\ dex.clients[Default] # NoClient
              /\ Mishap(fails /\ ~refused)
              /\ dex' = DexSteps(dex, This, Snapshot.custom, n)
              /\ IF fails THEN Fail({"oidc"}) ELSE Continue("serviceProxy", {"oidc"})
    /\ UNCHANGED <<org, orgQueue, owned, secret, cached, plugins, proxyDef, scim>>

------------------------------------------------------------------------------
(* The admin Team and the service proxy.  A client secret is generated        *)
(* whenever the Secret that the cache shows has none; the generated one       *)
(* differs from any other.                                                    *)

\* The admin Team is created, or its group and labels are put back.
reconcileAdminTeam ==
    /\ At("serviceProxy")
    /\ Mishap(TRUE)
    /\ Fail({"adminTeam"})
    /\ UNCHANGED <<org, orgQueue, owned, dex, secret, cached, plugins, proxyDef, scim>>

\* Without the definition, or if it cannot be read, the condition is False; without an
\* OIDC configuration it stays as it is.  None of this is an error.
reconcileServiceProxy ==
    /\ At("serviceProxy")
    /\ \E unread \in BOOLEAN :
          /\ unread \/ ~proxyDef \/ ~Snapshot.oidc
          /\ Mishap(unread)
          /\ orgPass' = [orgPass EXCEPT !.at = "status",
                           !.false = (@ \ {"adminTeam"})
                                        \cup (IF proxyDef /\ ~unread THEN {} ELSE {"serviceProxy"})]
    /\ UNCHANGED <<org, orgQueue, owned, dex, secret, cached, plugins, proxyDef, scim>>

\* What is stored after the Secret is read or created.  That it exists although the
\* cache does not show it is no error: the pass goes on with an empty one that has
\* no resource version, and its update overwrites whatever is stored.
getOrCreateOrgSecret(o) ==
    IF cached[o] = "none" /\ secret[o] = "none" THEN "empty" ELSE secret[o]

\* The update of a Secret that was read fails when the cache was behind.  A new dex
\* client ends the function before the update.
Fresh(o, stored) == cached[o] \in {stored, "none"}
StoreSecret(o, stored) == IF dex.proxies[o] = "none" THEN stored ELSE "full"

\* The dex client gets the secret of the pass: the stored one if the cache showed
\* it or if the update stored it.
reconcileOAuth2ProxySecret(o, updates) ==
    LET stored == getOrCreateOrgSecret(o)
        new == IF updates THEN StoreSecret(o, stored) ELSE stored
    IN  /\ secret' = [secret EXCEPT ![o] = new]
        /\ dex' = [dex EXCEPT !.proxies[o] =
                     IF new = "full" /\ (cached[o] = "full" \/ (updates /\ @ # "none"))
                     THEN "match" ELSE "differ"]

reconcileServiceProxyPlugin == plugins' = plugins \cup {This}

EnsureServiceProxy ==
    /\ At("serviceProxy") /\ proxyDef /\ Snapshot.oidc
    /\ \E failsAt \in {"secret", "dex", "update", "plugin", "never"} :
          LET o == This
              stored == getOrCreateOrgSecret(o)
              conflict == dex.proxies[o] # "none" /\ ~Fresh(o, stored)
              stops == failsAt \in {"secret", "dex"}
          IN  /\ conflict => failsAt \in {"secret", "dex", "update"}
              /\ failsAt = "update" => dex.proxies[o] # "none"
              /\ Mishap(\/ failsAt = "update" /\ ~conflict
                        \/ failsAt \in {"secret", "dex", "plugin"})
              /\ IF stops
                 THEN /\ secret' = [secret EXCEPT ![o] =
                                      IF failsAt = "dex" THEN stored ELSE @]
                      /\ UNCHANGED dex
                 ELSE reconcileOAuth2ProxySecret(o, failsAt # "update")
              /\ IF failsAt = "never"
                 THEN Continue("status", {"adminTeam", "serviceProxy"})
                      /\ reconcileServiceProxyPlugin
                 ELSE /\ orgPass' = [orgPass EXCEPT !.at = "status", !.failed = TRUE,
                                       !.false = (@ \ {"adminTeam"}) \cup {"serviceProxy"}]
                      /\ UNCHANGED plugins
    /\ orgQueue' = IF plugins' # plugins THEN Enqueue(This) ELSE orgQueue
    /\ UNCHANGED <<org, owned, cached, proxyDef, scim>>

------------------------------------------------------------------------------
(* The end of a pass.                                                         *)

checkSCIMAPIAvailability(spec) ==
    IF ~spec.scim THEN "Unknown" ELSE IF scim = "up" THEN "True" ELSE "False"

calculateReadyCondition(scimAPI) == IF scimAPI = "False" THEN "False" ELSE "True"

\* setStatus and the patch of the status.  A changed status is an event of the
\* Organization itself; an error is retried, an unchanged status wakes nobody up.
setStatus ==
    /\ At("status")
    /\ \E lost \in BOOLEAN :
          /\ Mishap(lost)
          /\ org' = IF lost \/ org[This].state \in {"gone", "absent"} THEN org
                    ELSE [org EXCEPT ![This].scimAPI = checkSCIMAPIAvailability(Snapshot),
                                     ![This].ready = calculateReadyCondition(
                                                        checkSCIMAPIAvailability(Snapshot)),
                                     ![This].false = orgPass.false]
          /\ orgQueue' = IF orgPass.failed \/ lost \/ org' # org
                         THEN Enqueue(This) ELSE orgQueue
    /\ orgPass' = Idle
    /\ UNCHANGED <<owned, dex, secret, cached, plugins, proxyDef, scim>>

\* EnsureDeleted: the redirect, the connector and the client, in this order, and
\* only for an organization that still has an OIDC configuration.  Nothing deletes
\* the client of the service proxy.  Success lets go of the object.
removeAuthRedirectFromDefaultConnector(d, o) ==
    [d EXCEPT !.clients[Default] = @ \ {getRedirectForOrg(o)}]
deleteDexConnector(d, o) == [d EXCEPT !.connectors = @ \ {o}]
deleteOAuth2Client(d, o) == [d EXCEPT !.clients[o] = NoClient]

Cleaned(d, o, n) ==
    LET d1 == removeAuthRedirectFromDefaultConnector(d, o)
        d2 == deleteDexConnector(d1, o)
    IN  IF n = 0 THEN d ELSE IF n = 1 THEN d1 ELSE IF n = 2 THEN d2
        ELSE deleteOAuth2Client(d2, o)

\* The Deleted condition is stored and the finalizer goes.  A lost patch makes the
\* next pass clean up again; then the default organization fails, its client gone.
LetGo(o, ok) ==
    /\ orgPass' = Idle
    /\ org' = IF ok THEN [org EXCEPT ![o].state = "gone"] ELSE org
    /\ orgQueue' = IF ok THEN orgQueue ELSE Enqueue(o)
    /\ UNCHANGED <<owned, secret, cached, plugins, proxyDef, scim>>

EnsureDeletedIgnoringErrors ==
    /\ At("cleanup")
    /\ \E n \in 0..3 :
          /\ Mishap(n < 3) /\ LetGo(This, TRUE)
          /\ dex' = IF Snapshot.oidc THEN Cleaned(dex, This, n) ELSE dex
EnsureDeleted ==
    /\ At("cleanup")
    /\ \E n \in 0..3, lost \in BOOLEAN :
          LET stuck == Snapshot.oidc /\ dex.clients[Default] = NoClient
          IN  /\ n = 3 \/ (Snapshot.oidc /\ ~lost)
              /\ stuck => n = 0
              /\ Mishap(lost \/ (n < 3 /\ ~stuck))
              /\ dex' = IF Snapshot.oidc THEN Cleaned(dex, This, n) ELSE dex
              /\ LetGo(This, n = 3 /\ ~lost)

------------------------------------------------------------------------------
(* Around the controller.                                                     *)

OrgController ==
    \/ \E o \in Orgs : StartPass(o)
    \/ EnsureFoundation \/ EnsureOIDC \/ reconcileAdminTeam
    \/ reconcileServiceProxy \/ EnsureServiceProxy
    \/ setStatus \/ EnsureDeleted

\* A change of the Secret reaches the cache; it is of a watched type.
enqueueOrganizationForReferencedSecret(o) ==
    /\ cached[o] # secret[o]
    /\ cached' = [cached EXCEPT ![o] = secret[o]]
    /\ orgQueue' = IF Live(o) \/ org[o].state = "deleting" THEN Enqueue(o) ELSE orgQueue
    /\ UNCHANGED <<org, orgPass, owned, dex, secret, plugins, proxyDef, scim, mishaps>>

\* The garbage collector follows the owner references of a deleted organization.
CollectOrg(o) ==
    /\ org[o].state = "gone"
    /\ org' = [org EXCEPT ![o].state = "absent"]
    /\ owned' = [owned EXCEPT ![o] = 0]
    /\ secret' = [secret EXCEPT ![o] = "none"]
    /\ plugins' = plugins \ {o}
    /\ dex' = [dex EXCEPT !.proxies[o] = IF @ = "none" THEN @ ELSE "differ"]
    /\ UNCHANGED <<orgQueue, orgPass, cached, proxyDef, scim, mishaps>>

\* The resync of the caches, hours apart, finds nothing else under way.
ResyncOrgs ==
    /\ orgQueue' = EnqueueAll
    /\ orgQueue = <<>> /\ orgQueue' # <<>> /\ orgPass = Idle /\ cached = secret
    /\ UNCHANGED <<org, orgPass, owned, dex, secret, cached, plugins, proxyDef, scim, mishaps>>

\* A restart forgets the pass and lists everything.
RestartOrgs ==
    /\ orgPass # Idle
    /\ Mishap(TRUE)
    /\ orgPass' = Idle
    /\ orgQueue' = EnqueueAll
    /\ cached' = secret
    /\ UNCHANGED <<org, owned, dex, secret, plugins, proxyDef, scim>>

\* Users.
EditOrg(o, spec) ==
    /\ Live(o) /\ spec # org[o].spec
    /\ org' = [org EXCEPT ![o].spec = spec]
    /\ orgQueue' = Enqueue(o)
    /\ UNCHANGED <<orgPass, owned, dex, secret, cached, plugins, proxyDef, scim, mishaps>>
DeleteOrg(o) ==
    /\ Live(o)
    /\ org' = [org EXCEPT ![o].state = "deleting"]
    /\ orgQueue' = Enqueue(o)
    /\ UNCHANGED <<orgPass, owned, dex, secret, cached, plugins, proxyDef, scim, mishaps>>
CreateOrg(o) ==
    /\ org[o].state = "absent"
    /\ org' = [org EXCEPT ![o] = NewOrg]
    /\ orgQueue' = Enqueue(o)
    /\ UNCHANGED <<orgPass, owned, dex, secret, cached, plugins, proxyDef, scim, mishaps>>
\* A Secret that goes before the cache showed it is two events at once.
DeleteSecret(o) ==
    /\ secret[o] # "none"
    /\ orgQueue' = IF cached[o] = "none" THEN Enqueue(o) ELSE orgQueue
    /\ secret' = [secret EXCEPT ![o] = "none"]
    /\ dex' = [dex EXCEPT !.proxies[o] = IF @ = "none" THEN @ ELSE "differ"]
    /\ UNCHANGED <<org, orgPass, owned, cached, plugins, proxyDef, scim, mishaps>>

\* enqueueAllOrganizationsForServiceProxyPluginDefinition
ToggleProxyDef ==
    /\ proxyDef' = ~proxyDef
    /\ orgQueue' = EnqueueAll
    /\ UNCHANGED <<org, orgPass, owned, dex, secret, cached, plugins, scim, mishaps>>

\* The SCIM API fails, recovers, or loses the admin group: nobody is told.
ScimChanges(s) ==
    /\ scim # s /\ scim' = s
    /\ UNCHANGED <<org, orgQueue, orgPass, owned, dex, secret, cached, plugins, proxyDef, mishaps>>
==============================================================================
