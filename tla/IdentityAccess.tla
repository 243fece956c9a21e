---------------------------- MODULE IdentityAccess ----------------------------
(* Organizations, a team, dex and the SCIM API together.                      *)
EXTENDS TeamController

CONSTANT MaxEdits   \* edits of users, of the identity provider and of its API
VARIABLE edits

ASSUME EditsAssumption == MaxEdits \in Nat

vars == <<orgVars, teamVars, mishaps, edits>>

\* An organization that authenticates its users and has no team yet, or one that
\* only reads its teams from SCIM: either may become the other by edits.
Init ==
    /\ \/ OrgInit(Spec0, TRUE) /\ TeamInit(FALSE)
       \/ OrgInit([oidc |-> FALSE, custom |-> FALSE, scim |-> TRUE], FALSE)
             /\ TeamInit(TRUE)
    /\ edits = 0 /\ mishaps = 0

TypeOK == OrgTypeOK /\ TeamTypeOK /\ edits \in 0..MaxEdits /\ mishaps \in 0..MaxMishaps

\* Edits go to the side of the organization the behaviour is about.
AuthEdit ==
    \/ \E o \in Orgs : DeleteOrg(o) \/ DeleteSecret(o)
    \/ CreateOrg(Default)
    \/ EditOrg(TeamOrg, [org[TeamOrg].spec EXCEPT !.oidc = ~@])
    \/ EditOrg(TeamOrg, [org[TeamOrg].spec EXCEPT !.custom = ~@])
    \/ ToggleProxyDef
ScimEdit ==
    \/ DeleteOrg(TeamOrg)
    \/ EditOrg(TeamOrg, [org[TeamOrg].spec EXCEPT !.scim = ~@])
    \/ \E s \in {"up", "down", "noGroup"} : ScimChanges(s)
TeamEdit ==
    \/ \E label, mapped \in BOOLEAN : EditTeam(label, mapped)
    \/ \E u \in Users, entry \in Entries : EditGroup(u, entry)

Edit ==
    /\ edits < MaxEdits /\ edits' = edits + 1
    /\ \/ ~team.exists /\ AuthEdit /\ OrganizationWatch
       \/ team.exists /\ ScimEdit /\ OrganizationWatch
       \/ team.exists /\ TeamEdit /\ UNCHANGED orgVars

OrgSteps == (OrgController \/ ResyncOrgs) /\ OrganizationWatch /\ UNCHANGED edits
TeamSteps == (TeamPass \/ TimerFires \/ ResyncTeam) /\ UNCHANGED <<orgVars, edits>>

\* The caches and the garbage collector.
Cluster ==
    \/ /\ \E o \in Orgs : enqueueOrganizationForReferencedSecret(o) \/ CollectOrg(o)
       /\ OrganizationWatch /\ UNCHANGED edits
    \/ (AccessSeen \/ CollectTeam) /\ UNCHANGED <<orgVars, edits>>

Next ==
    \/ OrgSteps
    \/ TeamSteps
    \/ Cluster
    \/ RestartOrgs /\ OrganizationWatch /\ UNCHANGED edits
    \/ Edit

Spec == Init /\ [][Next]_vars

\* The two controllers work through their queues, which the resync of the caches
\* fills now and then, and the caches catch up.  Edits and mishaps owe nothing.
Fairness == WF_vars(OrgSteps) /\ WF_vars(TeamSteps) /\ WF_vars(Cluster)

FairSpec == Spec /\ Fairness

------------------------------------------------------------------------------
(* Properties.                                                                *)

HasOIDC(o) == Live(o) /\ org[o].spec.oidc

\* An organization that is gone has left dex, if it had an OIDC configuration to the
\* end: no connector, no client, and no redirect that the shared client of the
\* default organization would still send users to (organization_controller.go:130-141).
LeavesDex ==
    \A o \in Orgs :
        org[o].state \in {"gone", "absent"} /\ org[o].spec.oidc =>
            /\ o \notin dex.connectors
            /\ dex.clients[o] = NoClient
            /\ getRedirectForOrg(o) \notin dex.clients[Default]

\* The service proxy is never installed before dex knows its client
\* (service_proxy.go:63-70).
ProxyHasClient == \A o \in plugins : dex.proxies[o] # "none"

\* The credentials agree in the end: dex knows the client secret that the Secret of
\* the service proxy holds, after a first pass that stores none, stale reads, lost
\* updates, and Secrets deleted by hand (service_proxy.go:76-142).
SecretsAgree ==
    \A o \in Orgs : <>[](HasOIDC(o) /\ proxyDef /\ "oidc" \notin org[o].false =>
                            secret[o] = "full" /\ dex.proxies[o] = "match")

\* Logins come back: an organization with OIDC has its own redirects in its client
\* and its dashboard in the shared client, if there is one, also after the default
\* organization was deleted and created again (dex.go:173-233).
RedirectsFollow ==
    \A o \in Orgs \ {Default} :
        <>[](HasOIDC(o) /\ dex.clients[Default] # NoClient =>
                /\ dex.clients[o] = getRedirects(o, org[o].spec.custom)
                /\ getRedirectForOrg(o) \in dex.clients[Default])

\* Deletion of an organization completes, unless the shared client is missing.
OrgDeletionCompletes ==
    \A o \in Orgs \ {Default} :
        org[o].state = "deleting" ~>
            (org[o].state # "deleting" \/ dex.clients[Default] = NoClient)

\* Failures do not stick: once nothing fails any more, no condition of a live
\* organization is False, but for a missing definition or a missing shared client.
\* Without OIDC, the conditions about dex and the proxy are exempt too: what a pass
\* set to False while there was OIDC is not looked at again
\* (organization_controller.go:178, service_proxy.go:58-61).
Excused(o) ==
    (IF proxyDef THEN {} ELSE {"serviceProxy"})
        \cup (IF org[o].spec.oidc THEN {} ELSE {"oidc", "serviceProxy"})
ConditionsSettle ==
    \A o \in Orgs :
        <>[](Live(o) => org[o].false \subseteq Excused(o) \/ dex.clients[Default] = NoClient)

\* The members of a team follow the identity provider: also after an outage, or
\* after SCIM was configured while the team waited (team_controller.go:118-196).
MembersFollow ==
    <>[](team.exists /\ team.mapped /\ scim = "up" /\ Live(TeamOrg) /\ org[TeamOrg].spec.scim
            => /\ team.members = {u \in Users : group[u] = "active"}
               /\ team.ready = "True")

\* An outage takes nobody out of a team: members change only to what the identity
\* provider says.
OutageKeepsMembers ==
    [][team'.members # team.members =>
          scim # "down" /\ team'.members = {u \in Users : group[u] = "active"}]_vars

\* A team that is no support group loses its service account and the right to
\* request tokens for it, whatever the cache shows and the SCIM API answers.
AccessFollowsLabel == <>[](team.exists /\ ~team.supportGroup => access = {})

\* The safety of dex: who is gone has left it, and no proxy is without its client.
DexSafe == TypeOK /\ LeavesDex /\ ProxyHasClient

\* Organizations settle: credentials agree, logins come back, no failure sticks, and a
\* deletion ends.
OrganizationsSettle ==
    SecretsAgree /\ RedirectsFollow /\ ConditionsSettle /\ OrgDeletionCompletes

\* The team follows its group, and only its group, and has the access of a support group
\* no longer than it is one.
TeamFollows == MembersFollow /\ OutageKeepsMembers /\ AccessFollowsLabel
==============================================================================
