---------------------------- MODULE TeamController ----------------------------
(* The Team controller: the members of a team, read from the SCIM API of its  *)
(* organization, and the service account that a support group gets.  One team *)
(* of one organization; the organization and the SCIM API are of              *)
(* OrganizationController.                                                    *)
EXTENDS OrganizationController

CONSTANTS Users,     \* users of the identity provider
          TeamOrg    \* the organization of the team

ASSUME TeamAssumption == TeamOrg \in Orgs

VARIABLES
    team,        \* the Team; "gone" with the namespace of its organization
    teamQueued,  \* the Team waits for a pass
    timer,       \* RequeueAfter is set
    group,       \* per user: its entry in the group mapped to the team
    access,      \* the ServiceAccount, Role and RoleBinding of the support group ...
    accessSeen   \* ... and what the cache shows of them

teamVars == <<team, teamQueued, timer, group, access, accessSeen>>

Entries == {"none", "active", "inactive", "malformed"}
AccessOrder == <<"ServiceAccount", "Role", "RoleBinding">>
AccessKinds == {"ServiceAccount", "Role", "RoleBinding"}

\* initTeamStatus: conditions start out Unknown.
NewTeam == [exists |-> TRUE, supportGroup |-> TRUE, mapped |-> TRUE, members |-> {},
            scimAccess |-> "Unknown", allValid |-> "Unknown", ready |-> "Unknown"]

TeamTypeOK ==
    /\ team \in [exists : BOOLEAN, supportGroup : BOOLEAN, mapped : BOOLEAN, members : SUBSET Users,
                 scimAccess : {"Unknown", "True", "False"}, allValid : {"Unknown", "True", "False"},
                 ready : {"Unknown", "True", "False"}]
    /\ teamQueued \in BOOLEAN /\ timer \in BOOLEAN
    /\ group \in [Users -> Entries]
    /\ access \in SUBSET AccessKinds /\ accessSeen \in SUBSET AccessKinds

TeamInit(exists) ==
    /\ team = [NewTeam EXCEPT !.exists = exists]
    /\ teamQueued = exists /\ timer = FALSE
    /\ group = [u \in Users |-> "active"]
    /\ access = {} /\ accessSeen = {}

------------------------------------------------------------------------------
(* The SCIM client.                                                           *)

Listed == {u \in Users : group[u] # "none"}

\* Mutant: the pages up to the one that fails are an answer.
GetUsersSoFar(got, failed) ==
    [failed |-> FALSE, users |-> IF failed THEN got ELSE Listed]

\* fetchAllResources asks for page after page; the first that fails takes with it the
\* users got from those before it.
GetUsers(got, failed) == [failed |-> failed, users |-> IF failed THEN {} ELSE Listed]

\* getUsersFromSCIM: what is malformed or inactive is left out and reported.
getUsersFromSCIM(users) == {u \in users : group[u] = "active"}
membersValid(users) == IF getUsersFromSCIM(users) = users THEN "True" ELSE "False"

computeReadyCondition(scimAccess) == IF scimAccess = "False" THEN "False" ELSE "True"

------------------------------------------------------------------------------
(* The access of a support group.                                             *)

\* ensureSupportGroupResourcesDeleted: n deletions work; what the cache does not
\* show is taken for gone.
DeletionOrder == Reverse(AccessOrder)
DeleteSeen(n) == access \ (accessSeen \cap {DeletionOrder[i] : i \in 1..n})

\* reconcileSupportGroupServiceAccount, -Role, -RoleBinding: creating what exists
\* without the cache showing it is no error.
CreateOrPatch(n) == access \cup {AccessOrder[i] : i \in 1..n}

------------------------------------------------------------------------------
(* The pass.                                                                  *)

Conditions3(scimAccess, members, valid) ==
    [team EXCEPT !.scimAccess = scimAccess, !.members = members, !.allValid = valid,
                 !.ready = computeReadyCondition(scimAccess)]
Same(scimAccess) == Conditions3(scimAccess, team.members, team.allValid)

\* patchStatus.  A changed status is an event of the Team; an error, which counts
\* as a mishap if it is a fault, is retried.  A timer is set by a pass that went
\* through, and a later pass does not cancel it.
Finish(new, failed, fault, again) ==
    \E lost \in BOOLEAN :
        /\ Mishap(lost \/ fault)
        /\ team' = IF lost THEN team ELSE new
        /\ teamQueued' = (failed \/ lost \/ team' # team)
        /\ timer' = (timer \/ (again /\ ~failed /\ ~lost))
        /\ UNCHANGED <<group, accessSeen>>

Begin == teamQueued /\ team.exists
OrgMissing == org[TeamOrg].state \in {"gone", "absent"}

\* The label is gone: the access goes first, whatever the rest of the pass does.
CleanupFails ==
    /\ Begin /\ ~team.supportGroup
    /\ \E n \in 0..2 :
          /\ access' = DeleteSeen(n)
          /\ Finish(Same(team.scimAccess), TRUE, TRUE, FALSE)
CleanupOf(a) == IF team.supportGroup THEN a ELSE DeleteSeen(3)

\* The organization is missing, the team has no group, or the organization has not
\* found its SCIM API available: nothing is asked, and nothing is scheduled.
OrgUnavailable == org[TeamOrg].scimAPI # "True"
EnsureCreatedEarly ==
    /\ Begin
    /\ \/ /\ OrgMissing \/ ~team.mapped
          /\ Finish(Same(team.scimAccess), FALSE, FALSE, FALSE)
       \/ /\ ~OrgMissing /\ team.mapped
          /\ OrgUnavailable \/ ~org[TeamOrg].spec.scim
          /\ Finish(Same("False"), FALSE, FALSE, FALSE)
    /\ access' = CleanupOf(access)

\* The SCIM API is asked, and answers all pages, some of them, or none.  Without a
\* whole answer the members stay.
Asks == /\ Begin /\ ~OrgMissing /\ team.mapped
        /\ ~OrgUnavailable /\ org[TeamOrg].spec.scim
Answer(got, broken) == GetUsers(got, scim = "down" \/ broken)
EnsureCreatedUnanswered ==
    /\ Asks
    /\ \E broken \in BOOLEAN, got \in SUBSET Listed :
          /\ Answer(got, broken).failed
          /\ Finish(Same("False"), TRUE, broken, FALSE)
    /\ access' = CleanupOf(access)

EnsureCreated ==
    /\ Asks
    /\ \E broken \in BOOLEAN, got \in SUBSET Listed, n \in 0..3 :
          LET users == Answer(got, broken).users
          IN  /\ ~Answer(got, broken).failed
              /\ n < 3 => team.supportGroup
              /\ access' = IF team.supportGroup THEN CreateOrPatch(n) ELSE DeleteSeen(3)
              /\ Finish(Conditions3("True", getUsersFromSCIM(users), membersValid(users)),
                        n < 3, n < 3 \/ broken, TRUE)

TeamPass == CleanupFails \/ EnsureCreatedEarly \/ EnsureCreatedUnanswered \/ EnsureCreated

------------------------------------------------------------------------------
(* Around the controller.                                                     *)

\* RequeueAfter, about ten minutes later.
TimerFires ==
    /\ timer /\ ~teamQueued /\ team.exists
    /\ teamQueued' = TRUE /\ timer' = FALSE
    /\ UNCHANGED <<team, group, access, accessSeen, mishaps>>

\* An object of the support group reaches the cache; the Team owns it.
AccessSeen ==
    /\ accessSeen # access
    /\ accessSeen' = access
    /\ teamQueued' = team.exists
    /\ UNCHANGED <<team, timer, group, access, mishaps>>

ResyncTeam ==
    /\ ~teamQueued /\ team.exists /\ ~timer /\ accessSeen = access
    /\ teamQueued' = TRUE
    /\ UNCHANGED <<team, timer, group, access, accessSeen, mishaps>>

\* The namespace goes with its organization, and with it all of this.
CollectTeam ==
    /\ team.exists /\ org[TeamOrg].state = "absent"
    /\ team' = [team EXCEPT !.exists = FALSE]
    /\ access' = {} /\ teamQueued' = FALSE /\ timer' = FALSE
    /\ UNCHANGED <<group, accessSeen, mishaps>>

\* Users edit the Team, and the identity provider its group.
EditTeam(label, mapped) ==
    /\ team.exists /\ <<label, mapped>> # <<team.supportGroup, team.mapped>>
    /\ team' = [team EXCEPT !.supportGroup = label, !.mapped = mapped]
    /\ teamQueued' = TRUE
    /\ UNCHANGED <<timer, group, access, accessSeen, mishaps>>
EditGroup(u, entry) ==
    /\ group[u] # entry
    /\ group' = [group EXCEPT ![u] = entry]
    /\ UNCHANGED <<team, teamQueued, timer, access, accessSeen, mishaps>>

\* The watch on Organizations: creation, deletion, a change of the spec, or
\* PredicateOrganizationSCIMStatusChange: the condition turns True from False or
\* from nothing.  It does not see it turn True from Unknown.
PredicateOrganizationSCIMStatusChange(old, new) ==
    new = "True" /\ old \in {"nil", "False"}
OrganizationWatch ==
    LET old == org[TeamOrg]
        new == org'[TeamOrg]
        wakes == \/ old.spec # new.spec
                 \/ old.state # new.state /\ old.state # "gone"
                 \/ PredicateOrganizationSCIMStatusChange(old.scimAPI, new.scimAPI)
    IN  /\ teamQueued' = (teamQueued \/ (wakes /\ team.exists))
        /\ UNCHANGED <<team, timer, group, access, accessSeen>>
==============================================================================
