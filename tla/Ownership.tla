------------------------------ MODULE Ownership ------------------------------
(* Who may use a Plugin that a PluginPreset has made: the Team that owns the  *)
(* PluginPreset.  The owner goes from the PluginPreset to the Plugin by       *)
(* propagation, a user's Teams go from the identity provider through the dex  *)
(* connector into the token, a ServiceAccount names its Team itself, and the  *)
(* authorization webhook puts the three together, reading Teams and           *)
(* ServiceAccounts from a cache that may be behind.                           *)
EXTENDS Naturals, FiniteSets, Propagation

CONSTANTS
    Teams,       \* names of Teams; each is mapped to an IdP group of its own
    KeepUpstreamGroups,  \* whether the connector leaves the IdP groups in the token
    MaxEdits,    \* changes by users and administrators
    MaxFaults    \* calls that fail

\* A name is not empty, and there is a Team to begin with.
ASSUME OwnershipAssumption ==
    /\ {MaxEdits, MaxFaults} \subseteq Nat
    /\ Teams # {} /\ Teams \cap {None, Empty} = {}
    /\ KeepUpstreamGroups \in BOOLEAN

Subjects == {"user", "serviceAccount"}
Readers == {"authz", "operator"}     \* the processes that read Teams from a cache

VARIABLES
    teams,     \* teams[t]: whether the Team exists, and its label support-group
    seen,      \* seen[r]: the Teams in the cache of a reader
    preset,    \* the PluginPreset
    plugin,    \* its Plugin
    stray,     \* history: keys of the Plugin that were on its record when that was lost
    queued,    \* the PluginPreset waits for a pass
    quiet,     \* the last change of the PluginPreset drew no warning, and no Team has changed
    told,      \* the condition OwnerLabelSet of the PluginPreset
    upstream,  \* the IdP groups of the user, by the Team they are mapped to
    claims,    \* the groups in the user's token: pairs of a category and a Team
    account,   \* the label owned-by of the ServiceAccount
    seenAccount,
    request,   \* the request at the webhook; the subjects take turns
    answer,    \* answer[s]: the last answer
    granted,   \* the owners of what the ServiceAccount was given access to
    edits, faults

objects == <<teams, preset, plugin, stray, upstream, account>>
vars == <<teams, seen, preset, plugin, stray, queued, quiet, told, upstream, claims, account, seenAccount,
          request, answer, granted, edits, faults>>

Idle(s) == [subject |-> s, pc |-> "idle", supportGroups |-> {}, ownedBy |-> None]

\* A PluginPreset that a Team owns and its Plugin up to date, or one without an owner; the
\* user is in that Team or in none, and so is the ServiceAccount.
First == CHOOSE t \in Teams : TRUE
Init ==
    /\ teams = [t \in Teams |-> [exists |-> TRUE, supportGroup |-> "true", other |-> FALSE]]
    /\ seen = [r \in Readers |-> teams]
    /\ \E o \in {First, None} :
          /\ preset = [labels |-> [k \in LabelKeys |-> IF k = "owned-by" THEN o ELSE "v"],
                       annotations |-> [k \in AnnotationKeys |-> "v"],
                       propagateLabels |-> {"owned-by", "meta/*"},
                       propagateAnnotations |-> AnnotationKeys]
          /\ plugin = Apply(preset, [labels |-> [k \in LabelKeys |-> None],
                                     annotations |-> [k \in AnnotationKeys |-> None],
                                     applied |-> NoState])
          /\ told = (o # None)
    /\ stray = {} /\ queued = FALSE /\ quiet = FALSE
    /\ upstream \in SUBSET {First} /\ claims = {}
    /\ account \in {First, None} /\ seenAccount = account
    /\ request = Idle("user")
    /\ answer = [u \in Subjects |-> FALSE]
    /\ granted = {}
    /\ edits = 0 /\ faults = 0

Edit == edits < MaxEdits /\ edits' = edits + 1
requests == <<request, answer, granted>>

------------------------------------------------------------------------------
(* Owners.                                                                    *)

\* Whether the admission of an object with this owner goes without a warning.
ValidateLabelOwnedBy(known, owner) ==
    /\ owner \notin {None, Empty}
    /\ owner \in Teams /\ known[owner].exists
    /\ known[owner].supportGroup = "true"

ComputeOwnerLabelCondition(known, owner) ==
    /\ owner \notin {None, Empty}
    /\ owner \in Teams /\ known[owner].exists
    /\ known[owner].supportGroup = "true"

------------------------------------------------------------------------------
(* Users and administrators.                                                  *)

\* A PluginPreset with one of its keys or lists changed; every change enqueues it.
PresetVariations ==
    {[preset EXCEPT !.labels["owned-by"] = o] : o \in Teams \cup {None, Empty}} \cup
    {[preset EXCEPT !.labels["meta/region"] = v] : v \in {None, "v"}} \cup
    {[preset EXCEPT !.annotations["note"] = v] : v \in {None, Empty, "v"}} \cup
    {[preset EXCEPT !.propagateLabels = l] : l \in SUBSET {"owned-by", "meta/*"}} \cup
    {[preset EXCEPT !.propagateAnnotations = l] : l \in SUBSET AnnotationKeys}

EditPreset ==
    /\ Edit
    /\ \E p \in PresetVariations :
          /\ preset' = p
          /\ quiet' = (seen["operator"] = teams /\ ValidateLabelOwnedBy(teams, p.labels["owned-by"]))
    /\ queued' = TRUE
    /\ UNCHANGED <<teams, seen, plugin, stray, told, upstream, claims, account, seenAccount, requests, faults>>

OnRecord == getAppliedState(plugin).labelKeys \cup getAppliedState(plugin).annotationKeys

\* Labels of the Plugin itself, and the annotation that holds the record: it may be removed
\* or become something that does not parse.  The PluginPreset does not hear of it.
EditPlugin ==
    /\ Edit
    /\ \/ /\ \/ \E o \in Teams \cup {None} : plugin' = [plugin EXCEPT !.labels["owned-by"] = o]
             \/ \E v \in {None, "v"} : plugin' = [plugin EXCEPT !.labels["own"] = v]
          /\ UNCHANGED stray
       \/ /\ \E readable \in BOOLEAN : plugin' = [plugin EXCEPT !.applied = [NoState EXCEPT !.parses = readable]]
          /\ stray' = stray \cup OnRecord
    /\ UNCHANGED <<teams, seen, preset, queued, quiet, told, upstream, claims, account, seenAccount,
                   requests, faults>>

\* Of the labels of this project a Team has the support group and names of ClusterPluginDefinitions.
validateGreenhouseLabels(t) == ~t.other

EditTeam(t) ==
    /\ Edit
    /\ \E g \in {None, "true", "false"}, o \in BOOLEAN :
          LET new == [exists |-> TRUE, supportGroup |-> g, other |-> o]
          IN validateGreenhouseLabels(new) /\ teams' = [teams EXCEPT ![t] = new]
    /\ quiet' = FALSE
    /\ UNCHANGED <<seen, preset, plugin, stray, queued, told, upstream, claims, account, seenAccount,
                   requests, faults>>

DeleteTeam(t) ==
    /\ Edit /\ teams[t].exists
    /\ teams' = [teams EXCEPT ![t].exists = FALSE]
    /\ quiet' = FALSE
    /\ UNCHANGED <<seen, preset, plugin, stray, queued, told, upstream, claims, account, seenAccount,
                   requests, faults>>

EditMembership(t) ==
    /\ Edit
    /\ upstream' = (upstream \ {t}) \cup ({t} \ upstream)
    /\ UNCHANGED <<teams, seen, preset, plugin, stray, queued, quiet, told, claims, account, seenAccount,
                   requests, faults>>

\* The owner of a ServiceAccount stays once it is set; no label reads as the empty owner.
AnyOwner(old, new) == TRUE
validateOwnedByLabelImmutable(old, new) ==
    old = None \/ (IF new = None THEN Empty ELSE new) = old

EditServiceAccount ==
    /\ Edit
    /\ \E o \in Teams \cup {None, Empty} : validateOwnedByLabelImmutable(account, o) /\ account' = o
    /\ UNCHANGED <<teams, seen, preset, plugin, stray, queued, quiet, told, upstream, claims, seenAccount,
                   requests, faults>>

------------------------------------------------------------------------------
(* The operator.                                                              *)

\* A pass over the PluginPreset brings the Plugin up to date and sets the condition.
ReconcilePreset ==
    /\ queued
    /\ queued' = FALSE
    /\ plugin' = Apply(preset, plugin)
    /\ stray' = stray \ OnRecord'
    /\ told' = ComputeOwnerLabelCondition(seen["operator"], preset.labels["owned-by"])
    /\ UNCHANGED <<teams, seen, preset, quiet, upstream, claims, account, seenAccount, requests,
                   edits, faults>>

\* Informers resync; a pass that would change nothing is left out.
Resync ==
    /\ ~queued
    /\ \/ plugin # Apply(preset, plugin)
       \/ told # ComputeOwnerLabelCondition(seen["operator"], preset.labels["owned-by"])
    /\ queued' = TRUE
    /\ UNCHANGED <<objects, seen, quiet, told, claims, seenAccount, requests, edits, faults>>

Deliver(r) ==
    /\ seen[r] # teams
    /\ seen' = [seen EXCEPT ![r] = teams]
    /\ UNCHANGED <<objects, queued, quiet, told, claims, seenAccount, requests, edits, faults>>

DeliverAccount ==
    /\ seenAccount # account
    /\ seenAccount' = account
    /\ UNCHANGED <<objects, seen, queued, quiet, told, claims, requests, edits, faults>>

------------------------------------------------------------------------------
(* The dex connector: login and refresh of a token.                           *)

\* Each Team of the user's groups, in the categories its labels name, whatever their values.
getGroups(groups) ==
    LET mapped == {t \in groups : teams[t].exists}
    IN ({"team"} \X mapped) \cup
       ({"support-group"} \X {t \in mapped : teams[t].supportGroup # None}) \cup
       (IF KeepUpstreamGroups THEN {"upstream"} \X groups ELSE {})

\* The identity provider may fail, and then there is no new token; or the Teams cannot be
\* listed, and the token has no groups of theirs.
Identify(withoutTeams) ==
    /\ \/ claims' = getGroups(upstream) /\ UNCHANGED faults
       \/ faults < MaxFaults /\ faults' = faults + 1 /\ claims' \in {claims, withoutTeams}
    /\ UNCHANGED <<objects, seen, queued, quiet, told, seenAccount, requests, edits>>

\* Without the Teams a login may keep the groups of the identity provider, a refresh never.
HandleCallback == Identify(IF KeepUpstreamGroups THEN {"upstream"} \X upstream ELSE {})
Refresh == Identify({})

------------------------------------------------------------------------------
(* The authorization webhook.                                                 *)

Subject == request.subject
Answer(allowed) ==
    /\ request' = Idle(IF Subject = "user" THEN "serviceAccount" ELSE "user")
    /\ answer' = [answer EXCEPT ![Subject] = allowed]
    /\ granted' = IF allowed /\ Subject = "serviceAccount" THEN granted \cup {request.ownedBy} ELSE granted

\* Of a ServiceAccount its Team, from the cache; of a user the claims of the token.
getSupportGroups ==
    IF Subject = "serviceAccount" THEN IF seenAccount = None THEN {} ELSE {seenAccount}
    ELSE {c[2] : c \in {d \in claims : d[1] = "support-group"}}

handleAuthorize ==
    /\ request.pc = "idle"
    /\ IF getSupportGroups = {}
       THEN Answer(FALSE)
       ELSE /\ request' = [request EXCEPT !.pc = "fetch", !.supportGroups = getSupportGroups]
            /\ UNCHANGED <<answer, granted>>
    /\ UNCHANGED <<objects, seen, queued, quiet, told, claims, seenAccount, edits, faults>>

\* The Plugin is read from the API server.
fetchResourceWithOwnership ==
    /\ request.pc = "fetch"
    /\ IF plugin.labels["owned-by"] = None
       THEN Answer(FALSE)
       ELSE /\ request' = [request EXCEPT !.pc = "team", !.ownedBy = plugin.labels["owned-by"]]
            /\ UNCHANGED <<answer, granted>>
    /\ UNCHANGED <<objects, seen, queued, quiet, told, claims, seenAccount, edits, faults>>

ValidateAnyTeam(owner) == owner \in Teams /\ seen["authz"][owner].exists
validateTeam(owner) ==
    /\ owner \in Teams /\ seen["authz"][owner].exists
    /\ seen["authz"][owner].supportGroup = "true"

authorizeAccess ==
    /\ request.pc = "team"
    /\ Answer(validateTeam(request.ownedBy) /\ request.ownedBy \in request.supportGroups)
    /\ UNCHANGED <<objects, seen, queued, quiet, told, claims, seenAccount, edits, faults>>

Authorize == handleAuthorize \/ fetchResourceWithOwnership \/ authorizeAccess

------------------------------------------------------------------------------
Next ==
    \/ EditPreset \/ EditPlugin \/ EditServiceAccount
    \/ \E t \in Teams : EditTeam(t) \/ DeleteTeam(t) \/ EditMembership(t)
    \/ ReconcilePreset \/ Resync \/ HandleCallback \/ Refresh
    \/ \E r \in Readers : Deliver(r)
    \/ DeliverAccount
    \/ Authorize

\* Watches deliver, the queue is worked off, informers resync, tokens are refreshed and
\* subjects go on to ask.
Fairness ==
    /\ WF_vars(ReconcilePreset) /\ WF_vars(Resync) /\ WF_vars(Refresh)
    /\ \A r \in Readers : WF_vars(Deliver(r))
    /\ WF_vars(DeliverAccount)
    /\ WF_vars(Authorize)

Spec == Init /\ [][Next]_vars
FairSpec == Spec /\ Fairness

------------------------------------------------------------------------------
(* Properties.                                                                *)

\* Labels of this project are on no Team but the ones its webhook knows, records of the
\* propagation name propagated keys only, and the steps of requests are in order.
TypeOK ==
    /\ \A t \in Teams : teams[t].supportGroup \in {None, "true", "false"} /\ ~teams[t].other
    /\ plugin.applied.labelKeys \subseteq {"owned-by", "meta/region"}
    /\ plugin.applied.annotationKeys \subseteq AnnotationKeys
    /\ request \in [subject : Subjects, pc : {"idle", "fetch", "team"},
                   supportGroups : SUBSET (Teams \cup {Empty}), ownedBy : Teams \cup {None, Empty}]
    /\ edits \in 0..MaxEdits /\ faults \in 0..MaxFaults

\* What a PluginPreset does not propagate is the business of the Plugin's users: it stays
\* as they left it, whatever is declared, propagated and retracted beside it.
ForeignKept == [][plugin'.labels["own"] # plugin.labels["own"] => edits' # edits]_vars

\* A ServiceAccount is given access to what one Team owns and never to what another one
\* does, whichever labels are changed between its requests and while they are under way.
ServiceAccountKeepsTeam == Cardinality(granted) <= 1

Declares(k) == preset.labels[k] # None /\ (IF k = "meta/region" THEN "meta/*" ELSE k) \in preset.propagateLabels

\* Once nothing changes any more the Plugin has what its PluginPreset declares, nothing
\* that was retracted, and a record of just that.  What was on a record that got lost is
\* not taken back, and what becomes of an annotation with the empty value is the subject
\* of ApplyIsIdempotent.
DeclaredFollows ==
    <>[](LET m == {k \in LabelKeys : Declares(k)}
             note == IF "note" \in preset.propagateAnnotations THEN preset.annotations["note"] ELSE None
         IN /\ plugin.applied.labelKeys = m
            /\ \A k \in m : plugin.labels[k] = preset.labels[k]
            /\ ~Declares("meta/region") /\ "meta/region" \notin stray => plugin.labels["meta/region"] = None
            /\ note \notin {None, Empty} => plugin.annotations["note"] = note
            /\ note = None /\ "note" \notin stray => plugin.annotations["note"] = None)

\* `Apply - performs idempotent propagation of declared label and annotation keys'
\* (propagation.go:47): to do it again changes nothing.  The code sets a declared
\* annotation with the empty value in one pass and deletes it in the next one.
ApplyIsIdempotent == Apply(preset, Apply(preset, plugin)) = Apply(preset, plugin)

Owner == IF Declares("owned-by") THEN preset.labels["owned-by"] ELSE plugin.labels["owned-by"]
IsOwner(o) == o \in Teams /\ teams[o].exists /\ teams[o].supportGroup = "true"

\* Access follows ownership from one end to the other: once nothing changes any more, a
\* user is let through exactly if the identity provider has them in the group of the
\* support group that owns the PluginPreset, and a ServiceAccount exactly if it is theirs.
AccessFollows ==
    <>[](/\ answer["user"] = (IsOwner(Owner) /\ Owner \in upstream)
         /\ answer["serviceAccount"] = (IsOwner(Owner) /\ Owner = account))

\* The condition OwnerLabelSet tells whether the owner is a support group, although no
\* controller hears of a Team that changes.
OwnerTold == <>[](told = IsOwner(preset.labels["owned-by"]))

\* Who changed the PluginPreset without a warning about its owner, with Teams that stay as
\* they are, has made it usable for the members of that owner.
NoWarningNoSurprise ==
    <>[](quiet /\ Declares("owned-by") /\ Owner \in upstream => answer["user"])

\* The safety of ownership: a ServiceAccount serves one Team.
OwnershipSafe == TypeOK /\ ServiceAccountKeepsTeam

\* The Plugin has what is declared, and keeps what is not (propagation.go:47-300).
PropagationFollows == DeclaredFollows /\ ForeignKept

\* Ownership is what everybody is told: by the answers of the authorization webhook, by
\* the condition OwnerLabelSet and by the warning at admission.
OwnershipFollows == AccessFollows /\ OwnerTold /\ NoWarningNoSurprise
==============================================================================
