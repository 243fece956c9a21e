------------------------------ MODULE Admission ------------------------------
(* The hub with its admission webhooks: users edit definitions, a Plugin of    *)
(* their own or a PluginPreset, and the controllers write through the same     *)
(* webhooks: the PluginPreset controller its Plugin, the Plugin controller the *)
(* finalizer of a Plugin that is being deleted.                                *)
EXTENDS PluginAdmission

CONSTANT MaxChanges    \* edits of users

ASSUME MaxChangesAssumption == MaxChanges \in Nat

VARIABLES
    defs,           \* the definitions
    seenDefs,       \* the definitions in the cache that webhooks and controllers read
    storedPlugin,   \* the Plugin
    hasStatus,      \* whether the Plugin has a HelmReleaseStatus
    asOf,           \* the definition that both webhooks found at the last request for the Plugin
    storedPreset,   \* the PluginPreset
    presetQueued,   \* the PluginPreset waits for a pass
    release,        \* the Helm release of the Plugin: its place, and whether the Plugin named it all
    changes         \* the edits so far

admissionVars == <<defs, seenDefs, storedPlugin, hasStatus, asOf, storedPreset, presetQueued, release, changes>>

NoRelease == [name |-> Nil, namespace |-> Nil, cluster |-> Nil, named |-> FALSE]
NoPlugin == [exists |-> FALSE, deleting |-> FALSE, kind |-> "", name |-> "", cluster |-> "",
             releaseName |-> "", releaseNamespace |-> "", waitFor |-> <<>>, entry |-> NoEntry,
             label |-> <<>>]
NoPreset == [exists |-> FALSE, kind |-> "", name |-> "", selects |-> TRUE, releaseName |-> "",
             releaseNamespace |-> "", waitFor |-> <<>>, entry |-> NoEntry]

------------------------------------------------------------------------------
(* What users ask for: small variations of one request at a time.             *)

Options == {NoOption,
            [type |-> "string", default |-> Nil, required |-> FALSE],
            [type |-> "string", default |-> Nil, required |-> TRUE],
            [type |-> "string", default |-> "s1", required |-> TRUE],
            [type |-> "string", default |-> "s2", required |-> TRUE],
            [type |-> "string", default |-> "number", required |-> FALSE],
            [type |-> "int", default |-> "number", required |-> FALSE],
            [type |-> "secret", default |-> Nil, required |-> TRUE],
            [type |-> "secret", default |-> "empty", required |-> FALSE],
            [type |-> "secret", default |-> "s1", required |-> FALSE]}
NoDefinition == [exists |-> FALSE, version |-> FALSE, chart |-> FALSE, ui |-> FALSE, option |-> NoOption]
Definition(o) == [exists |-> TRUE, version |-> TRUE, chart |-> TRUE, ui |-> FALSE, option |-> o]
DefinitionRequests(d) ==
    {[d EXCEPT !.option = o] : o \in Options} \cup
    {[d EXCEPT !.chart = b[1], !.ui = b[2]] : b \in BOOLEAN \X BOOLEAN} \cup
    {[d EXCEPT !.version = FALSE]}

Entries == {NoEntry, Plain("s1"), Plain("s2"), Plain("vault"), Plain("number"), From("secret"),
            From("secretWithoutKey"), From("ref"), Expression, Unset,
            [Plain("s1") EXCEPT !.from = "secret"]}
WaitFors == {<<>>, <<ByName("p")>>, <<ByPreset("p")>>, <<ByName("p"), ByPreset("p")>>,
             <<ByName("p"), ByName("p")>>, <<[name |-> "p", preset |-> "p"]>>, <<ByName("")>>}

\* A Plugin with one field changed.
Variations(p) ==
    {[p EXCEPT !.entry = e] : e \in Entries} \cup
    {[p EXCEPT !.waitFor = w] : w \in WaitFors} \cup
    {[p EXCEPT !.cluster = c] : c \in Clusters \cup {"", "gone"}} \cup
    {[p EXCEPT !.releaseNamespace = n] : n \in {"", Organization, "other"}} \cup
    {[p EXCEPT !.releaseName = n] : n \in {"", "own", "Bad_Name"}} \cup
    {[p EXCEPT !.kind = r[1], !.name = r[2]] :
        r \in Definitions \cup {<<"", "alerts">>, <<"", "logs">>, <<"", "">>}}

NewPlugin == [NoPlugin EXCEPT !.exists = TRUE, !.name = "alerts", !.cluster = "c1"]
CreateRequests == Variations(NewPlugin) \cup Variations([NewPlugin EXCEPT !.cluster = ""])
NewPreset == [NoPreset EXCEPT !.exists = TRUE, !.name = "alerts"]
PresetRequests(s) ==
    {[s EXCEPT !.entry = e] : e \in Entries \ {From("ref")}} \cup
    {[s EXCEPT !.releaseNamespace = n] : n \in {"", "other"}} \cup
    {[s EXCEPT !.waitFor = w] : w \in {<<ByPreset("p")>>, <<ByName("p"), ByName("p")>>}} \cup
    {[s EXCEPT !.name = n] : n \in {"", "alerts"}} \cup
    {[s EXCEPT !.selects = b] : b \in BOOLEAN} \cup
    {[s EXCEPT !.releaseName = n] : n \in {"", "own", "own2", "Bad_Name"}}

------------------------------------------------------------------------------
AdmissionInit ==
    /\ \E o \in {NoOption, [type |-> "string", default |-> "s1", required |-> TRUE]} :
          defs = [r \in Definitions |-> Definition(o)]
    /\ seenDefs = defs
    /\ storedPlugin = NoPlugin /\ hasStatus = FALSE /\ asOf = NoDefinition
    /\ storedPreset = NoPreset /\ presetQueued = FALSE
    /\ release = NoRelease
    /\ changes = 0

Change == changes < MaxChanges /\ changes' = changes + 1

EditDefinition(r) ==
    /\ Change /\ defs[r].exists
    /\ \E d \in DefinitionRequests(defs[r]) \ {defs[r]} :
          validateDefinition(d) /\ defs' = [defs EXCEPT ![r] = d]
    /\ UNCHANGED <<seenDefs, storedPlugin, hasStatus, asOf, storedPreset, presetQueued, release>>

\* Not while a Plugin carries its label.
validateDelete(r) == ~(storedPlugin.exists /\ storedPlugin.label = r)

DeleteDefinition(r) ==
    /\ Change /\ defs[r].exists
    /\ validateDelete(r)
    /\ defs' = [defs EXCEPT ![r].exists = FALSE]
    /\ UNCHANGED <<seenDefs, storedPlugin, hasStatus, asOf, storedPreset, presetQueued, release>>

\* Of a definition that has changed in the cache its PluginPresets hear.
enqueueNobody(later) == FALSE
enqueuePluginPresets(later) ==
    storedPreset.exists /\ \E r \in Definitions : RefOf(storedPreset) = r /\ later[r] # seenDefs[r]

\* The cache catches up, on its own or between the two reads of a request.
CatchUp(later) ==
    /\ seenDefs' = later
    /\ presetQueued' = (presetQueued \/ enqueuePluginPresets(later))

DeliverDefinitions ==
    /\ seenDefs # defs
    /\ CatchUp(defs)
    /\ UNCHANGED <<defs, storedPlugin, hasStatus, asOf, storedPreset, release, changes>>

\* The definition of a Plugin that was admitted, if the two webhooks agree on it.
Found(ref, later) == IF later[ref] = seenDefs[ref] THEN later[ref] ELSE NoDefinition

CreatePlugin ==
    /\ Change /\ ~storedPlugin.exists /\ ~storedPreset.exists
    /\ \E p \in CreateRequests, later \in {seenDefs, defs} :
          /\ AdmitCreate(seenDefs, later, p)
          /\ storedPlugin' = Admitted(seenDefs, p, FALSE)
          /\ asOf' = Found(RefOf(p), later)
          /\ CatchUp(later)
    /\ UNCHANGED <<defs, hasStatus, storedPreset, release>>

\* A patch keeps the status the request is made from, a replacement may leave it out.
UpdatePlugin ==
    /\ Change /\ storedPlugin.exists /\ ~storedPreset.exists
    /\ \E p \in Variations(storedPlugin), patch \in BOOLEAN, later \in {seenDefs, defs} :
          /\ AdmitUpdate(seenDefs, later, storedPlugin, p, hasStatus, hasStatus /\ patch)
          /\ storedPlugin' = Admitted(seenDefs, p, hasStatus /\ patch)
          /\ asOf' = Found(RefOf(p), later)
          /\ CatchUp(later)
    /\ UNCHANGED <<defs, hasStatus, storedPreset, release>>

DeletePlugin ==
    /\ Change /\ storedPlugin.exists /\ ~storedPlugin.deleting /\ ~storedPreset.exists
    /\ storedPlugin' = [storedPlugin EXCEPT !.deleting = TRUE]
    /\ UNCHANGED <<defs, seenDefs, hasStatus, asOf, storedPreset, presetQueued, release>>

CreatePreset ==
    /\ Change /\ ~storedPreset.exists /\ ~storedPlugin.exists
    /\ \E s \in PresetRequests(NewPreset) :
          ValidateCreatePluginPreset(DefaultPluginPreset(s)) /\ storedPreset' = DefaultPluginPreset(s)
    /\ presetQueued' = TRUE
    /\ UNCHANGED <<defs, seenDefs, storedPlugin, hasStatus, asOf, release>>

UpdatePreset ==
    /\ Change /\ storedPreset.exists
    /\ \E s \in PresetRequests(storedPreset) :
          /\ PresetReleaseNameImmutable(storedPreset, s)
          /\ ValidateUpdatePluginPreset(DefaultPluginPreset(s))
          /\ storedPreset' = DefaultPluginPreset(s)
    /\ presetQueued' = TRUE
    /\ UNCHANGED <<defs, seenDefs, storedPlugin, hasStatus, asOf, release>>

------------------------------------------------------------------------------
(* The controllers.                                                           *)

\* The Plugin that the PluginPreset wants, made of the one there is.
Wanted ==
    pluginSpecFromPluginPreset(storedPreset, "c1", [storedPlugin EXCEPT !.exists = TRUE], hasStatus)
IsAdmitted(w, later) ==
    IF storedPlugin.exists THEN AdmitUpdate(seenDefs, later, storedPlugin, w, hasStatus, hasStatus)
    ELSE AdmitCreate(seenDefs, later, w)

\* A pass over the PluginPreset: it creates or updates the Plugin, or comes again.
ReconcilePluginPreset ==
    /\ storedPreset.exists /\ presetQueued
    /\ \E w \in {Wanted}, later \in {seenDefs, defs} :
          \/ /\ ~IsAdmitted(w, later)
             /\ CatchUp(later)
             /\ UNCHANGED <<storedPlugin, asOf>>
          \/ /\ IsAdmitted(w, later)
             /\ storedPlugin' = Admitted(seenDefs, w, hasStatus)
             /\ asOf' = Found(RefOf(w), later)
             /\ seenDefs' = later /\ presetQueued' = enqueuePluginPresets(later)
    /\ UNCHANGED <<defs, hasStatus, storedPreset, release, changes>>

\* A pass over the Plugin leaves it with a HelmReleaseStatus, however far it came.
InitPluginStatus ==
    /\ storedPlugin.exists /\ ~storedPlugin.deleting /\ ~hasStatus
    /\ hasStatus' = TRUE
    /\ UNCHANGED <<defs, seenDefs, storedPlugin, asOf, storedPreset, presetQueued, release, changes>>

\* It writes the place of the release into the HelmRelease; a release without a namespace
\* goes into that of the HelmRelease.
ensureRelease ==
    /\ storedPlugin.exists /\ ~storedPlugin.deleting
    /\ IsFound(seenDefs, RefOf(storedPlugin)) /\ seenDefs[RefOf(storedPlugin)].chart
    /\ release' = [name |-> GetReleaseName(storedPlugin),
                   namespace |-> IF storedPlugin.releaseNamespace = "" THEN Organization
                                 ELSE storedPlugin.releaseNamespace,
                   cluster |-> storedPlugin.cluster,
                   named |-> IF release # NoRelease THEN release.named
                             ELSE storedPlugin.releaseName # "" /\ storedPlugin.releaseNamespace # ""]
    /\ UNCHANGED <<defs, seenDefs, storedPlugin, hasStatus, asOf, storedPreset, presetQueued, changes>>

\* The finalizer goes by an update of the Plugin as it is.
FinalizePlugin ==
    /\ storedPlugin.exists /\ storedPlugin.deleting
    /\ \E later \in {seenDefs, defs} :
          /\ AdmitUpdate(seenDefs, later, storedPlugin, storedPlugin, hasStatus, hasStatus)
          /\ CatchUp(later)
    /\ storedPlugin' = NoPlugin /\ hasStatus' = FALSE /\ asOf' = NoDefinition /\ release' = NoRelease
    /\ UNCHANGED <<defs, storedPreset, changes>>

AdmissionNext ==
    \/ \E r \in Definitions : EditDefinition(r) \/ DeleteDefinition(r)
    \/ DeliverDefinitions
    \/ CreatePlugin \/ UpdatePlugin \/ DeletePlugin
    \/ CreatePreset \/ UpdatePreset
    \/ ReconcilePluginPreset \/ InitPluginStatus \/ ensureRelease \/ FinalizePlugin

AdmissionSpec == AdmissionInit /\ [][AdmissionNext]_admissionVars

\* Watches deliver, and the work queue hands out what is in it.
FairAdmissionSpec ==
    AdmissionSpec /\ WF_admissionVars(DeliverDefinitions) /\ WF_admissionVars(ReconcilePluginPreset)

------------------------------------------------------------------------------
(* Properties.                                                                *)

\* All that is stored has the form the webhooks ask for, whichever of them let it in.
WellFormed ==
    /\ \A r \in Definitions : validateDefinition(defs[r])
    /\ storedPlugin.exists =>
          /\ storedPlugin.label = RefOf(storedPlugin) /\ storedPlugin.label \in Definitions
          /\ validateWaitForPluginRefs(storedPlugin.waitFor, storedPlugin.cluster = "")
    /\ storedPreset.exists => validateWaitForPluginRefs(storedPreset.waitFor, FALSE)
    /\ presetQueued \in BOOLEAN
    /\ changes \in 0..MaxChanges

\* Defaulting twice is defaulting once, and what was let in is let in again: as long as the
\* definition is what it was, an update that changes nothing is accepted and changes nothing,
\* whether or not the request carries the status.  The operator takes finalizers off and
\* writes labels with such updates.
AdmittedAgain ==
    storedPlugin.exists /\ asOf = seenDefs[RefOf(storedPlugin)] =>
       \A sawStatus \in {hasStatus, FALSE} :
          /\ AdmitUpdate(seenDefs, seenDefs, storedPlugin, storedPlugin, hasStatus, sawStatus)
          /\ Admitted(seenDefs, storedPlugin, sawStatus) = storedPlugin

\* The option of a stored Plugin whose definition is what it was has a value where the
\* definition requires one, of one source and of its type, a secret only by reference: no
\* way of creating or changing a Plugin, its PluginPreset or the definition leads past it.
ValuesFit ==
    LET o == asOf.option
        e == storedPlugin.entry
    IN storedPlugin.exists /\ asOf = defs[RefOf(storedPlugin)] /\ o # NoOption =>
          /\ e = NoEntry => ~o.required /\ o.default = Nil
          /\ e # NoEntry =>
               /\ e \notin {Unset, [Plain("s1") EXCEPT !.from = "secret"]}
               /\ e.value = "number" => o.type = "int"
               /\ e.value \in Strings => o.type # "int"
               /\ o.type = "secret" => e.value \in {Nil, "vault"}

\* A Helm release stays where it was installed under the name it was installed with: Flux
\* would install a second one and leave the first behind.  This is for a Plugin that had its
\* release name and namespace when it was first deployed; the webhooks give both to every
\* Plugin that is created under a definition with a chart.
ReleaseStays ==
    [][ release.named /\ release' # NoRelease =>
           /\ release'.name = release.name /\ release'.namespace = release.namespace
           /\ release'.cluster = release.cluster ]_admissionVars

\* A new default reaches the Plugin of a PluginPreset that leaves the option to its
\* definition, unless the Plugin is refused for another reason.
DefaultsFollow ==
    <>[](LET o == defs[RefOf(storedPreset)].option
         IN storedPreset.exists /\ storedPreset.entry = NoEntry /\ IsAdmitted(Wanted, defs) /\ o.default # Nil
               => storedPlugin.exists /\ storedPlugin.entry = Plain(o.default))

\* What is stored is what the webhooks would let in again, and fits its definition.
StoredIsAdmissible == WellFormed /\ AdmittedAgain /\ ValuesFit
==============================================================================
