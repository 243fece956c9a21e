---------------------------- MODULE PluginRelease ----------------------------
(* What the Plugin controller makes of a Plugin: the values of its release,   *)
(* also the ones taken from another Plugin, the images that its charts need   *)
(* in the mirror of the organization, the HelmRelease that Flux installs, and *)
(* the status it reads back.  Two Plugins: the one of a PluginPreset, and one *)
(* of a user that refers to it.                                               *)
EXTENDS Mishaps, Integers, FiniteSets

Plugins == {"preset", "user"}

VARIABLES
    definition,   \* the PluginDefinition of both
    cluster,      \* their cluster
    mirror,       \* the organization has a mirror for images
    replicated,   \* the images (one for each version) that are in the mirror
    plugin,       \* the Plugins ...
    status,       \* ... and their status
    release,      \* the HelmReleases
    pass,         \* the passes of the controller, which has ten workers
    queue         \* per Plugin: no request, one, or a retry

relVars == <<definition, cluster, mirror, replicated, plugin, status, release, pass, queue>>

Null == -1
NoRelease == [state |-> "absent"]
NoPass == [at |-> "idle"]
NoPlugin == [stage |-> "absent", value |-> Null, ref |-> "none", trackers |-> {}, label |-> FALSE]

\* InitPluginStatus, for a Plugin that is new.  NoAccess is False, as the cluster cannot
\* be reached.
NewStatus == [ready |-> "nil", created |-> "Unknown", deployed |-> "Unknown", version |-> Null,
              checksum |-> Null, tracked |-> {}, images |-> {}]
Statuses == {"Unknown", "True", "False"}
Values == Null..3

PluginStates == [stage : {"absent", "live", "deleting"}, value : Values, ref : {"none", "name", "selector"},
                 trackers : SUBSET Plugins, label : BOOLEAN]
PluginStatuses == [ready : Statuses \cup {"nil"}, created : Statuses \cup {"NoAccess"}, deployed : Statuses,
                   version : {Null, 0, 1}, checksum : Values, tracked : SUBSET Plugins, images : SUBSET {0, 1}]
ReleaseSpecs == [version : {0, 1}, value : Values, meta : BOOLEAN, mirrored : BOOLEAN]
Releases == [state : {"present", "going"}, spec : ReleaseSpecs, observed : {"no", "old", "current"},
             ready : {"nil", "True", "False"}, installed : BOOLEAN]
Passes == [at : {"status"}, failed : BOOLEAN, before : {NoRelease} \cup Releases, computed : PluginStatuses]

RelTypeOK ==
    /\ definition \in [version : {0, 1}, state : {"missing", "notReady", "ready"}, chart : BOOLEAN]
    /\ cluster \in [ready : BOOLEAN, match : BOOLEAN, expose : BOOLEAN]
    /\ mirror \in BOOLEAN /\ replicated \subseteq {0, 1}
    /\ plugin \in [Plugins -> PluginStates]
    /\ status \in [Plugins -> PluginStatuses]
    /\ release \in [Plugins -> {NoRelease} \cup Releases]
    /\ pass \in [Plugins -> {NoPass} \cup Passes]
    /\ queue \in [Plugins -> {"none", "now", "retry"}]

Enqueue(ps) == [p \in Plugins |-> IF p \in ps /\ plugin[p].stage # "absent" THEN "now" ELSE queue[p]]
Live(p) == plugin[p].stage = "live"

------------------------------------------------------------------------------
(* The values of a release.                                                   *)

\* GetPluginDefinitionFromPlugin wants a definition that is ready, GetPluginDefinitionSpec
\* any.
isPluginDefinitionReady == definition.state = "ready"
GetPluginDefinitionFromPlugin == isPluginDefinitionReady
GetPluginDefinitionSpec == definition.state # "missing"

\* GetGreenhouseValues: clusters, teams and the metadata of the cluster, of which one
\* label stands for all.
GetGreenhouseValues == cluster.match

\* A reference by name to a Plugin that does not exist resolves to nothing, which is
\* dereferenced all the same: the pass panics.  A selector that selects nothing
\* resolves to null.
resolveByName == IF plugin["preset"].stage = "absent" THEN {} ELSE {plugin["preset"].value}
resolveBySelector == IF plugin["preset"].stage = "absent" THEN {Null} ELSE {plugin["preset"].value}
resolveValueFromRef(ref) == IF ref = "name" THEN resolveByName ELSE resolveBySelector

Panics(p) == plugin[p].ref = "name" /\ resolveByName = {}

\* The objects that a Plugin has its values from.
trackedObjects(p) ==
    IF plugin[p].ref = "none" \/ (plugin[p].ref = "selector" /\ plugin["preset"].stage = "absent")
    THEN {} ELSE {"preset"}

computeReleaseValues(p) ==
    IF plugin[p].ref = "none" THEN plugin[p].value
    ELSE CHOOSE v \in resolveValueFromRef(plugin[p].ref) : TRUE

\* createRegistryMirrorPostRenderer: images are rewritten if there is a mirror.
buildPostRenderer == mirror

ReleaseSpec(p) ==
    [version |-> definition.version, value |-> computeReleaseValues(p),
     meta |-> GetGreenhouseValues, mirrored |-> buildPostRenderer]

\* annotateObjectWithTracking: what fails is done by the next pass.
annotateObjectWithTracking(p, fails) ==
    [q \in Plugins |-> IF q \in trackedObjects(p) /\ ~fails /\ plugin[q].stage # "absent"
                       THEN plugin[q].trackers \cup {p} ELSE plugin[q].trackers]

\* removeUntrackedObjectAnnotations: what fails is forgotten, as the status does not
\* hold it any more.
findUntrackedObjects(p) == status[p].tracked \ trackedObjects(p)
removeUntrackedObjectAnnotations(p, trackers, fails) ==
    [q \in Plugins |-> IF q \in findUntrackedObjects(p) /\ ~fails THEN trackers[q] \ {p} ELSE trackers[q]]

\* ReplicateOCIArtifacts: what the status names is not replicated again.
ReplicateOCIArtifacts(p) == {definition.version} \ status[p].images

------------------------------------------------------------------------------
(* A pass over a Plugin.                                                      *)

\* initClientGetter takes back that the cluster could not be reached.
initClientGetter == cluster.ready
Accessed(s) == IF s.created = "NoAccess" THEN [s EXCEPT !.created = "True"] ELSE s

\* Mutant: a release is made once.
ensureHelmReleaseOnce(p) ==
    IF release[p].state # "absent" THEN release[p]
    ELSE [state |-> "present", spec |-> ReleaseSpec(p), observed |-> "no", ready |-> "nil", installed |-> FALSE]

\* ensureHelmRelease: a new spec is a new generation, which Flux has not observed.
ensureHelmRelease(p) ==
    CASE release[p].state = "absent" ->
           [state |-> "present", spec |-> ReleaseSpec(p), observed |-> "no", ready |-> "nil",
            installed |-> FALSE]
      [] release[p].state = "present" /\ release[p].spec # ReleaseSpec(p) ->
           [release[p] EXCEPT !.spec = ReleaseSpec(p),
                              !.observed = IF @ = "current" THEN "old" ELSE @]
      [] OTHER -> release[p]

\* EnsureFluxCreated, up to the status.
EnsureFluxCreated(p) ==
    /\ pass[p] = NoPass /\ queue[p] = "now" /\ Live(p)
    /\ UNCHANGED <<definition, cluster, mirror, status>>
    /\ \/ \* no definition, no chart, or a value that cannot be had
          /\ ~GetPluginDefinitionFromPlugin \/ ~definition.chart \/ Panics(p)
          /\ LET ok == GetPluginDefinitionFromPlugin /\ ~definition.chart
                 panics == GetPluginDefinitionFromPlugin /\ definition.chart
             IN  /\ queue' = [queue EXCEPT ![p] = IF ok THEN "none" ELSE "retry"]
                 /\ pass' = IF panics THEN pass
                            ELSE [pass EXCEPT ![p] = [at |-> "status", failed |-> ~ok, before |-> release[p],
                                    computed |-> [status[p] EXCEPT !.created = IF ok THEN "Unknown" ELSE "False"]]]
          /\ UNCHANGED <<replicated, plugin, release, mishaps>>
       \/ \E fails \in {"nothing", "annotate", "untrack", "access", "replicate", "release"} :
          /\ GetPluginDefinitionFromPlugin /\ definition.chart /\ ~Panics(p)
          /\ fails = "annotate" => trackedObjects(p) # {}
          /\ fails = "untrack" => findUntrackedObjects(p) # {}
          /\ fails = "replicate" => mirror /\ ReplicateOCIArtifacts(p) # {}
          /\ fails = "access" <=> mirror /\ ~initClientGetter
          /\ Mishap(fails \notin {"nothing", "access"})
          /\ LET ok == fails \notin {"access", "replicate", "release"}
                 filled == mirror /\ fails \notin {"access", "replicate"}
                 added == annotateObjectWithTracking(p, fails = "annotate")
                 trackers == removeUntrackedObjectAnnotations(p, added, fails = "untrack")
                 told == {q \in Plugins : trackers[q] # plugin[q].trackers}
             IN  /\ plugin' = [q \in Plugins |-> [plugin[q] EXCEPT !.trackers = trackers[q]]]
                 /\ replicated' = IF filled THEN replicated \cup ReplicateOCIArtifacts(p) ELSE replicated
                 /\ release' = [release EXCEPT ![p] = IF ok THEN ensureHelmRelease(p) ELSE @]
                 /\ queue' = [q \in Plugins |->
                                IF q \in told \/ (q = p /\ release' # release) THEN "now"
                                ELSE IF q = p THEN (IF ok THEN "none" ELSE "retry") ELSE queue[q]]
                 /\ pass' = [pass EXCEPT ![p] = [at |-> "status", failed |-> ~ok, before |-> release[p],
                       computed |-> [status[p] EXCEPT
                          !.created = IF ok THEN "True" ELSE IF fails = "access" THEN "NoAccess" ELSE "False",
                          !.tracked = trackedObjects(p),
                          !.images = IF filled THEN {definition.version} ELSE @]]]

------------------------------------------------------------------------------
(* Its status.                                                                *)

\* fetchReleaseStatus: the Ready condition of the HelmRelease, of whatever generation;
\* the version only if it is of this one.  A chart that is installed exposes a service,
\* unless the cluster does not expose any or cannot be asked.
deployedCondition(r) == IF r.state = "absent" THEN "False" ELSE IF r.ready = "nil" THEN "Unknown" ELSE r.ready
isReadyCurrent(r) == r.state # "absent" /\ r.observed = "current" /\ r.ready = "True"
deployedVersion(r) == IF isReadyCurrent(r) THEN definition.version ELSE Null
getAllExposedServicesForPlugin(r, fails) ==
    r.state # "absent" /\ r.installed /\ cluster.expose /\ ~fails

\* The status is replaced before the old checksum is read from it.
releaseStatus == [checksum |-> Null]
oldChecksum(s) == releaseStatus.checksum
CalculatePluginOptionChecksum(p) == plugin[p].value

fetchReleaseStatus(p, s, r) ==
    IF ~definition.chart THEN [s EXCEPT !.version = definition.version, !.checksum = Null]
    ELSE [s EXCEPT !.deployed = deployedCondition(r), !.version = deployedVersion(r),
                   !.checksum = IF r.state = "absent" THEN Null ELSE CalculatePluginOptionChecksum(p)]

\* reconcileTrackingResources, triggerReconcileForTracker
reconcileTrackingResources(p, s) ==
    IF oldChecksum(s) # Null /\ oldChecksum(s) # CalculatePluginOptionChecksum(p)
    THEN plugin[p].trackers \ {p} ELSE {}

\* reconcileTechnicalLabels: the answer to the patch holds the status that is stored,
\* and takes the place of the one that was computed, except where it is empty.
Answered(p, s) ==
    IF status[p].ready = "nil" THEN s
    ELSE [status[p] EXCEPT !.version = IF @ = Null THEN s.version ELSE @,
                           !.checksum = IF @ = Null THEN s.checksum ELSE @,
                           !.tracked = IF @ = {} THEN s.tracked ELSE @,
                           !.images = IF @ = {} THEN s.images ELSE @]
reconcileTechnicalLabels(p, label, s) == IF label # plugin[p].label THEN Answered(p, s) ELSE s

computeReadyConditionFlux(s) ==
    IF ~definition.chart THEN "True"
    ELSE IF s.created # "True" THEN "False"
    ELSE IF s.deployed # "True" THEN "False" ELSE "True"

\* setConditions and the patch of the status.  The release may be read as it was before
\* this pass.  A failing call to the cluster is only a condition.
SetPluginStatus(p) ==
    /\ pass[p].at = "status"
    /\ pass' = [pass EXCEPT ![p] = NoPass]
    /\ UNCHANGED <<definition, cluster, mirror, replicated, release>>
    /\ \E early, asks, lost \in BOOLEAN :
          LET r == IF early THEN pass[p].before ELSE release[p]
              s == fetchReleaseStatus(p, Accessed(pass[p].computed), r)
              label == IF ~definition.chart THEN FALSE ELSE getAllExposedServicesForPlugin(r, ~asks)
              kept == reconcileTechnicalLabels(p, label, s)
              reachable == initClientGetter /\ GetPluginDefinitionSpec
              new == IF ~reachable
                     THEN [pass[p].computed EXCEPT !.created = IF initClientGetter THEN "False" ELSE "NoAccess",
                                                   !.ready = "False"]
                     ELSE [kept EXCEPT !.ready = computeReadyConditionFlux(kept)]
              told == IF reachable /\ definition.chart THEN reconcileTrackingResources(p, s) ELSE {}
          IN  /\ early => pass[p].before # release[p] /\ reachable
              /\ ~asks => reachable /\ definition.chart /\ r.state # "absent" /\ r.installed /\ cluster.expose
              /\ ~asks => ~lost
              /\ Mishap(~asks \/ lost)
              /\ plugin' = IF reachable /\ plugin[p].stage # "absent"
                           THEN [plugin EXCEPT ![p].label = label] ELSE plugin
              /\ status' = IF lost \/ plugin[p].stage = "absent" THEN status ELSE [status EXCEPT ![p] = new]
              /\ queue' = [q \in Plugins |->
                             IF plugin[q].stage = "absent" THEN "none"
                             ELSE IF q \in told \/ plugin'[q] # plugin[q] \/ status'[q] # status[q] THEN "now"
                             ELSE IF q = p /\ (pass[p].failed \/ lost) /\ queue[q] = "none" THEN "retry"
                             ELSE queue[q]]

------------------------------------------------------------------------------
(* The end of a Plugin, and Flux.                                             *)

\* EnsureFluxDeleted: the HelmRelease first, then the finalizer, which is an update that the
\* webhook refuses if there is no definition.
EnsureFluxDeleted(p) ==
    /\ pass[p] = NoPass /\ queue[p] = "now" /\ plugin[p].stage = "deleting"
    /\ \/ /\ release[p].state = "absent" /\ GetPluginDefinitionSpec
          /\ plugin' = [plugin EXCEPT ![p] = NoPlugin]
          /\ status' = [status EXCEPT ![p] = NewStatus]
          /\ queue' = [queue EXCEPT ![p] = "none"]
          /\ UNCHANGED release
       \/ /\ release[p].state = "absent" /\ ~GetPluginDefinitionSpec
          /\ queue' = [queue EXCEPT ![p] = "retry"]
          /\ UNCHANGED <<plugin, status, release>>
       \/ /\ release[p].state # "absent"
          /\ release' = [release EXCEPT ![p].state = "going"]
          /\ queue' = [queue EXCEPT ![p] = "none"]
          /\ UNCHANGED <<plugin, status>>
    /\ UNCHANGED <<definition, cluster, mirror, replicated, pass, mishaps>>

\* Flux installs or upgrades what a generation asks for, or fails; what failed is tried
\* again.  Until then the condition is that of an older generation, or there is none.
FluxStep(p) ==
    /\ release[p].state # "absent"
    /\ \/ /\ release[p].state = "going" /\ release' = [release EXCEPT ![p] = NoRelease]
          /\ UNCHANGED mishaps
       \/ /\ release[p].state = "present" /\ ~isReadyCurrent(release[p])
          /\ \E fails \in BOOLEAN :
                /\ Mishap(fails)
                /\ release' = [release EXCEPT ![p].observed = "current",
                                              ![p].ready = IF fails THEN "False" ELSE "True",
                                              ![p].installed = @ \/ ~fails]
    /\ queue' = Enqueue({p})
    /\ UNCHANGED <<definition, cluster, mirror, replicated, plugin, status, pass>>
==============================================================================
