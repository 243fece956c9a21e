---------------------------- MODULE RolloutProofs ----------------------------
(* Proofs about the rollout of a Plugin: however often users edit and calls   *)
(* fail, a release takes its images from the mirror only if they are there,   *)
(* and a PluginPreset that nothing will wake up has nothing to do.            *)
EXTENDS PluginRollout, TLAPS

\* What a status names as replicated is in the mirror, also what a pass is about to write.
ImagesRecorded ==
    \A p \in Plugins : /\ status[p].images \subseteq replicated
                       /\ pass[p] # NoPass => pass[p].computed.images \subseteq replicated

\* The cache does not hold on to a Plugin that is gone.
CachedExists == cached => plugin[Mine].stage # "absent"

\* Without a request a PluginPreset that is being deleted has no pass under way, and a Plugin
\* whose end will wake it up.
AwakeForDeletion ==
    preset.stage = "deleting" /\ presetQueue # "now" =>
        presetPass = NoPass /\ plugin[Mine].stage # "absent"

\* Without request, retry or pass, a PluginPreset has listed its Plugin as it is: whatever
\* the Plugin, its release and their controllers are busy with.
AwakeForList ==
    preset.stage = "live" /\ presetPass = NoPass /\ presetQueue = "none" /\ (cached => Live(Mine)) =>
        presetStatus.listed = pluginReadyCondition

RelInv == RelTypeOK /\ ImagesThere /\ ImagesRecorded
PresetInv == PresetTypeOK /\ CachedExists /\ AwakeForDeletion /\ AwakeForList
RolloutInv == RelInv /\ PresetInv /\ edits \in 0..MaxEdits /\ mishaps \in 0..MaxMishaps

-----------------------------------------------------------------------------
(* Values, specs and statuses.                                                *)

\* The values that occur.
LEMMA NullFacts == Null \in Values /\ 0 \in Values /\ 1 \in Values /\ 2 \in Values /\ 3 \in Values
  BY DEF Null, Values

\* What the state of a Plugin is made of.
LEMMA PluginFacts ==
    ASSUME RelTypeOK, NEW p \in Plugins
    PROVE  /\ plugin[p] \in PluginStates /\ status[p] \in PluginStatuses
           /\ release[p] \in {NoRelease} \cup Releases
           /\ pass[p] \in {NoPass} \cup Passes /\ pass[p] # NoPass => pass[p] \in Passes
           /\ pass[p].at = "status" => pass[p] \in Passes
           /\ release[p].state # "absent" => release[p] \in Releases
           /\ release[p].state \in {"absent", "present", "going"}
  <1>1. /\ plugin[p] \in PluginStates /\ status[p] \in PluginStatuses
        /\ release[p] \in {NoRelease} \cup Releases
        /\ pass[p] \in {NoPass} \cup Passes
    BY DEF RelTypeOK
  <1>2. NoPass.at = "idle" /\ NoRelease.state = "absent"
    BY DEF NoPass, NoRelease
  <1>3. release[p] \in Releases => release[p].state \in {"present", "going"}
    BY DEF Releases
  <1>4. QED
    BY <1>1, <1>2, <1>3

\* The Plugins that occur.
LEMMA MineIsPlugin == Mine \in Plugins /\ "preset" \in Plugins /\ "user" \in Plugins
  BY DEF Mine, Plugins

\* What a release is made from.
LEMMA ReleaseSpecFacts ==
    ASSUME RelTypeOK, NEW p \in Plugins, ~Panics(p)
    PROVE  /\ ReleaseSpec(p) \in ReleaseSpecs
           /\ ReleaseSpec(p).version = definition.version /\ ReleaseSpec(p).mirrored = mirror
  <1>1. plugin["preset"].value \in Values /\ plugin[p].value \in Values
        /\ plugin[p].ref \in {"none", "name", "selector"}
    BY MineIsPlugin, PluginFacts DEF PluginStates
  <1>2. PICK value : value = computeReleaseValues(p)
    OBVIOUS
  <1>3. value \in Values
    <2>1. CASE plugin[p].ref = "none"
      BY <1>1, <1>2, <2>1 DEF computeReleaseValues
    <2>2. CASE plugin[p].ref # "none"
      <3>1. resolveValueFromRef(plugin[p].ref) \in {{Null}, {plugin["preset"].value}}
        BY <1>1, <2>2 DEF resolveValueFromRef, resolveByName, resolveBySelector, Panics
      <3>2. value \in resolveValueFromRef(plugin[p].ref)
        BY <1>2, <2>2, <3>1 DEF computeReleaseValues
      <3>3. QED
        BY <1>1, <3>1, <3>2, NullFacts
    <2>3. QED
      BY <2>1, <2>2
  <1>4. definition.version \in {0, 1} /\ mirror \in BOOLEAN /\ cluster.match \in BOOLEAN
    BY DEF RelTypeOK
  <1>5. ReleaseSpec(p) = [version |-> definition.version, value |-> value,
                          meta |-> cluster.match, mirrored |-> mirror]
    BY <1>2 DEF ReleaseSpec, GetGreenhouseValues, buildPostRenderer
  <1>6. QED
    BY <1>3, <1>4, <1>5 DEF ReleaseSpecs

\* The release after a pass: the one there was, or one of the current spec.
LEMMA EnsureHelmReleaseFacts ==
    ASSUME RelTypeOK, NEW p \in Plugins, ~Panics(p)
    PROVE  /\ ensureHelmRelease(p) \in Releases
           /\ ensureHelmRelease(p) = release[p] \/ ensureHelmRelease(p).spec = ReleaseSpec(p)
  <1>1. PICK spec \in ReleaseSpecs : spec = ReleaseSpec(p)
    BY ReleaseSpecFacts
  <1>2. CASE release[p].state = "absent"
    <2>1. ensureHelmRelease(p) = [state |-> "present", spec |-> spec, observed |-> "no",
                                  ready |-> "nil", installed |-> FALSE]
      BY <1>1, <1>2 DEF ensureHelmRelease
    <2>2. QED
      BY <1>1, <2>1 DEF Releases
  <1>3. CASE release[p].state = "present" /\ release[p].spec # spec
    <2>1. ensureHelmRelease(p) = [release[p] EXCEPT !.spec = spec,
                              !.observed = IF @ = "current" THEN "old" ELSE @]
      BY <1>1, <1>3 DEF ensureHelmRelease
    <2>2. release[p] \in Releases
      BY <1>3, PluginFacts
    <2>3. QED
      BY <1>1, <2>1, <2>2 DEF Releases
  <1>4. CASE release[p].state # "absent" /\ ~(release[p].state = "present" /\ release[p].spec # spec)
    <2>1. ensureHelmRelease(p) = release[p]
      BY <1>1, <1>4 DEF ensureHelmRelease
    <2>2. QED
      BY <1>4, <2>1, PluginFacts
  <1>5. QED
    BY <1>2, <1>3, <1>4

-----------------------------------------------------------------------------
(* A pass over a Plugin.                                                      *)

\* The part of the state that the mirror is about.
LEMMA EnsureFluxCreatedKeeps ==
    ASSUME RelInv, NEW p \in Plugins, EnsureFluxCreated(p)
    PROVE  RelInv' /\ UNCHANGED <<definition, cluster, mirror, status>>
           /\ \A q \in Plugins : plugin'[q].stage = plugin[q].stage
  <1>1. UNCHANGED <<definition, cluster, mirror, status>> /\ pass[p] = NoPass
    BY DEF EnsureFluxCreated
  <1>2. /\ status[p] \in PluginStatuses /\ release[p] \in {NoRelease} \cup Releases
        /\ status[p].images \subseteq replicated /\ RelTypeOK
    BY PluginFacts DEF RelInv, ImagesRecorded
  <1>3. ASSUME NEW new \in Passes, new.computed.images \subseteq replicated',
               pass' = [pass EXCEPT ![p] = new] \/ pass' = pass,
               replicated \subseteq replicated'
        PROVE  /\ pass' \in [Plugins -> {NoPass} \cup Passes]
               /\ ImagesRecorded'
    <2>1. pass' \in [Plugins -> {NoPass} \cup Passes]
      BY <1>3 DEF RelInv, RelTypeOK
    <2>2. \A q \in Plugins : pass'[q] = pass[q] \/ pass'[q] = new
      BY <1>3 DEF RelInv, RelTypeOK
    <2>3. QED
      BY <1>1, <1>3, <2>1, <2>2 DEF RelInv, ImagesRecorded
  <1>4. CASE ~GetPluginDefinitionFromPlugin \/ ~definition.chart \/ Panics(p)
    <2>1. PICK ok : ok = (GetPluginDefinitionFromPlugin /\ ~definition.chart)
      OBVIOUS
    <2>2. PICK computed : computed = [status[p] EXCEPT !.created = IF ok THEN "Unknown" ELSE "False"]
      OBVIOUS
    <2>3. PICK new : new = [at |-> "status", failed |-> ~ok, before |-> release[p], computed |-> computed]
      OBVIOUS
    <2>4. /\ queue' = [queue EXCEPT ![p] = IF ok THEN "none" ELSE "retry"]
          /\ pass' = [pass EXCEPT ![p] = new] \/ pass' = pass
          /\ UNCHANGED <<replicated, plugin, release>>
      BY <1>4, <2>1, <2>2, <2>3 DEF EnsureFluxCreated
    <2>5. computed \in PluginStatuses /\ computed.images = status[p].images
      BY <1>2, <2>2 DEF PluginStatuses, Statuses
    <2>6. new \in Passes /\ new.computed = computed
      BY <1>2, <2>1, <2>3, <2>5 DEF Passes
    <2>7. pass' \in [Plugins -> {NoPass} \cup Passes] /\ ImagesRecorded'
      BY <1>2, <1>3, <2>4, <2>5, <2>6
    <2>8. RelTypeOK'
      BY <1>1, <2>4, <2>7 DEF RelInv, RelTypeOK
    <2>9. ImagesThere'
      BY <2>4 DEF RelInv, ImagesThere
    <2>10. QED
      BY <1>1, <2>4, <2>7, <2>8, <2>9 DEF RelInv
  <1>5. CASE GetPluginDefinitionFromPlugin /\ definition.chart /\ ~Panics(p)
    <2>1. PICK fails \in {"nothing", "annotate", "untrack", "access", "replicate", "release"} :
             LET ok == fails \notin {"access", "replicate", "release"}
                 filled == mirror /\ fails \notin {"access", "replicate"}
                 added == annotateObjectWithTracking(p, fails = "annotate")
                 trackers == removeUntrackedObjectAnnotations(p, added, fails = "untrack")
                 told == {q \in Plugins : trackers[q] # plugin[q].trackers}
             IN  /\ plugin' = [q \in Plugins |-> [plugin[q] EXCEPT !.trackers = trackers[q]]]
                 /\ replicated' = IF filled THEN replicated \cup ReplicateOCIArtifacts(p) ELSE replicated
                 /\ release' = [release EXCEPT ![p] = IF ok THEN ensureHelmRelease(p) ELSE @]
                 /\ queue' = [q \in Plugins |->
                                IF q \in told \/ (q = p /\ release' # release) THEN "now"
                                ELSE IF q = p THEN (IF ok THEN "none" ELSE "retry") ELSE queue[q]]
                 /\ pass' = [pass EXCEPT ![p] = [at |-> "status", failed |-> ~ok, before |-> release[p],
                       computed |-> [status[p] EXCEPT
                          !.created = IF ok THEN "True" ELSE IF fails = "access" THEN "NoAccess" ELSE "False",
                          !.tracked = trackedObjects(p),
                          !.images = IF filled THEN {definition.version} ELSE @]]]
      BY <1>5 DEF EnsureFluxCreated
    <2>2. PICK ok : ok = (fails \notin {"access", "replicate", "release"})
      OBVIOUS
    <2>3. PICK filled : filled = (mirror /\ fails \notin {"access", "replicate"})
      OBVIOUS
    <2>4. PICK trackers : trackers = removeUntrackedObjectAnnotations(p,
                              annotateObjectWithTracking(p, fails = "annotate"), fails = "untrack")
      OBVIOUS
    <2>5. PICK told : told = {q \in Plugins : trackers[q] # plugin[q].trackers}
      OBVIOUS
    <2>6. PICK computed : computed = [status[p] EXCEPT
                          !.created = IF ok THEN "True" ELSE IF fails = "access" THEN "NoAccess" ELSE "False",
                          !.tracked = trackedObjects(p),
                          !.images = IF filled THEN {definition.version} ELSE @]
      OBVIOUS
    <2>7. /\ plugin' = [q \in Plugins |-> [plugin[q] EXCEPT !.trackers = trackers[q]]]
          /\ replicated' = IF filled THEN replicated \cup ReplicateOCIArtifacts(p) ELSE replicated
          /\ release' = [release EXCEPT ![p] = IF ok THEN ensureHelmRelease(p) ELSE @]
      BY <2>1, <2>2, <2>3, <2>4
    <2>8. queue' = [q \in Plugins |->
                                IF q \in told \/ (q = p /\ release' # release) THEN "now"
                                ELSE IF q = p THEN (IF ok THEN "none" ELSE "retry") ELSE queue[q]]
      BY <2>1, <2>2, <2>4, <2>5
    <2>9. pass' = [pass EXCEPT ![p] = [at |-> "status", failed |-> ~ok, before |-> release[p],
                                       computed |-> computed]]
      BY <2>1, <2>2, <2>3, <2>6
    <2>10. definition.version \in {0, 1}
      BY <1>2 DEF RelTypeOK
    <2>11. /\ replicated \subseteq replicated' /\ replicated' \subseteq {0, 1}
           /\ filled => definition.version \in replicated'
      BY <1>2, <2>3, <2>7, <2>10 DEF ReplicateOCIArtifacts, RelTypeOK
    <2>12. trackers \in [Plugins -> SUBSET Plugins]
      <3>1. \A q \in Plugins : plugin[q].trackers \subseteq Plugins
        BY <1>2, PluginFacts DEF PluginStates
      <3>2. PICK added : added = annotateObjectWithTracking(p, fails = "annotate")
        OBVIOUS
      <3>3. added \in [Plugins -> SUBSET Plugins]
        BY <3>1, <3>2 DEF annotateObjectWithTracking
      <3>4. trackers = removeUntrackedObjectAnnotations(p, added, fails = "untrack")
        BY <2>4, <3>2
      <3>5. QED
        BY <3>3, <3>4 DEF removeUntrackedObjectAnnotations
    <2>13. \A q \in Plugins : /\ plugin'[q] \in PluginStates
                              /\ plugin'[q].stage = plugin[q].stage
      <3>1. SUFFICES ASSUME NEW q \in Plugins
                     PROVE  plugin'[q] \in PluginStates /\ plugin'[q].stage = plugin[q].stage
        OBVIOUS
      <3>2. plugin'[q] = [plugin[q] EXCEPT !.trackers = trackers[q]]
        BY <2>7
      <3>3. plugin[q] \in PluginStates /\ trackers[q] \subseteq Plugins
        BY <1>2, <2>12, PluginFacts
      <3>4. QED
        BY <3>2, <3>3 DEF PluginStates
    <2>14. plugin' \in [Plugins -> PluginStates]
      BY <2>7, <2>13
    <2>15. computed \in PluginStatuses /\ computed.images \subseteq replicated'
      <3>1. trackedObjects(p) \subseteq Plugins
        BY MineIsPlugin DEF trackedObjects
      <3>2. PICK created : created = IF ok THEN "True" ELSE IF fails = "access" THEN "NoAccess" ELSE "False"
        OBVIOUS
      <3>3. PICK images : images = IF filled THEN {definition.version} ELSE status[p].images
        OBVIOUS
      <3>4. computed = [status[p] EXCEPT !.created = created, !.tracked = trackedObjects(p),
                                         !.images = images]
        BY <2>6, <3>2, <3>3
      <3>5. created \in Statuses \cup {"NoAccess"}
        BY <3>2 DEF Statuses
      <3>6. images \subseteq {0, 1} /\ images \subseteq replicated'
        BY <1>2, <2>10, <2>11, <3>3 DEF PluginStatuses
      <3>7. QED
        BY <1>2, <3>1, <3>4, <3>5, <3>6 DEF PluginStatuses
    <2>16. PICK new : new = [at |-> "status", failed |-> ~ok, before |-> release[p], computed |-> computed]
      OBVIOUS
    <2>17. new \in Passes /\ new.computed = computed
      BY <1>2, <2>2, <2>15, <2>16 DEF Passes
    <2>18. pass' \in [Plugins -> {NoPass} \cup Passes] /\ ImagesRecorded'
      BY <1>3, <2>9, <2>11, <2>15, <2>16, <2>17
    <2>19. PICK r : r = IF ok THEN ensureHelmRelease(p) ELSE release[p]
      OBVIOUS
    <2>20. /\ r \in {NoRelease} \cup Releases
           /\ r = release[p] \/ (ok /\ r.spec = ReleaseSpec(p))
      BY <1>2, <1>5, <2>19, EnsureHelmReleaseFacts
    <2>21. release' = [release EXCEPT ![p] = r]
      BY <2>7, <2>19
    <2>22. release' \in [Plugins -> {NoRelease} \cup Releases]
      BY <1>2, <2>20, <2>21 DEF RelTypeOK
    <2>23. queue' \in [Plugins -> {"none", "now", "retry"}]
      BY <1>2, <2>8 DEF RelTypeOK
    <2>24. RelTypeOK'
      BY <1>1, <1>2, <2>11, <2>14, <2>18, <2>22, <2>23 DEF RelTypeOK
    <2>25. ImagesThere'
      <3>1. SUFFICES ASSUME NEW q \in Plugins, release'[q].state = "present", release'[q].spec.mirrored
                     PROVE  release'[q].spec.version \in replicated'
        BY DEF ImagesThere
      <3>2. CASE release'[q] = release[q]
        BY <2>11, <3>1, <3>2 DEF RelInv, ImagesThere
      <3>3. CASE release'[q] # release[q]
        <4>1. q = p /\ release'[q] = r /\ r # release[p]
          BY <1>2, <2>21, <3>3 DEF RelTypeOK
        <4>2. ok /\ r.spec = ReleaseSpec(p)
          BY <2>20, <4>1
        <4>3. r.spec.version = definition.version /\ r.spec.mirrored = mirror
          BY <1>2, <1>5, <4>2, ReleaseSpecFacts
        <4>4. filled
          BY <2>2, <2>3, <3>1, <4>1, <4>2, <4>3
        <4>5. QED
          BY <2>11, <4>1, <4>3, <4>4
      <3>4. QED
        BY <3>2, <3>3
    <2>26. QED
      BY <1>1, <2>13, <2>18, <2>24, <2>25 DEF RelInv
  <1>6. QED
    BY <1>4, <1>5

\* What a pass computes of a release changes no record of images.
LEMMA FetchReleaseStatusFacts ==
    ASSUME RelTypeOK, NEW p \in Plugins, NEW s \in PluginStatuses, NEW r \in {NoRelease} \cup Releases
    PROVE  /\ fetchReleaseStatus(p, s, r) \in PluginStatuses
           /\ fetchReleaseStatus(p, s, r).images = s.images
  <1>1. plugin[p].value \in Values /\ definition.version \in {0, 1}
    BY PluginFacts DEF RelTypeOK, PluginStates
  <1>2. PICK deployed : deployed = deployedCondition(r)
    OBVIOUS
  <1>3. deployed \in Statuses
    <2>1. r \in Releases \/ r.state = "absent"
      BY DEF NoRelease
    <2>2. QED
      BY <1>2, <2>1 DEF deployedCondition, Statuses, Releases
  <1>4. PICK version : version = deployedVersion(r)
    OBVIOUS
  <1>5. version \in {Null, 0, 1}
    BY <1>1, <1>4 DEF deployedVersion
  <1>6. PICK checksum : checksum = IF r.state = "absent" THEN Null ELSE CalculatePluginOptionChecksum(p)
    OBVIOUS
  <1>7. checksum \in Values
    BY <1>1, <1>6, NullFacts DEF CalculatePluginOptionChecksum
  <1>8. CASE ~definition.chart
    <2>1. fetchReleaseStatus(p, s, r) = [s EXCEPT !.version = definition.version, !.checksum = Null]
      BY <1>8 DEF fetchReleaseStatus
    <2>2. QED
      BY <1>1, <2>1, NullFacts DEF PluginStatuses
  <1>9. CASE definition.chart
    <2>1. fetchReleaseStatus(p, s, r) = [s EXCEPT !.deployed = deployed, !.version = version,
                                                  !.checksum = checksum]
      BY <1>2, <1>4, <1>6, <1>9 DEF fetchReleaseStatus
    <2>2. QED
      BY <1>3, <1>5, <1>7, <2>1 DEF PluginStatuses
  <1>10. QED
    BY <1>8, <1>9

\* The answer to the patch of the labels has the images of the stored status, or those of
\* the computed one.
LEMMA AnsweredFacts ==
    ASSUME RelTypeOK, NEW p \in Plugins, NEW s \in PluginStatuses
    PROVE  /\ Answered(p, s) \in PluginStatuses
           /\ Answered(p, s).images \in {s.images, status[p].images}
  <1>1. status[p] \in PluginStatuses
    BY PluginFacts
  <1>2. CASE status[p].ready = "nil"
    BY <1>2 DEF Answered
  <1>3. CASE status[p].ready # "nil"
    <2>1. PICK version : version = IF status[p].version = Null THEN s.version ELSE status[p].version
      OBVIOUS
    <2>2. PICK checksum : checksum = IF status[p].checksum = Null THEN s.checksum ELSE status[p].checksum
      OBVIOUS
    <2>3. PICK tracked : tracked = IF status[p].tracked = {} THEN s.tracked ELSE status[p].tracked
      OBVIOUS
    <2>4. PICK images : images = IF status[p].images = {} THEN s.images ELSE status[p].images
      OBVIOUS
    <2>5. Answered(p, s) = [status[p] EXCEPT !.version = version, !.checksum = checksum,
                                             !.tracked = tracked, !.images = images]
      BY <1>3, <2>1, <2>2, <2>3, <2>4 DEF Answered
    <2>6. version \in {Null, 0, 1} /\ checksum \in Values /\ tracked \subseteq Plugins
          /\ images \subseteq {0, 1} /\ images \in {s.images, status[p].images}
      BY <1>1, <2>1, <2>2, <2>3, <2>4 DEF PluginStatuses
    <2>7. QED
      BY <1>1, <2>5, <2>6 DEF PluginStatuses
  <1>4. QED
    BY <1>2, <1>3

\* The status of a Plugin names replicated images only, whichever of the two statuses the
\* answer to the patch leaves (plugin_controller_flux.go:246-461).
LEMMA SetPluginStatusKeeps ==
    ASSUME RelInv, NEW p \in Plugins, SetPluginStatus(p)
    PROVE  RelInv' /\ \A q \in Plugins : plugin'[q].stage = plugin[q].stage
  <1>1. /\ pass' = [pass EXCEPT ![p] = NoPass] /\ pass[p].at = "status"
        /\ UNCHANGED <<definition, cluster, mirror, replicated, release>>
    BY DEF SetPluginStatus
  <1>2. RelTypeOK /\ pass[p] \in Passes /\ pass[p] # NoPass
    <2>1. RelTypeOK /\ pass[p] \in Passes
      BY <1>1, PluginFacts DEF RelInv
    <2>2. QED
      BY <1>1, <2>1 DEF NoPass
  <1>3. PICK early \in BOOLEAN, asks \in BOOLEAN, lost \in BOOLEAN :
          LET r == IF early THEN pass[p].before ELSE release[p]
              s == fetchReleaseStatus(p, Accessed(pass[p].computed), r)
              label == IF ~definition.chart THEN FALSE ELSE getAllExposedServicesForPlugin(r, ~asks)
              kept == reconcileTechnicalLabels(p, label, s)
              reachable == initClientGetter /\ GetPluginDefinitionSpec
              new == IF ~reachable
                     THEN [pass[p].computed EXCEPT !.created = IF initClientGetter THEN "False" ELSE "NoAccess",
                                                   !.ready = "False"]
                     ELSE [kept EXCEPT !.ready = computeReadyConditionFlux(kept)]
              told == IF reachable /\ definition.chart THEN reconcileTrackingResources(p, s) ELSE {}
          IN  /\ early => pass[p].before # release[p] /\ reachable
              /\ ~asks => reachable /\ definition.chart /\ r.state # "absent" /\ r.installed /\ cluster.expose
              /\ ~asks => ~lost
              /\ Mishap(~asks \/ lost)
              /\ plugin' = IF reachable /\ plugin[p].stage # "absent"
                           THEN [plugin EXCEPT ![p].label = label] ELSE plugin
              /\ status' = IF lost \/ plugin[p].stage = "absent" THEN status ELSE [status EXCEPT ![p] = new]
              /\ queue' = [q \in Plugins |->
                             IF plugin[q].stage = "absent" THEN "none"
                             ELSE IF q \in told \/ plugin'[q] # plugin[q] \/ status'[q] # status[q] THEN "now"
                             ELSE IF q = p /\ (pass[p].failed \/ lost) /\ queue[q] = "none" THEN "retry"
                             ELSE queue[q]]
    BY DEF SetPluginStatus
  <1>4. PICK r : r = IF early THEN pass[p].before ELSE release[p]
    OBVIOUS
  <1>5. r \in {NoRelease} \cup Releases
    BY <1>2, <1>4, PluginFacts DEF Passes
  <1>6. PICK c : c = Accessed(pass[p].computed)
    OBVIOUS
  <1>7. /\ pass[p].computed \in PluginStatuses /\ pass[p].computed.images \subseteq replicated
        /\ status[p] \in PluginStatuses /\ status[p].images \subseteq replicated
    BY <1>2, PluginFacts DEF Passes, RelInv, ImagesRecorded
  <1>8. c \in PluginStatuses /\ c.images \subseteq replicated
    BY <1>6, <1>7 DEF Accessed, PluginStatuses, Statuses
  <1>9. PICK s : s = fetchReleaseStatus(p, c, r)
    OBVIOUS
  <1>10. s \in PluginStatuses /\ s.images \subseteq replicated
    BY <1>2, <1>5, <1>8, <1>9, FetchReleaseStatusFacts
  <1>11. PICK label : label = IF ~definition.chart THEN FALSE ELSE getAllExposedServicesForPlugin(r, ~asks)
    OBVIOUS
  <1>12. label \in BOOLEAN
    BY <1>11 DEF getAllExposedServicesForPlugin
  <1>13. PICK kept : kept = reconcileTechnicalLabels(p, label, s)
    OBVIOUS
  <1>14. kept \in PluginStatuses /\ kept.images \subseteq replicated
    BY <1>2, <1>7, <1>10, <1>13, AnsweredFacts DEF reconcileTechnicalLabels
  <1>15. PICK reachable : reachable = (initClientGetter /\ GetPluginDefinitionSpec)
    OBVIOUS
  <1>16. PICK new : new = IF ~reachable
                     THEN [pass[p].computed EXCEPT !.created = IF initClientGetter THEN "False" ELSE "NoAccess",
                                                   !.ready = "False"]
                     ELSE [kept EXCEPT !.ready = computeReadyConditionFlux(kept)]
    OBVIOUS
  <1>17. new \in PluginStatuses /\ new.images \subseteq replicated
    <2>1. CASE ~reachable
      <3>1. PICK created \in {"False", "NoAccess"} :
               new = [pass[p].computed EXCEPT !.created = created, !.ready = "False"]
        BY <1>16, <2>1
      <3>2. QED
        BY <1>7, <3>1 DEF PluginStatuses, Statuses
    <2>2. CASE reachable
      <3>1. PICK b : b = computeReadyConditionFlux(kept)
        OBVIOUS
      <3>2. b \in Statuses
        BY <3>1 DEF computeReadyConditionFlux, Statuses
      <3>3. new = [kept EXCEPT !.ready = b]
        BY <1>16, <2>2, <3>1
      <3>4. QED
        BY <1>14, <3>2, <3>3 DEF PluginStatuses
    <2>3. QED
      BY <2>1, <2>2
  <1>18. /\ plugin' = IF reachable /\ plugin[p].stage # "absent"
                      THEN [plugin EXCEPT ![p].label = label] ELSE plugin
    BY <1>3, <1>4, <1>11, <1>15
  <1>19. status' = status \/ status' = [status EXCEPT ![p] = new]
    BY <1>3, <1>4, <1>6, <1>9, <1>11, <1>13, <1>15, <1>16
  <1>20. queue' \in [Plugins -> {"none", "now", "retry"}]
    BY <1>2, <1>3 DEF RelTypeOK
  <1>21. /\ plugin' \in [Plugins -> PluginStates]
         /\ \A q \in Plugins : plugin'[q].stage = plugin[q].stage
    <2>1. PICK mine : mine = [plugin[p] EXCEPT !.label = label]
      OBVIOUS
    <2>2. plugin' = plugin \/ plugin' = [plugin EXCEPT ![p] = mine]
      BY <1>18, <2>1
    <2>3. mine \in PluginStates /\ mine.stage = plugin[p].stage
      BY <1>2, <1>12, <2>1, PluginFacts DEF PluginStates
    <2>4. plugin \in [Plugins -> PluginStates]
      BY <1>2 DEF RelTypeOK
    <2>5. QED
      BY <2>2, <2>3, <2>4
  <1>22. status' \in [Plugins -> PluginStatuses]
         /\ \A q \in Plugins : status'[q].images \subseteq replicated
    <2>1. status \in [Plugins -> PluginStatuses] /\ \A q \in Plugins : status[q].images \subseteq replicated
      BY <1>2 DEF RelTypeOK, RelInv, ImagesRecorded
    <2>2. QED
      BY <1>17, <1>19, <2>1
  <1>23. pass' \in [Plugins -> {NoPass} \cup Passes]
         /\ \A q \in Plugins : pass'[q] = pass[q] \/ pass'[q] = NoPass
    BY <1>1, <1>2 DEF RelTypeOK
  <1>24. RelTypeOK'
    BY <1>1, <1>2, <1>20, <1>21, <1>22, <1>23 DEF RelTypeOK
  <1>25. ImagesThere' /\ ImagesRecorded'
    BY <1>1, <1>22, <1>23 DEF RelInv, ImagesThere, ImagesRecorded
  <1>26. QED
    BY <1>21, <1>24, <1>25 DEF RelInv

-----------------------------------------------------------------------------
(* The end of a Plugin, and Flux.                                             *)

\* The end of a Plugin touches no image, and ends only what is being deleted.
LEMMA EnsureFluxDeletedKeeps ==
    ASSUME RelInv, NEW p \in Plugins, EnsureFluxDeleted(p)
    PROVE  /\ RelInv'
           /\ plugin[p].stage = "deleting"
           /\ \A q \in Plugins : plugin'[q].stage = plugin[q].stage
                                 \/ (plugin[q].stage = "deleting" /\ plugin'[q].stage = "absent")
  <1>1. UNCHANGED <<definition, cluster, mirror, replicated, pass>> /\ plugin[p].stage = "deleting"
    BY DEF EnsureFluxDeleted
  <1>2. RelTypeOK
    BY DEF RelInv
  <1>3. plugin \in [Plugins -> PluginStates] /\ status \in [Plugins -> PluginStatuses]
        /\ release \in [Plugins -> {NoRelease} \cup Releases]
        /\ queue \in [Plugins -> {"none", "now", "retry"}]
    BY <1>2 DEF RelTypeOK
  <1>4. queue' \in [Plugins -> {"none", "now", "retry"}]
    BY <1>3 DEF EnsureFluxDeleted
  <1>5. \/ plugin' = plugin /\ status' = status
        \/ plugin' = [plugin EXCEPT ![p] = NoPlugin] /\ status' = [status EXCEPT ![p] = NewStatus]
    BY DEF EnsureFluxDeleted
  <1>6. NoPlugin \in PluginStates /\ NewStatus \in PluginStatuses /\ NewStatus.images = {}
        /\ NoPlugin.stage = "absent"
    BY NullFacts DEF NoPlugin, NewStatus, PluginStates, PluginStatuses, Statuses
  <1>7. /\ plugin' \in [Plugins -> PluginStates]
        /\ \A q \in Plugins : plugin'[q].stage = plugin[q].stage
                              \/ (plugin[q].stage = "deleting" /\ plugin'[q].stage = "absent")
    BY <1>1, <1>3, <1>5, <1>6
  <1>8. /\ status' \in [Plugins -> PluginStatuses]
        /\ \A q \in Plugins : status'[q].images \subseteq status[q].images
    BY <1>3, <1>5, <1>6
  <1>9. /\ release' \in [Plugins -> {NoRelease} \cup Releases]
        /\ \A q \in Plugins : release'[q] = release[q] \/ release'[q].state = "going"
    <2>1. CASE release' = release
      BY <1>3, <2>1
    <2>2. CASE release[p].state # "absent" /\ release' = [release EXCEPT ![p].state = "going"]
      <3>1. PICK r : r = [release[p] EXCEPT !.state = "going"]
        OBVIOUS
      <3>2. release[p] \in Releases
        BY <1>2, <2>2, PluginFacts
      <3>3. r \in Releases /\ r.state = "going"
        BY <3>1, <3>2 DEF Releases
      <3>4. release' = [release EXCEPT ![p] = r]
        BY <2>2, <3>1
      <3>5. QED
        BY <1>3, <3>3, <3>4
    <2>3. QED
      BY <2>1, <2>2 DEF EnsureFluxDeleted
  <1>10. RelTypeOK'
    BY <1>1, <1>2, <1>4, <1>7, <1>8, <1>9 DEF RelTypeOK
  <1>11. ImagesThere'
    <2>1. SUFFICES ASSUME NEW q \in Plugins, release'[q].state = "present", release'[q].spec.mirrored
                   PROVE  release'[q].spec.version \in replicated'
      BY DEF ImagesThere
    <2>2. release'[q] = release[q]
      BY <1>9, <2>1
    <2>3. QED
      BY <1>1, <2>1, <2>2 DEF RelInv, ImagesThere
  <1>12. ImagesRecorded'
    BY <1>1, <1>8 DEF RelInv, ImagesRecorded
  <1>13. QED
    BY <1>1, <1>7, <1>10, <1>11, <1>12 DEF RelInv

\* Who is woken up.
LEMMA EnqueueFacts ==
    ASSUME queue \in [Plugins -> {"none", "now", "retry"}], NEW ps
    PROVE  Enqueue(ps) \in [Plugins -> {"none", "now", "retry"}]
  BY DEF Enqueue

\* Flux leaves the spec of a release as it is.
LEMMA FluxStepKeeps ==
    ASSUME RelInv, NEW p \in Plugins, FluxStep(p)
    PROVE  RelInv' /\ UNCHANGED <<plugin, status>>
  <1>1. UNCHANGED <<definition, cluster, mirror, replicated, plugin, status, pass>>
        /\ queue' = Enqueue({p}) /\ release[p].state # "absent"
    BY DEF FluxStep
  <1>2. RelTypeOK /\ release \in [Plugins -> {NoRelease} \cup Releases] /\ release[p] \in Releases
    BY <1>1, PluginFacts DEF RelInv, RelTypeOK
  <1>3. PICK r \in {NoRelease} \cup Releases :
             /\ release' = [release EXCEPT ![p] = r]
             /\ r.state = "present" => release[p].state = "present" /\ r.spec = release[p].spec
    <2>1. CASE release' = [release EXCEPT ![p] = NoRelease]
      <3>1. NoRelease.state # "present"
        BY DEF NoRelease
      <3>2. QED
        BY <2>1, <3>1
    <2>2. ASSUME NEW fails \in BOOLEAN, release[p].state = "present",
                 release' = [release EXCEPT ![p].observed = "current",
                                            ![p].ready = IF fails THEN "False" ELSE "True",
                                            ![p].installed = @ \/ ~fails]
          PROVE  \E r \in {NoRelease} \cup Releases :
                    /\ release' = [release EXCEPT ![p] = r]
                    /\ r.state = "present" => release[p].state = "present" /\ r.spec = release[p].spec
      <3>1. PICK ready \in {"True", "False"} : ready = IF fails THEN "False" ELSE "True"
        OBVIOUS
      <3>2. PICK installed : installed = (release[p].installed \/ ~fails)
        OBVIOUS
      <3>3. PICK r : r = [release[p] EXCEPT !.observed = "current", !.ready = ready,
                                            !.installed = installed]
        OBVIOUS
      <3>4. installed \in BOOLEAN
        BY <3>2
      <3>5. r \in Releases /\ r.spec = release[p].spec
        BY <1>2, <3>3, <3>4 DEF Releases
      <3>6. release' = [release EXCEPT ![p] = r]
        BY <1>2, <2>2, <3>1, <3>2, <3>3
      <3>7. QED
        BY <2>2, <3>5, <3>6
    <2>3. QED
      BY <2>1, <2>2 DEF FluxStep
  <1>4. RelTypeOK'
    <2>1. queue' \in [Plugins -> {"none", "now", "retry"}]
      BY <1>1, <1>2, EnqueueFacts DEF RelTypeOK
    <2>2. release' \in [Plugins -> {NoRelease} \cup Releases]
      BY <1>2, <1>3
    <2>3. QED
      BY <1>1, <1>2, <2>1, <2>2 DEF RelTypeOK
  <1>5. ImagesThere'
    <2>1. SUFFICES ASSUME NEW q \in Plugins, release'[q].state = "present", release'[q].spec.mirrored
                   PROVE  release'[q].spec.version \in replicated'
      BY DEF ImagesThere
    <2>2. release[q].state = "present" /\ release'[q].spec = release[q].spec
      BY <1>2, <1>3, <2>1
    <2>3. QED
      BY <1>1, <2>1, <2>2 DEF RelInv, ImagesThere
  <1>6. QED
    BY <1>1, <1>4, <1>5 DEF RelInv, ImagesRecorded

\* What else changes of definition, cluster, Plugins and queue concerns no image.
LEMMA RelFrame ==
    ASSUME RelInv, UNCHANGED <<replicated, status, release, pass>>,
           definition' \in [version : {0, 1}, state : {"missing", "notReady", "ready"}, chart : BOOLEAN],
           cluster' \in [ready : BOOLEAN, match : BOOLEAN, expose : BOOLEAN], mirror' \in BOOLEAN,
           plugin' \in [Plugins -> PluginStates], queue' \in [Plugins -> {"none", "now", "retry"}]
    PROVE  RelInv'
  <1>1. RelTypeOK'
    BY DEF RelInv, RelTypeOK
  <1>2. ImagesThere' /\ ImagesRecorded'
    BY DEF RelInv, ImagesThere, ImagesRecorded
  <1>3. QED
    BY <1>1, <1>2 DEF RelInv

-----------------------------------------------------------------------------
(* Who wakes the PluginPreset up.                                             *)

PresetPasses == [at : {"status"}, empty : BOOLEAN, refused : BOOLEAN, failed : BOOLEAN]

\* A step after which the PluginPreset has no request has changed nothing it looks at.
LEMMA PresetWatchFacts ==
    ASSUME NEW q \in {"none", "now", "retry"}, presetWatch(q)
    PROVE  /\ presetQueue' \in {"none", "now", "retry"}
           /\ preset'.stage # "gone" /\ presetQueue' # "now" =>
                /\ presetQueue' = q /\ preset' = preset /\ presetStatus' = presetStatus
                /\ ~(plugin[Mine].stage # "absent" /\ plugin'[Mine].stage = "live"
                       /\ status'[Mine].ready # status[Mine].ready)
                /\ ~(plugin'[Mine].stage = "absent" /\ plugin[Mine].stage # "absent")
                /\ ~(cached' /\ ~cached)
  BY DEF presetWatch, OwnedPluginChanged, PredicateIgnoreDeletingResources,
         PredicatePluginWithStatusReadyChange, PluginDeleted

\* A step that is not one of the PluginPreset controller.  The Plugin comes back only
\* through that controller, and does not come back from a deletion.
LEMMA PresetFrame ==
    ASSUME PresetInv, UNCHANGED <<presetStatus, presetPass>>, presetWatch(presetQueue),
           preset' \in [stage : {"live", "deleting", "gone"}, value : {0, 1, Bad}, override : BOOLEAN],
           plugin[Mine].stage = "absent" => plugin'[Mine].stage = "absent",
           plugin[Mine].stage = "deleting" => plugin'[Mine].stage # "live",
           cached' \in BOOLEAN, cached' => plugin'[Mine].stage # "absent",
           cached /\ ~cached' => plugin'[Mine].stage = "absent",
           plugin[Mine].stage \in {"absent", "live", "deleting"}
    PROVE  PresetInv'
  <1>1. presetQueue \in {"none", "now", "retry"}
    BY DEF PresetInv, PresetTypeOK
  <1>2. /\ presetQueue' \in {"none", "now", "retry"}
        /\ preset'.stage # "gone" /\ presetQueue' # "now" =>
                /\ presetQueue' = presetQueue /\ preset' = preset /\ presetStatus' = presetStatus
                /\ ~(plugin[Mine].stage # "absent" /\ plugin'[Mine].stage = "live"
                       /\ status'[Mine].ready # status[Mine].ready)
                /\ ~(plugin'[Mine].stage = "absent" /\ plugin[Mine].stage # "absent")
                /\ ~(cached' /\ ~cached)
    BY <1>1, PresetWatchFacts
  <1>3. PresetTypeOK'
    BY <1>2 DEF PresetInv, PresetTypeOK
  <1>4. CachedExists'
    BY DEF CachedExists
  <1>5. AwakeForDeletion'
    <2>1. SUFFICES ASSUME preset'.stage = "deleting", presetQueue' # "now"
                   PROVE  presetPass' = NoPass /\ plugin'[Mine].stage # "absent"
      BY DEF AwakeForDeletion
    <2>2. preset.stage = "deleting" /\ presetQueue # "now"
      BY <1>2, <2>1
    <2>3. presetPass = NoPass /\ plugin[Mine].stage # "absent"
      BY <2>2 DEF PresetInv, AwakeForDeletion
    <2>4. QED
      BY <1>2, <2>1, <2>3
  <1>6. AwakeForList'
    <2>1. SUFFICES ASSUME preset'.stage = "live", presetPass' = NoPass, presetQueue' = "none",
                          cached' => plugin'[Mine].stage = "live"
                   PROVE  presetStatus'.listed = pluginReadyCondition'
      BY DEF AwakeForList, Live
    <2>2. preset.stage = "live" /\ presetPass = NoPass /\ presetQueue = "none"
      BY <1>2, <2>1
    <2>3. (cached => plugin[Mine].stage = "live") => presetStatus.listed = pluginReadyCondition
      BY <2>2 DEF PresetInv, AwakeForList, Live
    <2>4. CASE cached'
      <3>1. cached /\ plugin'[Mine].stage = "live"
        BY <1>2, <2>1, <2>4
      <3>2. plugin[Mine].stage = "live"
        BY <3>1 DEF PresetInv, CachedExists
      <3>3. status'[Mine].ready = status[Mine].ready
        BY <1>2, <2>1, <3>1, <3>2
      <3>4. QED
        BY <2>3, <2>4, <3>1, <3>2, <3>3 DEF pluginReadyCondition, listPlugins
    <2>5. CASE ~cached'
      <3>1. ~cached
        BY <1>2, <2>1, <2>5 DEF PresetInv, CachedExists
      <3>2. QED
        BY <2>3, <2>5, <3>1 DEF pluginReadyCondition, listPlugins
    <2>6. QED
      BY <2>4, <2>5
  <1>7. QED
    BY <1>3, <1>4, <1>5, <1>6 DEF PresetInv

\* The passes over the Plugins and Flux.
LEMMA PluginStepKeeps ==
    ASSUME RelInv, PresetInv, RelInv',
           \A q \in Plugins : plugin'[q].stage = plugin[q].stage
                              \/ (plugin[q].stage = "deleting" /\ plugin'[q].stage = "absent"),
           cached' = (cached /\ plugin'[Mine].stage # "absent"),
           UNCHANGED <<preset, presetStatus, presetPass>>, presetWatch(presetQueue)
    PROVE  PresetInv'
  <1>1. plugin[Mine].stage \in {"absent", "live", "deleting"}
    BY MineIsPlugin, PluginFacts DEF RelInv, PluginStates
  <1>2. /\ plugin[Mine].stage = "absent" => plugin'[Mine].stage = "absent"
        /\ plugin[Mine].stage = "deleting" => plugin'[Mine].stage # "live"
    BY MineIsPlugin
  <1>3. /\ cached' \in BOOLEAN /\ (cached' => plugin'[Mine].stage # "absent")
        /\ cached /\ ~cached' => plugin'[Mine].stage = "absent"
    OBVIOUS
  <1>4. preset' \in [stage : {"live", "deleting", "gone"}, value : {0, 1, Bad}, override : BOOLEAN]
    BY DEF PresetInv, PresetTypeOK
  <1>5. QED
    BY <1>1, <1>2, <1>3, <1>4, PresetFrame

-----------------------------------------------------------------------------
(* The PluginPreset controller.                                               *)

\* What the state of the PluginPreset is made of.
LEMMA PresetFacts ==
    ASSUME PresetInv
    PROVE  /\ preset.stage \in {"live", "deleting", "gone"} /\ preset.value \in {0, 1, Bad}
           /\ presetPass \in {NoPass} \cup PresetPasses
           /\ presetPass.at = "status" => presetPass \in PresetPasses /\ presetPass # NoPass
           /\ \A x \in PresetPasses : x # NoPass
  <1>1. /\ preset.stage \in {"live", "deleting", "gone"} /\ preset.value \in {0, 1, Bad}
        /\ presetPass \in {NoPass} \cup PresetPasses
    BY DEF PresetInv, PresetTypeOK, PresetPasses
  <1>2. NoPass.at = "idle" /\ \A x \in PresetPasses : x.at = "status"
    BY DEF NoPass, PresetPasses
  <1>3. QED
    BY <1>1, <1>2

\* A Plugin that is marked for deletion, or made or given its values.
LEMMA PluginUpdates ==
    ASSUME RelTypeOK
    PROVE  /\ [plugin EXCEPT ![Mine].stage = "deleting"] \in [Plugins -> PluginStates]
           /\ \A v \in Values, stage \in {"absent", "live", "deleting"} :
                 [plugin EXCEPT ![Mine].value = v, ![Mine].stage = stage] \in [Plugins -> PluginStates]
  <1>1. plugin \in [Plugins -> PluginStates] /\ plugin[Mine] \in PluginStates
    BY MineIsPlugin DEF RelTypeOK
  <1>2. [plugin EXCEPT ![Mine].stage = "deleting"] \in [Plugins -> PluginStates]
    <2>1. PICK mine : mine = [plugin[Mine] EXCEPT !.stage = "deleting"]
      OBVIOUS
    <2>2. mine \in PluginStates
      BY <1>1, <2>1 DEF PluginStates
    <2>3. [plugin EXCEPT ![Mine] = mine] \in [Plugins -> PluginStates]
      BY <1>1, <2>2
    <2>4. QED
      BY <2>1, <2>3
  <1>3. ASSUME NEW v \in Values, NEW stage \in {"absent", "live", "deleting"}
        PROVE  [plugin EXCEPT ![Mine].value = v, ![Mine].stage = stage] \in [Plugins -> PluginStates]
    <2>1. PICK mine : mine = [plugin[Mine] EXCEPT !.value = v, !.stage = stage]
      OBVIOUS
    <2>2. mine \in PluginStates
      BY <1>1, <2>1 DEF PluginStates
    <2>3. [plugin EXCEPT ![Mine] = mine] \in [Plugins -> PluginStates]
      BY <1>1, <2>2
    <2>4. [plugin EXCEPT ![Mine].value = v, ![Mine].stage = stage] = [plugin EXCEPT ![Mine] = mine]
      BY <1>1, <2>1, MineIsPlugin
    <2>5. QED
      BY <2>3, <2>4
  <1>4. QED
    BY <1>2, <1>3

\* While its pass is under way the PluginPreset is not asleep.
LEMMA PresetEnsureCreatedKeeps ==
    ASSUME RelInv, PresetInv, PresetEnsureCreated
    PROVE  RelInv' /\ PresetInv'
  <1>1. /\ presetPass = NoPass /\ preset.stage = "live" /\ RelTypeOK
        /\ UNCHANGED <<definition, cluster, mirror, replicated, status, release, pass, preset, presetStatus>>
    BY DEF PresetEnsureCreated, RelInv
  <1>2. PICK fails \in BOOLEAN :
          LET refused == listClusters /\ CreateOrUpdateFails(fails)
          IN  /\ fails => listClusters /\ ~CreateOrUpdateFails(FALSE)
              /\ Mishap(fails)
              /\ plugin' = IF ~listClusters THEN cleanupPlugins
                           ELSE IF refused THEN plugin ELSE reconcilePluginPreset
              /\ cached' = (cached /\ plugin'[Mine].stage # "absent")
              /\ presetPass' = [at |-> "status", empty |-> ~listClusters, refused |-> refused,
                                failed |-> refused /\ ~isPluginDefinitionNotFoundError]
              /\ queue' = IF plugin' # plugin THEN [queue EXCEPT ![Mine] = "now"] ELSE queue
              /\ presetWatch("none")
    BY DEF PresetEnsureCreated
  <1>3. plugin' \in [Plugins -> PluginStates]
    <2>1. plugin \in [Plugins -> PluginStates] /\ plugin[Mine].stage \in {"absent", "live", "deleting"}
      BY <1>1, MineIsPlugin DEF RelTypeOK, PluginStates
    <2>2. CASE ~listClusters
      BY <1>1, <1>2, <2>1, <2>2, PluginUpdates DEF cleanupPlugins
    <2>3. CASE listClusters /\ CreateOrUpdateFails(fails)
      BY <1>2, <2>1, <2>3
    <2>4. CASE listClusters /\ ~CreateOrUpdateFails(fails)
      <3>1. resolvePluginOptionValuesForPreset # {}
        BY <2>4 DEF CreateOrUpdateFails
      <3>2. PICK v : v = CHOOSE w \in resolvePluginOptionValuesForPreset : TRUE
        OBVIOUS
      <3>3. v \in Values
        <4>1. v \in resolvePluginOptionValuesForPreset
          BY <3>1, <3>2
        <4>2. v = applyOverridesToPreset
          BY <4>1 DEF resolvePluginOptionValuesForPreset, resolveExpressionsForPreset
        <4>3. v \in {0, 1, 2, 3}
          BY <4>2, PresetFacts DEF applyOverridesToPreset, Override, Bad
        <4>4. QED
          BY <4>3, NullFacts
      <3>4. PICK stage \in {"absent", "live", "deleting"} :
               stage = IF plugin[Mine].stage = "absent" THEN "live" ELSE plugin[Mine].stage
        BY <2>1
      <3>5. reconcilePluginPreset = [plugin EXCEPT ![Mine].value = v, ![Mine].stage = stage]
        BY <2>1, <3>2, <3>4, MineIsPlugin DEF reconcilePluginPreset, PluginStates
      <3>6. QED
        BY <1>1, <1>2, <2>4, <3>3, <3>5, PluginUpdates
    <2>5. QED
      BY <2>2, <2>3, <2>4
  <1>4. queue' \in [Plugins -> {"none", "now", "retry"}]
    BY <1>1, <1>2 DEF RelTypeOK
  <1>5. RelInv'
    BY <1>1, <1>3, <1>4, RelFrame DEF RelTypeOK
  <1>6. presetPass' \in PresetPasses
    BY <1>2 DEF PresetPasses
  <1>7. presetPass' # NoPass
    BY <1>6, PresetFacts
  <1>8. presetQueue' \in {"none", "now", "retry"}
    BY <1>2, PresetWatchFacts
  <1>9. cached' \in BOOLEAN /\ CachedExists'
    BY <1>2 DEF CachedExists
  <1>10. PresetTypeOK'
    BY <1>1, <1>6, <1>8, <1>9 DEF PresetInv, PresetTypeOK, PresetPasses
  <1>11. AwakeForDeletion' /\ AwakeForList'
    BY <1>1, <1>7 DEF AwakeForDeletion, AwakeForList
  <1>12. QED
    BY <1>5, <1>9, <1>10, <1>11 DEF PresetInv

\* A pass that ends without a request has listed the Plugin as it is.
LEMMA PresetSetConditionsKeeps ==
    ASSUME RelInv, PresetInv, PresetSetConditions
    PROVE  RelInv' /\ PresetInv'
  <1>1. presetPass.at = "status" /\ presetPass' = NoPass /\ UNCHANGED <<relVars, preset, cached>>
    BY DEF PresetSetConditions
  <1>2. RelInv'
    BY <1>1 DEF RelInv, RelTypeOK, ImagesThere, ImagesRecorded, relVars
  <1>3. PICK lost \in BOOLEAN :
          LET matched == [presetStatus EXCEPT !.empty = Cond(presetPass.empty), !.failed = Cond(presetPass.refused)]
              listed == IF presetPass.failed THEN matched ELSE reconcilePluginStatuses(matched)
              versioned == reconcilePluginDefinitionVersion(listed)
          IN  /\ Mishap(lost)
              /\ presetStatus' = IF lost \/ preset.stage = "gone" THEN presetStatus
                                 ELSE [versioned EXCEPT !.ready = computeReadyCondition(versioned)]
              /\ presetWatch(IF (presetPass.failed \/ lost) /\ presetQueue = "none" THEN "retry" ELSE presetQueue)
    BY DEF PresetSetConditions
  <1> DEFINE PresetStatuses == [empty : Statuses, failed : Statuses, noDefinition : Statuses,
                         allReady : Statuses, listed : {"none"} \cup Statuses,
                         version : {Null, 0, 1}, ready : Statuses]
  <1>4. presetStatus \in PresetStatuses /\ \A b \in BOOLEAN : Cond(b) \in Statuses
    BY DEF PresetInv, PresetTypeOK, Cond, Statuses
  <1>5. PICK matched : matched = [presetStatus EXCEPT !.empty = Cond(presetPass.empty),
                                                      !.failed = Cond(presetPass.refused)]
    OBVIOUS
  <1>6. presetPass \in PresetPasses /\ presetPass # NoPass
    BY <1>1, PresetFacts
  <1>7. matched \in PresetStatuses
    <2>1. Cond(presetPass.empty) \in Statuses /\ Cond(presetPass.refused) \in Statuses
      BY <1>4, <1>6 DEF PresetPasses
    <2>2. QED
      BY <1>4, <1>5, <2>1
  <1>8. PICK listed : listed = IF presetPass.failed THEN matched ELSE reconcilePluginStatuses(matched)
    OBVIOUS
  <1>9. pluginReadyCondition \in {"none"} \cup Statuses
    <2>1. status[Mine].ready \in Statuses \cup {"nil"}
      BY MineIsPlugin, PluginFacts DEF RelInv, PluginStatuses
    <2>2. QED
      BY <2>1 DEF pluginReadyCondition
  <1>10. listed \in PresetStatuses /\ (presetPass.failed \/ listed.listed = pluginReadyCondition)
    <2>1. CASE presetPass.failed
      BY <1>7, <1>8, <2>1
    <2>2. CASE ~presetPass.failed
      <3>1. PICK c : c = Cond(pluginReadyCondition = "True")
        OBVIOUS
      <3>2. c \in Statuses
        BY <3>1 DEF Cond, Statuses
      <3>3. listed = [matched EXCEPT !.listed = pluginReadyCondition, !.allReady = c]
        BY <1>8, <2>2, <3>1 DEF reconcilePluginStatuses
      <3>4. QED
        BY <1>7, <1>9, <3>2, <3>3
    <2>3. QED
      BY <2>1, <2>2
  <1>11. PICK versioned : versioned = reconcilePluginDefinitionVersion(listed)
    OBVIOUS
  <1>12. versioned \in PresetStatuses /\ versioned.listed = listed.listed
    <2>1. PICK v : v = IF GetPluginDefinitionSpec THEN definition.version ELSE Null
      OBVIOUS
    <2>2. v \in {Null, 0, 1}
      BY <2>1 DEF RelInv, RelTypeOK
    <2>3. PICK c : c = Cond(~GetPluginDefinitionSpec)
      OBVIOUS
    <2>4. c \in Statuses
      BY <2>3 DEF Cond, Statuses
    <2>5. versioned = [listed EXCEPT !.version = v, !.noDefinition = c]
      BY <1>11, <2>1, <2>3 DEF reconcilePluginDefinitionVersion
    <2>6. QED
      BY <1>10, <2>2, <2>4, <2>5
  <1>13. PICK new : new = [versioned EXCEPT !.ready = computeReadyCondition(versioned)]
    OBVIOUS
  <1>14. new \in PresetStatuses /\ new.listed = versioned.listed
    <2>1. computeReadyCondition(versioned) \in Statuses
      BY DEF computeReadyCondition, Statuses
    <2>2. QED
      BY <1>12, <1>13, <2>1
  <1>15. presetStatus' = IF lost \/ preset.stage = "gone" THEN presetStatus ELSE new
    BY <1>3, <1>5, <1>8, <1>11, <1>13
  <1>16. PICK q \in {"none", "now", "retry"} :
            q = IF (presetPass.failed \/ lost) /\ presetQueue = "none" THEN "retry" ELSE presetQueue
    BY DEF PresetInv, PresetTypeOK
  <1>17. presetWatch(q)
    BY <1>3, <1>16
  <1>18. /\ presetQueue' \in {"none", "now", "retry"}
         /\ preset'.stage # "gone" /\ presetQueue' # "now" =>
                presetQueue' = q /\ presetStatus' = presetStatus
    BY <1>17, PresetWatchFacts
  <1>19. presetStatus' \in PresetStatuses
    BY <1>4, <1>14, <1>15
  <1>20. PresetTypeOK'
    BY <1>1, <1>18, <1>19 DEF PresetInv, PresetTypeOK
  <1>21. CachedExists'
    BY <1>1 DEF PresetInv, CachedExists, relVars
  <1>22. AwakeForDeletion'
    <2>1. SUFFICES ASSUME preset'.stage = "deleting", presetQueue' # "now"
                   PROVE  FALSE
      BY DEF AwakeForDeletion
    <2>2. presetQueue = "now"
      BY <1>1, <1>6, <2>1 DEF PresetInv, AwakeForDeletion
    <2>3. QED
      BY <1>16, <1>18, <2>1, <2>2
  <1>23. AwakeForList'
    <2>1. SUFFICES ASSUME preset'.stage = "live", presetQueue' = "none"
                   PROVE  presetStatus'.listed = pluginReadyCondition'
      BY DEF AwakeForList
    <2>2. q = "none" /\ presetStatus' = presetStatus
      BY <1>18, <2>1
    <2>3. ~presetPass.failed /\ ~lost
      BY <1>16, <2>2
    <2>4. presetStatus' = new
      BY <1>1, <1>15, <2>1, <2>3
    <2>5. presetStatus'.listed = pluginReadyCondition
      BY <1>10, <1>12, <1>14, <2>3, <2>4
    <2>6. pluginReadyCondition' = pluginReadyCondition
      BY <1>1 DEF pluginReadyCondition, listPlugins, relVars
    <2>7. QED
      BY <2>5, <2>6
  <1>24. QED
    BY <1>2, <1>20, <1>21, <1>22, <1>23 DEF PresetInv

\* A deletion waits only for a Plugin that exists (pluginpreset_controller.go:136-182).
LEMMA PresetEnsureDeletedKeeps ==
    ASSUME RelInv, PresetInv, PresetEnsureDeleted
    PROVE  RelInv' /\ PresetInv'
  <1>1. /\ presetPass = NoPass /\ preset.stage = "deleting" /\ RelTypeOK
        /\ preset' = IF listPlugins THEN preset ELSE [preset EXCEPT !.stage = "gone"]
        /\ plugin' = IF listPlugins /\ Live(Mine) THEN [plugin EXCEPT ![Mine].stage = "deleting"] ELSE plugin
        /\ queue' = IF plugin' # plugin THEN [queue EXCEPT ![Mine] = "now"] ELSE queue
        /\ UNCHANGED <<definition, cluster, mirror, replicated, status, release, pass, presetStatus, presetPass,
                       cached>>
        /\ presetWatch("none")
    BY DEF PresetEnsureDeleted, RelInv
  <1>2. plugin' \in [Plugins -> PluginStates]
    BY <1>1, PluginUpdates DEF RelTypeOK
  <1>3. queue' \in [Plugins -> {"none", "now", "retry"}]
    BY <1>1 DEF RelTypeOK
  <1>4. RelInv'
    BY <1>1, <1>2, <1>3, RelFrame DEF RelTypeOK
  <1>5. /\ preset' \in [stage : {"live", "deleting", "gone"}, value : {0, 1, Bad}, override : BOOLEAN]
        /\ preset'.stage = "deleting" => listPlugins
        /\ preset'.stage # "live"
    <2>1. preset \in [stage : {"live", "deleting", "gone"}, value : {0, 1, Bad}, override : BOOLEAN]
      BY DEF PresetInv, PresetTypeOK
    <2>2. QED
      BY <1>1, <2>1
  <1>6. plugin[Mine].stage # "absent" => plugin'[Mine].stage # "absent"
    <2>1. plugin \in [Plugins -> PluginStates] /\ plugin[Mine] \in PluginStates
      BY <1>1, MineIsPlugin DEF RelTypeOK
    <2>2. PICK mine : mine = [plugin[Mine] EXCEPT !.stage = "deleting"]
      OBVIOUS
    <2>3. mine.stage = "deleting"
      BY <2>1, <2>2 DEF PluginStates
    <2>4. plugin' = plugin \/ plugin' = [plugin EXCEPT ![Mine] = mine]
      BY <1>1, <2>2
    <2>5. QED
      BY <2>1, <2>3, <2>4, MineIsPlugin
  <1>7. presetQueue' \in {"none", "now", "retry"}
    BY <1>1, PresetWatchFacts
  <1>8. PresetTypeOK'
    BY <1>1, <1>5, <1>7 DEF PresetInv, PresetTypeOK
  <1>9. CachedExists'
    BY <1>1, <1>6 DEF PresetInv, CachedExists
  <1>10. AwakeForDeletion' /\ AwakeForList'
    BY <1>1, <1>5, <1>6 DEF AwakeForDeletion, AwakeForList, listPlugins
  <1>11. QED
    BY <1>4, <1>8, <1>9, <1>10 DEF PresetInv

\* The arrival of a Plugin in the cache is a request, and the garbage collector leaves a
\* Plugin whose end will be one.
LEMMA DeliveryKeeps ==
    ASSUME RelInv, PresetInv, DeliverPlugin \/ GarbageCollector
    PROVE  RelInv' /\ PresetInv'
  <1>1. /\ RelTypeOK /\ plugin[Mine].stage \in {"absent", "live", "deleting"}
        /\ plugin \in [Plugins -> PluginStates] /\ plugin[Mine] \in PluginStates
        /\ preset \in [stage : {"live", "deleting", "gone"}, value : {0, 1, Bad}, override : BOOLEAN]
        /\ cached \in BOOLEAN
    BY MineIsPlugin DEF RelInv, RelTypeOK, PluginStates, PresetInv, PresetTypeOK
  <1>2. CASE DeliverPlugin
    <2>1. /\ plugin[Mine].stage # "absent" /\ cached' = TRUE /\ presetWatch(presetQueue)
          /\ UNCHANGED <<relVars, preset, presetStatus, presetPass>>
      BY <1>2 DEF DeliverPlugin
    <2>2. RelInv' /\ plugin' = plugin
      BY <2>1 DEF RelInv, RelTypeOK, ImagesThere, ImagesRecorded, relVars
    <2>3. PresetInv'
      BY <1>1, <2>1, <2>2, PresetFrame
    <2>4. QED
      BY <2>2, <2>3
  <1>3. CASE GarbageCollector
    <2>1. /\ plugin' = [plugin EXCEPT ![Mine].stage = "deleting"] /\ plugin[Mine].stage = "live"
          /\ queue' = [queue EXCEPT ![Mine] = "now"] /\ presetWatch(presetQueue)
          /\ UNCHANGED <<definition, cluster, mirror, replicated, status, release, pass, preset, presetStatus,
                         presetPass, cached>>
      BY <1>3 DEF GarbageCollector, Live
    <2>2. queue' \in [Plugins -> {"none", "now", "retry"}] /\ plugin' \in [Plugins -> PluginStates]
      BY <1>1, <2>1, PluginUpdates DEF RelTypeOK
    <2>3. RelInv'
      BY <1>1, <2>1, <2>2, RelFrame DEF RelTypeOK
    <2>4. plugin'[Mine].stage = "deleting"
      <3>1. PICK mine : mine = [plugin[Mine] EXCEPT !.stage = "deleting"]
        OBVIOUS
      <3>2. mine.stage = "deleting"
        BY <1>1, <3>1 DEF PluginStates
      <3>3. plugin' = [plugin EXCEPT ![Mine] = mine]
        BY <2>1, <3>1
      <3>4. QED
        BY <1>1, <3>2, <3>3, MineIsPlugin
    <2>5. PresetInv'
      BY <1>1, <2>1, <2>4, PresetFrame
    <2>6. QED
      BY <2>3, <2>5
  <1>4. QED
    BY <1>2, <1>3

-----------------------------------------------------------------------------
(* Edits, retries and resyncs.                                                *)

\* Users edit definition, cluster and mirror, the PluginPreset, and a value of a Plugin.
LEMMA EditKeeps ==
    ASSUME RelInv, PresetInv, Edit
    PROVE  RelInv' /\ PresetInv'
  <1> DEFINE Definitions == [version : {0, 1}, state : {"missing", "notReady", "ready"}, chart : BOOLEAN]
             Clusters == [ready : BOOLEAN, match : BOOLEAN, expose : BOOLEAN]
             Presets == [stage : {"live", "deleting", "gone"}, value : {0, 1, Bad}, override : BOOLEAN]
  <1>1. /\ UNCHANGED <<replicated, status, release, pass, presetStatus, presetPass, cached>>
        /\ presetWatch(presetQueue)
        /\ EditDefinition \/ EditCluster \/ EditMirror \/ EditPreset \/ EditPlugin
    BY DEF Edit
  <1>2. /\ definition \in Definitions /\ cluster \in Clusters /\ mirror \in BOOLEAN /\ preset \in Presets
        /\ plugin \in [Plugins -> PluginStates] /\ queue \in [Plugins -> {"none", "now", "retry"}]
        /\ cached \in BOOLEAN
    BY DEF RelInv, RelTypeOK, PresetInv, PresetTypeOK
  <1>3. ASSUME definition' \in Definitions, cluster' \in Clusters, mirror' \in BOOLEAN, preset' \in Presets,
               plugin' \in [Plugins -> PluginStates], queue' \in [Plugins -> {"none", "now", "retry"}],
               plugin'[Mine].stage = plugin[Mine].stage
        PROVE  RelInv' /\ PresetInv'
    <2>1. RelInv'
      BY <1>1, <1>3, RelFrame
    <2>2. plugin[Mine].stage \in {"absent", "live", "deleting"}
      BY <1>2, MineIsPlugin DEF PluginStates
    <2>3. cached => plugin[Mine].stage # "absent"
      BY DEF PresetInv, CachedExists
    <2>4. PresetInv'
      BY <1>1, <1>2, <1>3, <2>2, <2>3, PresetFrame
    <2>5. QED
      BY <2>1, <2>4
  <1>4. CASE EditDefinition
    <2>1. /\ UNCHANGED <<cluster, mirror, plugin, preset>> /\ queue' = Enqueue(Plugins)
          /\ \/ definition' = [definition EXCEPT !.version = 1 - @]
             \/ definition' = [definition EXCEPT !.state = "notReady"]
             \/ definition' = [definition EXCEPT !.state = "missing"]
             \/ definition' = [definition EXCEPT !.state = "ready"]
      BY <1>4 DEF EditDefinition, enqueueAllPlugins
    <2>2. definition' \in Definitions
      <3>1. 1 - definition.version \in {0, 1}
        BY <1>2
      <3>2. QED
        BY <1>2, <2>1, <3>1
    <2>3. QED
      BY <1>2, <1>3, <2>1, <2>2, EnqueueFacts
  <1>5. CASE EditCluster
    <2>1. /\ UNCHANGED <<definition, mirror, plugin, preset>> /\ queue' = Enqueue(Plugins)
          /\ \/ cluster' = [cluster EXCEPT !.ready = ~@]
             \/ cluster' = [cluster EXCEPT !.match = ~@]
             \/ cluster' = [cluster EXCEPT !.expose = ~@]
      BY <1>5 DEF EditCluster, enqueueAllPlugins
    <2>2. cluster' \in Clusters
      BY <1>2, <2>1
    <2>3. QED
      BY <1>2, <1>3, <2>1, <2>2, EnqueueFacts
  <1>6. CASE EditMirror
    BY <1>2, <1>3, <1>6 DEF EditMirror
  <1>7. CASE EditPreset
    <2>1. /\ UNCHANGED <<definition, cluster, mirror, plugin, queue>>
          /\ \/ \E v \in {0, 1, Bad} : preset' = [preset EXCEPT !.value = v]
             \/ preset' = [preset EXCEPT !.override = ~@]
             \/ preset' = [preset EXCEPT !.stage = "deleting"]
      BY <1>7 DEF EditPreset
    <2>2. preset' \in Presets
      BY <1>2, <2>1
    <2>3. QED
      BY <1>2, <1>3, <2>1, <2>2
  <1>8. CASE EditPlugin
    <2>1. /\ plugin' = [plugin EXCEPT !["user"].ref = "none", !["user"].value = 0]
          /\ queue' = Enqueue({"user"})
          /\ UNCHANGED <<definition, cluster, mirror, preset>>
      BY <1>8 DEF EditPlugin
    <2>2. PICK user : user = [plugin["user"] EXCEPT !.ref = "none", !.value = 0]
      OBVIOUS
    <2>3. plugin' = [plugin EXCEPT !["user"] = user]
      BY <1>2, <2>1, <2>2, MineIsPlugin
    <2>4. user \in PluginStates
      <3>1. plugin["user"] \in PluginStates
        BY <1>2, MineIsPlugin
      <3>2. QED
        BY <2>2, <3>1, NullFacts DEF PluginStates
    <2>5. plugin' \in [Plugins -> PluginStates] /\ plugin'[Mine] = plugin[Mine]
      BY <1>2, <2>3, <2>4, MineIsPlugin DEF Mine
    <2>6. QED
      BY <1>2, <1>3, <2>1, <2>5, EnqueueFacts
  <1>9. QED
    BY <1>1, <1>4, <1>5, <1>6, <1>7, <1>8

\* Retries and resyncs only add requests.
LEMMA AgainKeeps ==
    ASSUME RelInv, PresetInv, Retry \/ Resync
    PROVE  RelInv' /\ PresetInv'
  <1>1. /\ UNCHANGED <<definition, cluster, mirror, replicated, plugin, status, release, pass, preset,
                       presetStatus, presetPass, cached>>
    BY DEF Retry, Resync
  <1>2. /\ queue \in [Plugins -> {"none", "now", "retry"}] /\ presetQueue \in {"none", "now", "retry"}
    BY DEF RelInv, RelTypeOK, PresetInv, PresetTypeOK
  <1>3. queue' \in [Plugins -> {"none", "now", "retry"}]
    BY <1>2, EnqueueFacts DEF Retry, Resync, Again
  <1>4. RelInv'
    BY <1>1, <1>3, RelFrame DEF RelInv, RelTypeOK
  <1>5. \/ presetQueue' = "now"
        \/ presetQueue' = "none" /\ (presetQueue = "none" \/ preset.stage = "gone")
    BY <1>2 DEF Retry, Resync, Again
  <1>6. PresetTypeOK' /\ CachedExists'
    BY <1>1, <1>5 DEF PresetInv, PresetTypeOK, CachedExists
  <1>7. AwakeForDeletion'
    BY <1>1, <1>5 DEF PresetInv, AwakeForDeletion
  <1>8. AwakeForList'
    BY <1>1, <1>5 DEF PresetInv, AwakeForList, Live, pluginReadyCondition, listPlugins
  <1>9. QED
    BY <1>4, <1>6, <1>7, <1>8 DEF PresetInv

-----------------------------------------------------------------------------
(* The invariant.                                                             *)

\* Mishaps stay within their bound.
LEMMA MishapBound ==
    ASSUME mishaps \in 0..MaxMishaps, Next
    PROVE  mishaps' \in 0..MaxMishaps
  <1>1. ASSUME NEW p \in Plugins, EnsureFluxCreated(p)
        PROVE  mishaps' \in 0..MaxMishaps
    <2>1. UNCHANGED mishaps \/ \E fails \in {"nothing", "annotate", "untrack", "access", "replicate", "release"} :
             Mishap(fails \notin {"nothing", "access"})
      BY <1>1 DEF EnsureFluxCreated
    <2>2. QED
      BY <2>1, MishapsAssumption DEF Mishap
  <1>2. ASSUME NEW p \in Plugins, SetPluginStatus(p)
        PROVE  mishaps' \in 0..MaxMishaps
    <2>1. \E asks, lost \in BOOLEAN : Mishap(~asks \/ lost)
      BY <1>2 DEF SetPluginStatus
    <2>2. QED
      BY <2>1, MishapsAssumption DEF Mishap
  <1>3. ASSUME NEW p \in Plugins, FluxStep(p)
        PROVE  mishaps' \in 0..MaxMishaps
    <2>1. UNCHANGED mishaps \/ \E fails \in BOOLEAN : Mishap(fails)
      BY <1>3 DEF FluxStep
    <2>2. QED
      BY <2>1, MishapsAssumption DEF Mishap
  <1>4. ASSUME PresetEnsureCreated \/ PresetSetConditions
        PROVE  mishaps' \in 0..MaxMishaps
    <2>1. \E fails \in BOOLEAN : Mishap(fails)
      BY <1>4 DEF PresetEnsureCreated, PresetSetConditions
    <2>2. QED
      BY <2>1, MishapsAssumption DEF Mishap
  <1>5. ASSUME PresetEnsureDeleted \/ DeliverPlugin \/ GarbageCollector \/ Retry \/ Resync \/ Edit
        PROVE  mishaps' \in 0..MaxMishaps
    BY <1>5 DEF PresetEnsureDeleted, DeliverPlugin, GarbageCollector, Retry, Resync, Edit
  <1>6. ASSUME NEW p \in Plugins, EnsureFluxDeleted(p)
        PROVE  mishaps' \in 0..MaxMishaps
    BY <1>6 DEF EnsureFluxDeleted
  <1>7. QED
    BY <1>1, <1>2, <1>3, <1>4, <1>5, <1>6
    DEF Next, PluginController, Flux, PluginStep, PresetController, PresetStep, Delivery

\* The invariant holds initially.
LEMMA RolloutInit == Init => RolloutInv
  <1> SUFFICES ASSUME Init PROVE RolloutInv
    OBVIOUS
  <1>1. edits \in 0..MaxEdits /\ mishaps \in 0..MaxMishaps
    BY EditsAssumption, MishapsAssumption DEF Init, NewPreset, NewReference
  <1>2. /\ cluster \in [ready : BOOLEAN, match : BOOLEAN, expose : BOOLEAN]
        /\ replicated = {} /\ pass = [p \in Plugins |-> NoPass] /\ presetPass = NoPass
        /\ preset = [stage |-> "live", value |-> 0, override |-> FALSE]
    BY DEF Init
  <1>3. /\ \A v \in {0, Null} : Plain(v) \in PluginStates /\ Plain(v).stage = "live"
        /\ NoPlugin \in PluginStates /\ NoPlugin.stage = "absent"
        /\ NewStatus \in PluginStatuses /\ NewStatus.images = {}
    BY NullFacts DEF Plain, NoPlugin, NewStatus, PluginStates, PluginStatuses, Statuses
  <1>4. preset \in [stage : {"live", "deleting", "gone"}, value : {0, 1, Bad}, override : BOOLEAN]
        /\ preset.stage = "live"
    BY <1>2
  <1>5. CASE NewPreset
    <2>1. /\ definition \in [version : {0, 1}, state : {"missing", "notReady", "ready"}, chart : BOOLEAN]
          /\ mirror \in BOOLEAN /\ presetQueue = "now" /\ cached = FALSE
          /\ status = [p \in Plugins |-> NewStatus] /\ release = [p \in Plugins |-> NoRelease]
          /\ presetStatus = NewPresetStatus
      <3>1. definition \in [version : {0}, state : {"missing", "ready"}, chart : BOOLEAN]
        BY <1>5 DEF NewPreset
      <3>2. definition \in [version : {0, 1}, state : {"missing", "notReady", "ready"}, chart : BOOLEAN]
        BY <3>1
      <3>3. QED
        BY <1>5, <3>2 DEF NewPreset
    <2>2. plugin \in [Plugins -> PluginStates] /\ queue \in [Plugins -> {"none", "now", "retry"}]
      BY <1>3, <1>5 DEF NewPreset
    <2>3. RelTypeOK
      BY <1>2, <1>3, <2>1, <2>2 DEF RelTypeOK
    <2>4. ImagesThere /\ ImagesRecorded
      BY <1>2, <1>3, <2>1 DEF ImagesThere, ImagesRecorded, NoRelease
    <2>5. PresetTypeOK
      BY <1>2, <1>4, <2>1 DEF PresetTypeOK, NewPresetStatus, Statuses
    <2>6. CachedExists /\ AwakeForDeletion /\ AwakeForList
      BY <2>1 DEF CachedExists, AwakeForDeletion, AwakeForList
    <2>7. QED
      BY <1>1, <2>3, <2>4, <2>5, <2>6 DEF RolloutInv, RelInv, PresetInv
  <1>6. CASE NewReference
    <2>1. PICK ref \in {"name", "selector"} :
          plugin = [p \in Plugins |-> IF p = Mine THEN [Plain(0) EXCEPT !.label = TRUE]
                                      ELSE [Plain(Null) EXCEPT !.ref = ref]]
      BY <1>6 DEF NewReference
    <2>2. PICK mine : mine = [Plain(0) EXCEPT !.label = TRUE]
      OBVIOUS
    <2>3. PICK user : user = [Plain(Null) EXCEPT !.ref = ref]
      OBVIOUS
    <2>4. mine \in PluginStates /\ mine.stage = "live" /\ user \in PluginStates
      BY <1>3, <2>2, <2>3 DEF PluginStates
    <2>5. plugin \in [Plugins -> PluginStates] /\ plugin[Mine].stage = "live"
      BY <2>1, <2>2, <2>3, <2>4, MineIsPlugin
    <2>6. PICK s : s = [NewStatus EXCEPT !.ready = "True", !.created = "True", !.deployed = "True",
                                         !.version = 0, !.checksum = 0]
      OBVIOUS
    <2>7. s \in PluginStatuses /\ s.ready = "True" /\ s.images = {}
      BY <1>3, <2>6, NullFacts DEF PluginStatuses, Statuses
    <2>8. status = [p \in Plugins |-> IF p = Mine THEN s ELSE NewStatus]
      BY <1>6, <2>6 DEF NewReference
    <2>9. status \in [Plugins -> PluginStatuses] /\ status[Mine].ready = "True"
          /\ \A p \in Plugins : status[p].images = {}
      BY <1>3, <2>7, <2>8, MineIsPlugin
    <2>10. PICK r : r = [state |-> "present", observed |-> "current", ready |-> "True", installed |-> TRUE,
                         spec |-> [version |-> 0, value |-> 0, meta |-> TRUE, mirrored |-> FALSE]]
      OBVIOUS
    <2>11. r \in Releases /\ r.spec.mirrored = FALSE
      BY <2>10, NullFacts DEF Releases, ReleaseSpecs
    <2>12. release = [p \in Plugins |-> IF p = Mine THEN r ELSE NoRelease]
      BY <1>6, <2>10 DEF NewReference
    <2>13. release \in [Plugins -> {NoRelease} \cup Releases]
      BY <2>11, <2>12
    <2>14. /\ definition \in [version : {0, 1}, state : {"missing", "notReady", "ready"}, chart : BOOLEAN]
           /\ mirror \in BOOLEAN /\ queue \in [Plugins -> {"none", "now", "retry"}]
           /\ cached = TRUE /\ presetQueue = "none"
      BY <1>6 DEF NewReference
    <2>15. RelTypeOK
      BY <1>2, <2>5, <2>9, <2>13, <2>14 DEF RelTypeOK
    <2>16. ImagesThere
      <3>1. \A p \in Plugins : release[p] = r \/ release[p].state = "absent"
        BY <2>12 DEF NoRelease
      <3>2. QED
        BY <2>11, <3>1 DEF ImagesThere
    <2>17. ImagesRecorded
      BY <1>2, <2>9 DEF ImagesRecorded
    <2>18. PresetTypeOK /\ presetStatus.listed = "True"
      BY <1>2, <1>4, <1>6, <2>14 DEF PresetTypeOK, NewReference, Statuses
    <2>19. CachedExists /\ AwakeForDeletion /\ AwakeForList
      BY <1>4, <2>5, <2>9, <2>14, <2>18
      DEF CachedExists, AwakeForDeletion, AwakeForList, pluginReadyCondition, listPlugins
    <2>20. QED
      BY <1>1, <2>15, <2>16, <2>17, <2>18, <2>19 DEF RolloutInv, RelInv, PresetInv
  <1>7. QED
    BY <1>5, <1>6 DEF Init

\* Every step keeps the invariant.
LEMMA RolloutStep == RolloutInv /\ [Next]_vars => RolloutInv'
  <1> SUFFICES ASSUME RolloutInv, [Next]_vars PROVE RolloutInv'
    OBVIOUS
  <1>1. RelInv /\ PresetInv /\ edits \in 0..MaxEdits /\ mishaps \in 0..MaxMishaps
    BY DEF RolloutInv
  <1>2. CASE Next
    <2>1. mishaps' \in 0..MaxMishaps
      BY <1>1, <1>2, MishapBound
    <2>2. edits' \in 0..MaxEdits
      <3>1. edits' = edits \/ (edits < MaxEdits /\ edits' = edits + 1)
        BY <1>2 DEF Next, PluginController, Flux, PluginStep, PresetController, PresetStep, Delivery,
                    Retry, Resync, Edit
      <3>2. QED
        BY <1>1, <3>1, EditsAssumption
    <2>3. ASSUME NEW p \in Plugins, PluginController(p)
          PROVE  RelInv' /\ PresetInv'
      <3>1. /\ EnsureFluxCreated(p) \/ SetPluginStatus(p) \/ EnsureFluxDeleted(p)
            /\ cached' = (cached /\ plugin'[Mine].stage # "absent")
            /\ UNCHANGED <<preset, presetStatus, presetPass>> /\ presetWatch(presetQueue)
        BY <2>3 DEF PluginController, PluginStep
      <3>2. /\ RelInv'
            /\ \A q \in Plugins : plugin'[q].stage = plugin[q].stage
                              \/ (plugin[q].stage = "deleting" /\ plugin'[q].stage = "absent")
        BY <1>1, <3>1, EnsureFluxCreatedKeeps, SetPluginStatusKeeps, EnsureFluxDeletedKeeps
      <3>3. QED
        BY <1>1, <3>1, <3>2, PluginStepKeeps
    <2>4. ASSUME Flux PROVE RelInv' /\ PresetInv'
      <3>1. PICK p \in Plugins : FluxStep(p)
        BY <2>4 DEF Flux, PluginStep
      <3>2. /\ cached' = (cached /\ plugin'[Mine].stage # "absent")
            /\ UNCHANGED <<preset, presetStatus, presetPass>> /\ presetWatch(presetQueue)
        BY <2>4 DEF Flux, PluginStep
      <3>3. RelInv' /\ UNCHANGED plugin
        BY <1>1, <3>1, FluxStepKeeps
      <3>4. PresetInv'
        BY <1>1, <3>2, <3>3, PluginStepKeeps
      <3>5. QED
        BY <3>3, <3>4
    <2>5. ASSUME PresetController PROVE RelInv' /\ PresetInv'
      BY <1>1, <2>5, PresetEnsureCreatedKeeps, PresetSetConditionsKeeps, PresetEnsureDeletedKeeps
      DEF PresetController, PresetStep
    <2>6. ASSUME Delivery PROVE RelInv' /\ PresetInv'
      BY <1>1, <2>6, DeliveryKeeps DEF Delivery, PresetStep
    <2>7. ASSUME Retry \/ Resync PROVE RelInv' /\ PresetInv'
      BY <1>1, <2>7, AgainKeeps
    <2>8. ASSUME Edit PROVE RelInv' /\ PresetInv'
      BY <1>1, <2>8, EditKeeps
    <2>9. RelInv' /\ PresetInv'
      BY <1>2, <2>3, <2>4, <2>5, <2>6, <2>7, <2>8 DEF Next
    <2>10. QED
      BY <2>1, <2>2, <2>9 DEF RolloutInv
  <1>3. CASE UNCHANGED vars
    <2>1. UNCHANGED <<relVars, presetVars, mishaps, edits>>
      BY <1>3 DEF vars
    <2>2. RelInv'
      BY <1>1, <2>1 DEF RelInv, RelTypeOK, ImagesThere, ImagesRecorded, relVars
    <2>3. PresetInv'
      BY <1>1, <2>1 DEF PresetInv, PresetTypeOK, CachedExists, AwakeForDeletion, AwakeForList, Live,
                        pluginReadyCondition, listPlugins, presetVars, relVars
    <2>4. QED
      BY <1>1, <2>1, <2>2, <2>3 DEF RolloutInv
  <1>4. QED
    BY <1>2, <1>3

\* A release takes its images from the mirror only if they have been replicated, and a
\* PluginPreset without a request has nothing to do: for every number of edits, failing
\* calls and lost patches (oci_mirror.go:20-149, pluginpreset_controller.go:62-83).
THEOREM RolloutIsSafe == Spec => []RolloutSafe
  <1>1. RolloutInv => RolloutSafe
    <2>1. RolloutInv => TypeOK /\ ImagesThere
      BY DEF RolloutInv, RelInv, PresetInv, TypeOK
    <2>2. RolloutInv => PresetAsleep
      BY DEF RolloutInv, PresetInv, AwakeForDeletion, AwakeForList, PresetAsleep, Quiet
    <2>3. QED
      BY <2>1, <2>2 DEF RolloutSafe
  <1>2. QED
    BY <1>1, RolloutInit, RolloutStep, PTL DEF Spec
==============================================================================
