----------------------------- MODULE PluginRollout -----------------------------
(* A PluginPreset, the Plugin it makes, the release of that Plugin, and a     *)
(* second Plugin of a user that takes a value from the first.                 *)
EXTENDS PluginPresetStatus

CONSTANT MaxEdits   \* edits of users, and changes of the definition and the cluster
VARIABLE edits

ASSUME EditsAssumption == MaxEdits \in Nat

vars == <<relVars, presetVars, mishaps, edits>>

Plain(v) == [stage |-> "live", value |-> v, ref |-> "none", trackers |-> {}, label |-> FALSE]

\* A new PluginPreset, with a chart or without one, and with a mirror or without; one whose
\* definition was deleted while it created its Plugin; or one
\* whose Plugin is ready, and a new Plugin with a reference to it (then there are edits or
\* mishaps, not both).
NewPreset ==
    /\ definition \in [version : {0}, state : {"missing", "ready"}, chart : BOOLEAN]
    /\ mirror \in BOOLEAN /\ (mirror => definition.chart)
    /\ \/ plugin = [p \in Plugins |-> NoPlugin] /\ queue = [p \in Plugins |-> "none"]
       \/ /\ definition.state = "missing"
          /\ plugin = [p \in Plugins |-> IF p = Mine THEN Plain(0) ELSE NoPlugin]
          /\ queue = [p \in Plugins |-> IF p = Mine THEN "now" ELSE "none"]
    /\ status = [p \in Plugins |-> NewStatus]
    /\ release = [p \in Plugins |-> NoRelease]
    /\ presetStatus = NewPresetStatus /\ presetQueue = "now" /\ cached = FALSE
    /\ edits = 0 /\ mishaps = 0

NewReference ==
    /\ definition = [version |-> 0, state |-> "ready", chart |-> TRUE] /\ mirror = FALSE
    /\ \E ref \in {"name", "selector"} :
          plugin = [p \in Plugins |-> IF p = Mine THEN [Plain(0) EXCEPT !.label = TRUE]
                                      ELSE [Plain(Null) EXCEPT !.ref = ref]]
    /\ status = [p \in Plugins |->
                   IF p = Mine THEN [NewStatus EXCEPT !.ready = "True", !.created = "True", !.deployed = "True",
                                                      !.version = 0, !.checksum = 0]
                   ELSE NewStatus]
    /\ release = [p \in Plugins |->
                    IF p = Mine THEN [state |-> "present", observed |-> "current", ready |-> "True", installed |-> TRUE,
                                      spec |-> [version |-> 0, value |-> 0, meta |-> TRUE, mirrored |-> FALSE]]
                    ELSE NoRelease]
    /\ queue = [p \in Plugins |-> IF p = Mine THEN "none" ELSE "now"]
    /\ presetStatus = [empty |-> "False", failed |-> "False", noDefinition |-> "False", allReady |-> "True",
                       listed |-> "True", version |-> 0, ready |-> "True"]
    /\ presetQueue = "none" /\ cached = TRUE
    /\ \/ edits = 0 /\ mishaps = MaxMishaps
       \/ edits = MaxEdits /\ mishaps = 0

Init ==
    /\ NewPreset \/ NewReference
    /\ cluster = [ready |-> TRUE, match |-> TRUE, expose |-> TRUE]
    /\ replicated = {}
    /\ pass = [p \in Plugins |-> NoPass]
    /\ preset = [stage |-> "live", value |-> 0, override |-> FALSE] /\ presetPass = NoPass

TypeOK == RelTypeOK /\ PresetTypeOK /\ edits \in 0..MaxEdits /\ mishaps \in 0..MaxMishaps

------------------------------------------------------------------------------
(* Edits.  Changes of the definition and the cluster reach both Plugins.      *)

\* enqueueAllPluginsForCluster, enqueueAllPluginsForPluginDefinition
enqueueAllPlugins == queue' = Enqueue(Plugins)

\* ValidateDeletePluginDefinition asks the cache for Plugins of the definition.
EditDefinition ==
    /\ \/ definition' = [definition EXCEPT !.version = 1 - @]
          /\ definition.state # "missing"
       \/ definition' = [definition EXCEPT !.state = "notReady"] /\ definition.state = "ready"
       \/ /\ definition' = [definition EXCEPT !.state = "missing"] /\ definition.state # "missing"
          /\ \A p \in Plugins : plugin[p].stage = "absent" \/ (p = Mine /\ ~cached)
       \/ definition' = [definition EXCEPT !.state = "ready"] /\ definition.state # "ready"
    /\ enqueueAllPlugins
    /\ UNCHANGED <<cluster, mirror, plugin, preset>>

EditCluster ==
    /\ \/ cluster' = [cluster EXCEPT !.ready = ~@]
       \/ cluster' = [cluster EXCEPT !.match = ~@]
       \/ cluster' = [cluster EXCEPT !.expose = ~@]
    /\ enqueueAllPlugins
    /\ UNCHANGED <<definition, mirror, plugin, preset>>

\* Nobody watches the Secret with the mirrors.
EditMirror ==
    /\ definition.chart /\ mirror' = ~mirror
    /\ UNCHANGED <<definition, cluster, plugin, preset, queue>>

EditPreset ==
    /\ preset.stage = "live"
    /\ \/ \E v \in {0, 1, Bad} : v # preset.value /\ preset' = [preset EXCEPT !.value = v]
       \/ preset' = [preset EXCEPT !.override = ~@]
       \/ preset' = [preset EXCEPT !.stage = "deleting"]
    /\ UNCHANGED <<definition, cluster, mirror, plugin, queue>>

\* The user gives up the reference.
EditPlugin ==
    /\ Live("user") /\ plugin["user"].ref # "none"
    /\ plugin' = [plugin EXCEPT !["user"].ref = "none", !["user"].value = 0]
    /\ queue' = Enqueue({"user"})
    /\ UNCHANGED <<definition, cluster, mirror, preset>>

\* With a reference, only what the reference may notice.
Edit ==
    /\ edits < MaxEdits /\ edits' = edits + 1
    /\ \/ plugin["user"] = NoPlugin /\ (EditDefinition \/ EditCluster \/ EditMirror)
       \/ EditPreset
       \/ EditPlugin
    /\ UNCHANGED <<replicated, status, release, pass, presetStatus, presetPass, cached, mishaps>>
    /\ presetWatch(presetQueue)

------------------------------------------------------------------------------

PluginStep(step) ==
    /\ step
    /\ cached' = (cached /\ plugin'[Mine].stage # "absent")
    /\ UNCHANGED <<preset, presetStatus, presetPass, edits>>
    /\ presetWatch(presetQueue)
PluginController(p) == PluginStep(EnsureFluxCreated(p) \/ SetPluginStatus(p) \/ EnsureFluxDeleted(p))
Flux == PluginStep(\E p \in Plugins : FluxStep(p))
PresetStep(step) == step /\ UNCHANGED edits
PresetController == PresetStep(PresetEnsureCreated \/ PresetSetConditions \/ PresetEnsureDeleted)
Delivery == PresetStep(DeliverPlugin \/ GarbageCollector)

\* The delay of a retry is over; or, when nothing else is to be done, the resync of the
\* caches looks at everything again.
Quiet == /\ \A p \in Plugins : queue[p] # "now" /\ pass[p] = NoPass
         /\ presetQueue # "now" /\ presetPass = NoPass
Retrying == presetQueue = "retry" \/ \E p \in Plugins : queue[p] = "retry"
Again(q) == IF q = "retry" THEN "now" ELSE q
Retry ==
    /\ Quiet /\ Retrying
    /\ queue' = [p \in Plugins |-> Again(queue[p])]
    /\ presetQueue' = Again(presetQueue)
    /\ UNCHANGED <<definition, cluster, mirror, replicated, plugin, status, release, pass, preset,
                   presetStatus, presetPass, cached, mishaps, edits>>
Resync ==
    /\ Quiet /\ ~Retrying
    /\ queue' = Enqueue(Plugins)
    /\ presetQueue' = IF preset.stage = "gone" THEN "none" ELSE "now"
    /\ UNCHANGED <<definition, cluster, mirror, replicated, plugin, status, release, pass, preset,
                   presetStatus, presetPass, cached, mishaps, edits>>

Next ==
    \/ \E p \in Plugins : PluginController(p)
    \/ Flux
    \/ PresetController
    \/ Delivery
    \/ Retry
    \/ Resync
    \/ Edit

Spec == Init /\ [][Next]_vars

\* Workers take what is queued, retries and resyncs come, caches catch up, Flux works.
Fairness ==
    /\ \A p \in Plugins : WF_vars(PluginController(p))
    /\ WF_vars(Flux) /\ WF_vars(PresetController) /\ WF_vars(Delivery)
    /\ WF_vars(Retry) /\ WF_vars(Resync)

FairSpec == Spec /\ Fairness

------------------------------------------------------------------------------
(* Properties.                                                                *)

\* A release whose images are taken from the mirror is one whose images are there
\* (oci_mirror.go:20-149: replication comes before the HelmRelease).
ImagesThere ==
    \A p \in Plugins : release[p].state = "present" /\ release[p].spec.mirrored
                          => release[p].spec.version \in replicated

\* The release is in the end what definition, cluster, mirror and values ask for, also
\* if the value is another Plugin's (plugin_controller_flux.go:79-244, 463-530).
ReleaseFollows ==
    \A p \in Plugins :
        <>[](Live(p) /\ GetPluginDefinitionFromPlugin /\ definition.chart /\ ~Panics(p) /\ (mirror => cluster.ready)
                => release[p].state = "present" /\ release[p].spec = ReleaseSpec(p))

\* The Plugin says in the end what has become of its release, with the services it
\* exposes, whatever was read from a cache that was behind or overwritten by the answer
\* to a patch (plugin_controller_flux.go:246-461, plugin_controller.go:142-170).
PluginStatusFollows ==
    \A p \in Plugins :
        <>[](Live(p) /\ cluster.ready /\ GetPluginDefinitionFromPlugin /\ definition.chart /\ ~Panics(p) =>
                /\ status[p].ready = "True" /\ status[p].version = definition.version
                /\ plugin[p].label = cluster.expose)

\* The PluginPreset makes its Plugin with the values of the cluster, and says in the end
\* whether it is ready or why there is none (pluginpreset_controller.go:110-430).
PresetFollows ==
    <>[](preset.stage = "live" =>
            /\ presetStatus.ready = Cond(Live(Mine) /\ status[Mine].ready = "True" /\ cluster.match
                                           /\ applyOverridesToPreset # Bad /\ GetPluginDefinitionSpec)
            /\ cluster.match /\ applyOverridesToPreset # Bad /\ GetPluginDefinitionSpec =>
                  Live(Mine) /\ plugin[Mine].value = applyOverridesToPreset)

\* A PluginPreset that is deleted goes, with its Plugin and the release; a definition that
\* was deleted from under the Plugin is what keeps them (pluginpreset_controller.go:136-182).
PresetDeletionCompletes ==
    <>[](preset.stage # "live" /\ GetPluginDefinitionSpec =>
            preset.stage = "gone" /\ plugin[Mine].stage = "absent" /\ release[Mine] = NoRelease)

\* A PluginPreset that nothing will wake up has nothing to wake up for: one that is being
\* deleted waits for a Plugin that exists, and a live one has listed the Plugin as it is.
\* The predicates let the right events through (pluginpreset_controller.go:62-83,
\* predicates.go:59-83).
PresetAsleep ==
    Quiet /\ presetQueue = "none" =>
        /\ preset.stage = "deleting" => plugin[Mine].stage # "absent"
        /\ preset.stage = "live" /\ (cached => Live(Mine)) => presetStatus.listed = pluginReadyCondition

\* Who takes a value from a Plugin is in the end among its trackers
\* (plugin_values_resolver.go:55-245).
TrackersComplete ==
    <>[](\A p \in Plugins : Live(p) /\ GetPluginDefinitionFromPlugin /\ definition.chart /\ ~Panics(p) =>
            \A q \in trackedObjects(p) : p \in plugin[q].trackers)

\* The safety of the rollout: images are where releases look for them, and nobody sleeps
\* over work.
RolloutSafe == TypeOK /\ ImagesThere /\ PresetAsleep

\* A Plugin settles: its release, its status and those who are told of it.
PluginSettles == ReleaseFollows /\ PluginStatusFollows /\ TrackersComplete

\* A PluginPreset settles, while it lives and when it is deleted.
PresetSettles == PresetFollows /\ PresetDeletionCompletes
==============================================================================
