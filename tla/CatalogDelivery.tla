--------------------------- MODULE CatalogDelivery ---------------------------
(* A Catalog, the Flux controllers that fetch and apply its sources, and the  *)
(* PluginDefinitions that come out: CatalogController, the part of Flux the   *)
(* code relies on, and PluginDefinitionController.                            *)
EXTENDS CatalogController, PluginDefinitionController

CONSTANT MaxEdits   \* edits of the Catalog

VARIABLES head,       \* per source: the revision at the tip of the repository
          replaced,   \* history: options that option patches have replaced
          edits

vars == <<catalogVars, pdVars, mishaps, head, replaced, edits>>

\* Every revision of a source is a chart version of its definition.
ASSUME DeliveryAssumption == MaxEdits \in Nat /\ MaxDigest <= MaxVersion

Init ==
    /\ CatalogInit /\ PdInit
    /\ head = [s \in Source |-> 1]
    /\ replaced = {}
    /\ edits = 0 /\ mishaps = 0

TypeOK ==
    /\ CatalogTypeOK /\ PdTypeOK
    /\ head \in [Source -> Digests]
    /\ replaced \subseteq {"named", "other"}
    /\ edits \in 0..MaxEdits /\ mishaps \in 0..MaxMishaps

------------------------------------------------------------------------------
(* Flux.                                                                      *)

SetReady(s, k, b) ==
    /\ ready' = [ready EXCEPT ![s][k] = b]
    /\ queued' = (queued \/ k \in Owned)

FluxUnchanged == UNCHANGED <<catalog, pass, objs, patched, store, unpatched, edits>>

\* The repository has been fetched.
FluxGit(s) ==
    /\ objs[s]["Git"] = "live" /\ ~ready[s]["Git"]
    /\ SetReady(s, "Git", TRUE)
    /\ FluxUnchanged /\ UNCHANGED <<artifact, head, replaced, mishaps, pdVars>>

\* The artifact is written first, and nothing of the Catalog watches it ...
FluxArtifact(s) ==
    /\ objs[s]["Generator"] = "live" /\ ready[s]["Git"]
    /\ artifact[s] # head[s] \/ ~ready[s]["Artifact"]
    /\ artifact' = [artifact EXCEPT ![s] = head[s]]
    /\ ready' = [ready EXCEPT ![s]["Artifact"] = TRUE, ![s]["Generator"] = FALSE]
    /\ FluxUnchanged /\ UNCHANGED <<queued, head, replaced, mishaps, pdVars>>

\* ... then the status of the generator.
FluxGenerator(s) ==
    /\ objs[s]["Generator"] = "live" /\ ~ready[s]["Generator"]
    /\ artifact[s] = head[s] /\ ready[s]["Artifact"]
    /\ SetReady(s, "Generator", TRUE)
    /\ FluxUnchanged /\ UNCHANGED <<artifact, head, replaced, mishaps, pdVars>>

\* The Kustomization applies the artifact: a patch that does not find the
\* option at its index fails the whole application, one without its definition
\* does nothing.
Patches(s) == patched[s] # 0 /\ artifact[s] \notin Without
Applies(s) == Patches(s) => BuildJSONPatchReplace(patched[s], artifact[s])
Delivers(s) == Applies(s) /\ s \in Definition /\ artifact[s] \notin Without

FluxApply(s) ==
    /\ objs[s]["Kustomization"] = "live" /\ artifact[s] # 0
    /\ ready[s]["Kustomization"] # Applies(s)
          \/ (Delivers(s) /\ pd[s].version # artifact[s])
    /\ SetReady(s, "Kustomization", Applies(s))
    /\ replaced' = replaced \cup
         (IF Applies(s) /\ Patches(s)
          THEN {IF OptionIndex(patched[s]) = OptionIndex(artifact[s])
                THEN "named" ELSE "other"}
          ELSE {})
    /\ IF Delivers(s)
       THEN /\ pd' = [pd EXCEPT ![s].version = artifact[s]]
            /\ pdQueued' = pdQueued \cup {s}
            /\ UNCHANGED <<charts, chartOk, mirrored>>
       ELSE UNCHANGED pdVars
    /\ FluxUnchanged /\ UNCHANGED <<artifact, head, mishaps>>

\* An object of the Catalog fails for a while.
FluxFault(s, k) ==
    /\ ready[s][k]
    /\ k \in Owned => objs[s][k] = "live"
    /\ Mishap(TRUE)
    /\ SetReady(s, k, FALSE)
    /\ FluxUnchanged /\ UNCHANGED <<artifact, head, replaced, pdVars>>

\* A new revision in the repository.
Push(s) ==
    /\ head[s] < MaxDigest
    /\ head' = [head EXCEPT ![s] = @ + 1]
    /\ UNCHANGED <<catalogVars, pdVars, replaced, mishaps, edits>>

UserEdit ==
    /\ edits < MaxEdits
    /\ edits' = edits + 1
    /\ \E sources \in SUBSET Source, valid \in BOOLEAN, suspended \in BOOLEAN :
          /\ ~valid => sources # {}
          /\ EditCatalog(sources, valid, suspended)
    /\ UNCHANGED <<pdVars, head, replaced, mishaps>>

Flux == \E s \in Source : FluxGit(s) \/ FluxArtifact(s) \/ FluxGenerator(s) \/ FluxApply(s)

DefinitionSteps ==
    /\ UNCHANGED <<catalogVars, head, replaced, edits>>
    /\ PdController \/ \E n \in Definition, v \in Versions : FluxChart(n, v)

Next ==
    \/ (CatalogController \/ Restart \/ Resync)
          /\ UNCHANGED <<pdVars, head, replaced, edits>>
    \/ DefinitionSteps
    \/ Flux
    \/ \E s \in Source, k \in Kinds : FluxFault(s, k)
    \/ \E s \in Source : Push(s)
    \/ UserEdit

Spec == Init /\ [][Next]_vars

\* The Catalog controller works through its queue, which the resync of the caches
\* fills now and then; Flux and the controller of the definitions keep going.
\* Users, repositories and mishaps owe nothing.
Fairness ==
    /\ WF_vars(/\ UNCHANGED <<pdVars, head, replaced, edits>>
               /\ CatalogController \/ Resync)
    /\ WF_vars(Flux \/ DefinitionSteps)

FairSpec == Spec /\ Fairness

------------------------------------------------------------------------------
(* Properties.                                                                *)

\* Nothing is lost track of: an object that exists for a source outside the
\* running pass is in the inventory, the only place checkAndCleanInventory looks
\* for orphans, unless a pass that worked on the source ended before its status
\* was stored (catalog_controller.go:300-370).
Tracked ==
    \A s \in Source, k \in Owned :
        objs[s][k] # "absent" =>
            \/ k \in ToSet(catalog.inventory[s])
            \/ s \in unpatched
            \/ pass.pc # "idle" /\ s \in pass.sources

\* An option override never changes another option, whichever revision the
\* patches were computed from and whichever they are applied to
\* (kustomize_builder.go:43-60, source.go:438-480).
OverridesHitTheirOption == "other" \notin replaced

\* The chart of a version exists only once the version is in the mirror of the
\* organization (plugindefinition_controller.go:94-106).
ChartsAreMirrored ==
    Mirroring => \A n \in Definition : charts[n] \subseteq mirrored[n]

\* Orphans go: of a source that was taken out of the Catalog nothing is left,
\* although a pass skips entries of the list it shortens.
OrphansGone ==
    \A s \in Source \ (catalog.sources \cup unpatched) :
        ~catalog.suspended /\ catalog.valid =>
            catalog.inventory[s] = <<>> /\ objs[s] = [k \in Owned |-> "absent"]

\* The Catalog recovers: with sources, a valid list and no suspension it is Ready
\* in the end, after whatever errors, empty lists or invalid lists came before.
\* What it does not recover from is the manifest file of the current revision
\* torn by a restart (artifact.go:163-168 takes any file for the whole content), and
\* an override of an option that the current revision lacks (source.go:459-463).
NoSuchOption == \E s \in Overridden \cap catalog.sources : artifact[s] \in Optionless
TornManifest == \E s \in Overridden \cap catalog.sources :
                    artifact[s] # 0 /\ store[s][artifact[s]] = "torn"
CatalogRecovers ==
    <>[](catalog.sources # {} /\ catalog.valid /\ ~catalog.suspended =>
            catalog.cond.status = "True" \/ TornManifest \/ NoSuchOption)

\* Suspension reaches everything the inventory lists.
AllSuspended ==
    catalog.suspended =>
        \A s \in Source, k \in Owned :
            k \in ToSet(catalog.inventory[s]) => objs[s][k] # "live"

\* The mirror configuration could not be read after the chart had been replicated: the
\* early return of utils.go:282-289 skips the condition that this has set to False.
StuckReplication(n) == pd[n].synced = pd[n].version /\ pd[n].oci = "False"

\* A definition becomes usable for Plugins, whichever call of its passes fails: Ready,
\* with the chart of its current version and no chart of another, or without one if the
\* version has none (plugindefinition/utils.go:52-92, 197-235), save for
\* StuckReplication.
DefinitionRecovers ==
    <>[](\A n \in Definition :
            pd[n].version # 0 /\ ~StuckReplication(n) =>
                /\ isPluginDefinitionReady(n)
                /\ pd[n].version \notin Chartless => {pd[n].version} = charts[n] /\ charts[n] = chartOk[n])

\* The safety of delivery: no object is lost track of, no override hits another option
\* and no chart is fetched from a mirror that does not have it.
DeliverySafe == TypeOK /\ Tracked /\ OverridesHitTheirOption /\ ChartsAreMirrored

\* The inventory is obeyed: what it lists is deleted in the end if its source is gone and
\* suspended if the Catalog is (catalog_controller.go:90-130, 300-370).
InventoryObeyed == <>[](OrphansGone /\ AllSuspended)
==============================================================================
