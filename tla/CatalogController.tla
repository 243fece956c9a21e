-------------------------- MODULE CatalogController --------------------------
(* The Catalog controller: internal/controller/catalog/{catalog_controller,  *)
(* source}.go, the patches of internal/flux/kustomize_builder.go and the      *)
(* artifact store of internal/flux/artifact.go.  For every source of a        *)
(* Catalog it keeps a GitRepository, an ArtifactGenerator and a Kustomization *)
(* and records them, with the ExternalArtifact Flux derives, in the inventory *)
(* of the status, which is also the only place it finds orphans in.           *)
(*                                                                            *)
(* A pass is cut where something else may step in: the read, the cleanup,    *)
(* each source, the verification and the status patch.                       *)
EXTENDS Mishaps, Sequences, SequencesExt, FiniteSets

CONSTANTS Source,       \* repository and ref: what names a source's objects
          Overridden,   \* the sources with an option override
          MaxDigest,    \* revisions of the content of a source
          Without,      \* the revisions without the definition of the overridden option
          Optionless    \* the revisions in which that definition has no such option

VARIABLES catalog,   \* the stored Catalog: spec, suspend annotation, status
          pass,      \* the pass in flight, or Idle
          queued,    \* whether the Catalog is in the work queue
          objs,      \* per source and kind: absent, live or suspended
          ready,     \* per source and kind: the Ready condition Flux reports
          artifact,  \* per source: the digest of the ExternalArtifact, 0: none
          patched,   \* per source: the digest the Kustomization's option
                     \*   patches were computed from, 0: no such patches
          store,     \* per source and digest: the manifest file on disk
          unpatched  \* history: sources of a pass whose status never arrived

catalogVars == <<catalog, pass, queued, objs, ready, artifact, patched, store,
                 unpatched>>

ASSUME CatalogAssumption == /\ Overridden \subseteq Source
                            /\ MaxDigest \in Nat \ {0}
                            /\ Without \cap Optionless = {}

Kinds == {"Git", "Generator", "Artifact", "Kustomization"}
Owned == Kinds \ {"Artifact"}     \* the kinds the controller writes and watches
Digests == 1..MaxDigest
NoInventory == [s \in Source |-> <<>>]

\* The condition Ready: its status and what its reason and message tell apart.
NoCondition == [status |-> "none", reason |-> "none"]
False(reason) == [status |-> "False", reason |-> reason]
Reasons == {"none", "Progressing", "Empty", "EmptyError", "Invalid",
            "CleanUpFail", "NotReady", "Ready"}
Conditions == [status : {"none", "Unknown", "True", "False"}, reason : Reasons]
SetUnknownCondition(c) ==
    IF c.status = "none" THEN [status |-> "Unknown", reason |-> "Progressing"] ELSE c
SetProgressingReason(c) == [c EXCEPT !.reason = "Progressing"]

Idle == [pc |-> "idle"]

\* A list of the inventory has each kind at most once.
Lists == {list \in Seq(Kinds) : Len(list) <= 4 /\ \A i, j \in 1..Len(list) : list[i] = list[j] => i = j}
Passes == [pc : {"sources", "verify"}, sources : SUBSET Source, todo : SUBSET Source,
           failed : BOOLEAN, inventory : [Source -> Lists], cond : Conditions]

CatalogTypeOK ==
    /\ catalog \in [sources : SUBSET Source, valid : BOOLEAN, suspended : BOOLEAN,
                    inventory : [Source -> Lists], cond : Conditions]
    /\ pass \in {Idle} \cup Passes
    /\ queued \in BOOLEAN
    /\ objs \in [Source -> [Owned -> {"absent", "live", "suspended"}]]
    /\ ready \in [Source -> [Kinds -> BOOLEAN]]
    /\ artifact \in [Source -> 0..MaxDigest]
    /\ patched \in [Source -> 0..MaxDigest]
    /\ store \in [Source -> [Digests -> {"none", "whole", "torn"}]]
    /\ unpatched \subseteq Source

CatalogInit ==
    /\ \E sources \in SUBSET Source :
          catalog = [sources |-> sources, valid |-> TRUE, suspended |-> FALSE,
                     inventory |-> NoInventory, cond |-> NoCondition]
    /\ pass = Idle
    /\ queued = TRUE
    /\ objs = [s \in Source |-> [k \in Owned |-> "absent"]]
    /\ ready = [s \in Source |-> [k \in Kinds |-> FALSE]]
    /\ artifact = [s \in Source |-> 0]
    /\ patched = [s \in Source |-> 0]
    /\ store = [s \in Source |-> [d \in Digests |-> "none"]]
    /\ unpatched = {}

------------------------------------------------------------------------------
(* The end of a pass: patchStatus.                                            *)

\* Status changes are events of the Catalog itself; MergeFrom drops a patch that
\* changes nothing, which then wakes nobody up.  An error, of the pass or of the
\* patch, is retried.
patchStatus(p, lost) ==
    LET new == [catalog EXCEPT !.inventory = p.inventory, !.cond = p.cond]
        recorded == {s \in Source : Owned \subseteq ToSet(p.inventory[s])}
    IN  /\ pass' = Idle
        /\ catalog' = IF lost THEN catalog ELSE new
        /\ queued' = \/ queued /\ pass.pc # "idle"
                     \/ objs' # objs \/ catalog' # catalog \/ p.failed \/ lost
        /\ unpatched' = IF lost THEN unpatched \cup p.sources ELSE unpatched \ recorded

------------------------------------------------------------------------------
(* Suspension.                                                                *)

\* EnsureSuspended: only what the inventory lists is suspended.
Suspend(objects, inventory) ==
    [s \in Source |-> [k \in Owned |->
        IF k \in ToSet(inventory[s]) /\ objects[s][k] # "absent"
        THEN "suspended" ELSE objects[s][k]]]

EnsureSuspended(failed) ==
    /\ pass.pc = "idle" /\ queued /\ catalog.suspended
    /\ Mishap(failed)
    /\ queued' = failed
    /\ objs' = IF failed THEN objs ELSE Suspend(objs, catalog.inventory)
    /\ UNCHANGED <<catalog, pass, ready, artifact, patched, store, unpatched>>

------------------------------------------------------------------------------
(* checkAndCleanInventory.  The loop ranges over the list it shortens:        *)
(* slices.DeleteFunc moves the rest of the shared array down and zeroes its   *)
(* end.  A source's entries are all desired or all orphaned, so iteration i   *)
(* finds what was at place 2i - 1 and removes it, or finds a zeroed entry,    *)
(* which is skipped: every second entry is left for the next pass.            *)

IterationsShort(list) == Len(list) \div 2
Iterations(list) == (Len(list) + 1) \div 2
\* The first n iterations: the entries they remove, and the list they leave.
Removed(list, n) == {list[2 * i - 1] : i \in 1..n}
\* The entries behind the removed ones dropped with them.
LeftForgets(list, n) == [i \in 1..(Len(list) \div 2) |-> list[i + ((Len(list) + 1) \div 2)]]
Left(list, n) == [i \in 1..(Len(list) - n) |-> IF i <= n THEN list[2 * i] ELSE list[i + n]]

\* EnsureCreated up to the sources.  An invalid list of sources ends the pass
\* before the inventory is looked at.
validateSources(lost) ==
    /\ pass.pc = "idle" /\ queued /\ ~catalog.suspended
    /\ catalog.sources # {} /\ ~catalog.valid
    /\ Mishap(lost)
    /\ UNCHANGED objs
    /\ LET p == [sources |-> {}, inventory |-> catalog.inventory, failed |-> TRUE,
                 cond |-> False("Invalid")]
       IN patchStatus(p, lost)
    /\ UNCHANGED <<ready, artifact, patched, store>>

\* n[s] iterations are done for the orphaned source s; f is the source whose next
\* deletion fails, if any: what was removed before stays removed, from the
\* objects and from the inventory (the loop works on the map of the status).
\* With no sources the pass ends here, and an error only shows in the message of
\* the condition.
checkAndCleanInventory(n, f, lost) ==
    LET orphaned == Source \ catalog.sources
        removed == [s \in Source |-> IF s \in orphaned THEN Removed(catalog.inventory[s], n[s])
                                                       ELSE {}]
        failed == f \in orphaned
        empty == catalog.sources = {}
        p == [pc |-> "sources", sources |-> catalog.sources, todo |-> catalog.sources,
              failed |-> failed /\ ~empty,
              inventory |-> [s \in Source |->
                               IF s \in orphaned THEN Left(catalog.inventory[s], n[s])
                                                 ELSE catalog.inventory[s]],
              cond |-> IF empty THEN False(IF failed THEN "EmptyError" ELSE "Empty")
                       ELSE IF failed THEN False("CleanUpFail")
                       ELSE SetProgressingReason(SetUnknownCondition(catalog.cond))]
    IN  /\ pass.pc = "idle" /\ queued /\ ~catalog.suspended
        /\ catalog.valid \/ empty
        /\ \A s \in orphaned \ {f} : n[s] \in {Iterations(catalog.inventory[s])}
                                         \cup (IF failed THEN {0} ELSE {})
        /\ \A s \in catalog.sources : n[s] = 0
        /\ f \notin catalog.sources
        /\ failed => /\ n[f] < Iterations(catalog.inventory[f])
                     /\ catalog.inventory[f][2 * n[f] + 1] # "Artifact"
        /\ ~(failed /\ lost)
        /\ Mishap(failed \/ lost)
        /\ objs' = [s \in Source |-> [k \in Owned |->
                      IF k \in removed[s] THEN "absent" ELSE objs[s][k]]]
        /\ ready' = [s \in Source |-> [k \in Kinds |-> ready[s][k] /\ k \notin removed[s]]]
        /\ artifact' = [s \in Source |-> IF "Generator" \in removed[s] THEN 0 ELSE artifact[s]]
        /\ patched' = [s \in Source |-> IF "Kustomization" \in removed[s] THEN 0 ELSE patched[s]]
        /\ IF empty \/ failed
           THEN patchStatus(p, lost)
           ELSE /\ ~lost
                /\ pass' = p
                /\ queued' = (objs' # objs)
                /\ UNCHANGED <<catalog, unpatched>>
        /\ UNCHANGED store

------------------------------------------------------------------------------
(* One source: Git repository, artifact generator, artifact, Kustomization.   *)

\* The objects of a source after each call: created, or brought back from a
\* suspension.
reconcileGitRepository(o) == [o EXCEPT !["Git"] = "live"]
KeepsDisabled(o) == [o EXCEPT !["Generator"] = IF @ = "absent" THEN "live" ELSE @]
reconcileArtifactGeneration(o) == [o EXCEPT !["Generator"] = "live"]
reconcileKustomization(o) == [o EXCEPT !["Kustomization"] = "live"]

\* Ready, as Flux reports it; an object that is not there is not ready.
objectReadiness(s, k) == ready[s][k] /\ (k = "Artifact" => artifact[s] # 0)

\* The artifact store: a file that is there is taken for the whole manifest.
Get(files, d) == IF files[d] = "none" THEN "whole" ELSE files[d]
Save(files, d, content) == IF files[d] = "none" THEN [files EXCEPT ![d] = content] ELSE files
DeleteAllExcept(files, d) == [e \in Digests |-> IF e = d THEN files[e] ELSE "none"]
fetchArtifact(files, d) == DeleteAllExcept(Save(files, d, Get(files, d)), d)

\* A manifest has to decode for a definition to be looked for in it.
findPluginDefinition(content) == content = "whole"

\* The place of the overridden option among the options of a revision; 0: none.
OptionIndex(d) == IF d \in Without \cup Optionless THEN 0 ELSE 1 + (d % 2)

\* Without the definition there is nothing to patch, without the option it is an error.
getOptionOverridePatches(content, d) ==
    CASE ~findPluginDefinition(content) \/ d \in Optionless -> "error"
      [] findPluginDefinition(content) /\ d \in Without -> "none"
      [] OTHER -> "patches"

\* Whether the option patches computed from revision "from" apply to revision
\* "to": each first tests the name of the option at its index.
BuildJSONPatchReplace(from, to) == OptionIndex(from) = OptionIndex(to)

Unlisted(list, k) == IF k \in ToSet(list) THEN <<>> ELSE <<k>>
setInventory(list, k) == list \o Unlisted(list, k)

\* The body of the loop of EnsureCreated; stage is the call that fails, if any: the
\* generator is written before the artifact is read and labelled.
ReconcileSource(s, stage) ==
    LET d == artifact[s]
        git == stage # "git"
        generator == git /\ stage # "generator"
        usable == generator /\ stage # "artifact" /\ d # 0 /\ objectReadiness(s, "Artifact")
        fetched == usable /\ s \in Overridden /\ stage # "download"
        files == IF fetched THEN fetchArtifact(store[s], d) ELSE store[s]
        patches == IF s \in Overridden THEN getOptionOverridePatches(files[d], d) ELSE "none"
        kustomization == usable /\ stage \notin {"download", "kustomization"} /\ patches # "error"
        o1 == IF git THEN reconcileGitRepository(objs[s]) ELSE objs[s]
        o2 == IF generator THEN reconcileArtifactGeneration(o1) ELSE o1
        o3 == IF kustomization THEN reconcileKustomization(o2) ELSE o2
    IN  /\ pass.pc = "sources" /\ s \in pass.todo
        /\ stage = "download" => usable /\ s \in Overridden /\ store[s][d] = "none"
        /\ stage = "kustomization" => usable
        /\ Mishap(stage # "none")
        /\ store' = [store EXCEPT ![s] = files]
        /\ objs' = [objs EXCEPT ![s] = o3]
        /\ patched' = [patched EXCEPT ![s] =
                       IF kustomization THEN IF patches = "patches" THEN d ELSE 0 ELSE @]
        /\ pass' = [pass EXCEPT
                      !.todo = @ \ {s},
                      !.failed = @ \/ ~kustomization,
                      !.pc = IF pass.todo = {s} THEN "verify" ELSE @,
                      !.inventory[s] = IF git THEN @ ELSE setInventory(@, "Git")]
        /\ queued' = (queued \/ objs' # objs \/ patched' # patched)
        \* Flux looks again at what changed.
        /\ ready' = [ready EXCEPT ![s] = [k \in Kinds |->
                       /\ @[k]
                       /\ k \in Owned => objs'[s][k] = objs[s][k]
                       /\ k = "Kustomization" => patched'[s] = patched[s]]]
        /\ UNCHANGED <<catalog, artifact, unpatched>>

------------------------------------------------------------------------------
(* verifyStatus: every object of every source enters the inventory.           *)

Record(list) == list \o Unlisted(list, "Git") \o Unlisted(list, "Generator")
                     \o Unlisted(list, "Artifact") \o Unlisted(list, "Kustomization")

verifyStatus(lost) ==
    LET held == pass.cond.status = "False" /\ pass.cond.reason \in
                    {"Invalid", "CleanUpFail", "Empty", "EmptyError"}
        notReady == \E s \in pass.sources, k \in Kinds : ~objectReadiness(s, k)
        p == [pass EXCEPT
                !.inventory = [s \in Source |-> IF s \in pass.sources
                                                THEN Record(pass.inventory[s]) ELSE pass.inventory[s]],
                !.cond = IF notReady \/ pass.failed THEN False("NotReady")
                         ELSE [status |-> "True", reason |-> "Ready"]]
    IN  /\ pass.pc = "verify"
        /\ Mishap(lost)
        /\ UNCHANGED objs
        /\ patchStatus(IF held THEN [pass EXCEPT !.failed = TRUE] ELSE p, lost)
        /\ UNCHANGED <<ready, artifact, patched, store>>

------------------------------------------------------------------------------
(* Restarts, the resync of the caches, and edits of the Catalog.              *)

\* A restart in the middle of os.WriteFile leaves a torn file behind.
Restart ==
    /\ pass.pc # "idle"
    /\ Mishap(TRUE)
    /\ pass' = Idle
    /\ queued' = TRUE
    /\ unpatched' = unpatched \cup pass.sources
    /\ store' \in {store} \cup
          {[store EXCEPT ![s][artifact[s]] = "torn"] : s \in
              {t \in pass.todo \cap Overridden :
                  artifact[t] # 0 /\ store[t][artifact[t]] = "none"}}
    /\ UNCHANGED <<catalog, objs, ready, artifact, patched>>

Resync ==
    /\ ~queued /\ pass.pc = "idle"
    /\ queued' = TRUE
    /\ UNCHANGED <<catalog, pass, objs, ready, artifact, patched, store, unpatched, mishaps>>

EditCatalog(sources, valid, suspended) ==
    /\ catalog' = [catalog EXCEPT !.sources = sources, !.valid = valid,
                                  !.suspended = suspended]
    /\ catalog' # catalog
    /\ queued' = TRUE
    /\ UNCHANGED <<pass, objs, ready, artifact, patched, store, unpatched>>

CatalogController ==
    \/ \E failed \in BOOLEAN : EnsureSuspended(failed)
    \/ \E lost \in BOOLEAN : validateSources(lost) \/ verifyStatus(lost)
    \/ \E n \in [Source -> 0..2], f \in Source \cup {"none"}, lost \in BOOLEAN :
          checkAndCleanInventory(n, f, lost)
    \/ \E s \in Source, stage \in {"none", "git", "generator", "artifact", "download", "kustomization"} :
          ReconcileSource(s, stage)
==============================================================================
