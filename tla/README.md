# Greenhouse: a TLA+ verification project

Greenhouse is a Kubernetes operator. Users describe organizations, teams,
clusters and plugins as custom resources in a central cluster; controllers make
the central and the remote clusters follow. This project models the control
logic of the controllers, checks it with TLC on small instances and proves the
core of it with TLAPS for every instance.

- [1. The system](#1-the-system)
- [2. Modules](#2-modules)
- [3. Runs](#3-runs)
- [4. Fairness](#4-fairness)
- [5. Proofs](#5-proofs)
- [6. Where code and documentation disagree](#6-where-code-and-documentation-disagree)
- [7. What is not modelled](#7-what-is-not-modelled)
- [8. Plan](#8-plan)

## 1. The system

All controllers run in one process (`cmd/greenhouse`), of which one instance is
leader. They share nothing but the API server of the central cluster, read it
through an informer cache that may be behind, and write to it and to remote
clusters. A controller is called for one key at a time; a key is called again
when a watched object changes, when a pass fails or asks for it, and at the
resync of the cache (every ten hours, the default of controller-runtime).

| Component | State | Operations | Interacts with |
|---|---|---|---|
| lifecycle loop (`pkg/lifecycle/reconcile.go`) | cleanup finalizer, conditions Deleted, Suspended, Ready | `Reconcile`: finalizer, `EnsureCreated`, `EnsureDeleted`, `EnsureSuspended`, status patch | all controllers run in it |
| TeamRoleBinding (`internal/controller/teamrbac`) | `.status.propagationStatus`; ClusterRoles and bindings in remote clusters | propagate, clean up, delete | Clusters, Teams, TeamRoles, remote clusters |
| cluster bootstrap (`bootstrap_controller.go`) | the Cluster of a kubeconfig Secret, the Secret's owner | create the Cluster, own the Secret | Secret, Cluster, garbage collector |
| remote cluster (`cluster_controller.go`, `cluster_status.go`) | ClusterRoleBinding, Namespace, ServiceAccount in the cluster; token; KubeConfigValid and other conditions | set up, report, offboard | Secret, Plugins, remote cluster |
| Plugin (`plugin_controller*.go`, `plugin_values_resolver.go`, `oci_mirror.go`) | a Flux HelmRelease per Plugin, release status, trackers, replicated images | create, suspend, report, delete and wait | Flux, PluginDefinition, other Plugins, registries |
| PluginPreset (`pluginpreset_controller.go`) | a Plugin per matching cluster, aggregated status | create, update, clean up, delete or retain | Clusters, Plugins, PluginDefinitions |
| Catalog (`internal/controller/catalog`, `internal/flux`) | GitRepository, ArtifactGenerator and Kustomization per source; inventory; manifests on disk | reconcile, suspend, clean up | Flux |
| (Cluster)PluginDefinition | HelmRepository, HelmChart; conditions | reconcile, replicate, clean up | Flux, registries, Plugins |
| Organization | namespace, RBAC, dex connector and clients, service-proxy Secret and Plugin, SCIM condition | reconcile, delete | dex, SCIM, Teams |
| Team | members; ServiceAccount, Role, RoleBinding of a support group | reconcile | SCIM, Organization |
| ClusterKubeconfig | a kubeconfig for the users of a cluster | reconcile | Secret, Organization |
| propagation (`pkg/lifecycle/propagation.go`) | record of propagated keys, in an annotation | `Apply` | PluginPreset and others |
| webhooks | none | defaulting, validation | API server |
| dex connector | groups of tokens | login, refresh | Teams, identity provider |
| authz webhook | none | decide on a request | Teams, ServiceAccounts, resources |
| service proxy | a table of clusters, transports and routes under a lock | reconcile, forward | Secrets, Plugins, clients |
| CORS proxy, ID proxy, greenhousectl | request-local | HTTP, command line | clients |

What makes it hard:

- **Stale reads.** Every decision rests on a cached version. A pass may act on an
  object that has since been deleted, or re-created under its name.
- **No transactions.** A pass makes many calls, to several API servers; each can
  fail, and the process can stop between any two. The status is patched last.
- **Concurrency.** Controllers of different kinds work on the same objects at the
  same time: a PluginPreset creates Plugins for a Cluster whose controller deletes
  them.
- **Two kinds of deletion.** Finalizers, held by controllers and by Flux, and
  owner references followed by the garbage collector.
- **Shared effects.** One ClusterRole in a cluster serves several bindings; one dex
  client holds the redirects of all organizations.
- **Records.** Inventory, propagation status, propagation annotation, tracked objects
  and replicated images say what exists, and are written after it does.
- **Time.** Tokens expire while passes are ten minutes apart.
- **Silence.** Some objects that a decision rests on are not watched; only the resync
  of the caches looks at them again.

What makes the components correct:

- *lifecycle*: nothing is held on behalf of an object without the finalizer, the
  Deleted condition is only set when nothing is left, suspension stops everything,
  deletion ends.
- *TeamRoleBinding*: what is in the clusters is recorded, follows the selection,
  and is gone with the binding; no binding points to a missing ClusterRole.
- *clusters, Plugins, PluginPresets*: Flux can uninstall before it loses access;
  offboarding ends; retained things stay; a PluginPreset gets exactly the Plugins
  it asks for and touches no others.
- *Catalog, PluginDefinition*: everything that exists for a source is in the
  inventory, orphans go, overrides change the option they are for, definitions become
  usable after failures.
- *Organization, Team*: dex, the Secret and the Plugin of the service proxy agree in
  the end, redirects come back, an outage of SCIM takes nobody out of a Team, a former
  support group loses its access.
- *access to clusters*: tokens do not expire while operator and cluster are there,
  status, kubeconfigs and proxy follow, every request is answered.
- *releases*: the HelmRelease is what definition, values, cluster and mirror ask for,
  and Plugin and PluginPreset say what has become of it.
- *admission*: what was let in is let in again, values fit their option, a release does
  not move.
- *ownership*: labels arrive and are taken back, and who is let through is who owns.

The complete list of components is in `PROJECT.json` under `components`, and what
is hard to test, line by line, under `hazards`.

## 2. Modules

```
ManagedResource      what a controller promises about one object (abstract)
   ^           ^
   |refines    |refines
Lifecycle   TeamRoleBinding           Hub            central cluster, cache, users,
   ^                                   ^             garbage collector
   |proves                 +-----------+------------+
LifecycleProofs     ClusterController  PluginController  PluginPresetController
                           +-----------+------------+
                                 Offboarding     composition and properties

Mishaps              one bound for all that goes wrong in the compositions below
   +-- CatalogController, PluginDefinitionController        -> CatalogDelivery
   +-- OrganizationController <- TeamController             -> IdentityAccess
   +-- ClusterCredentials <- ClusterKubeconfig, ServiceProxy -> RemoteAccess
   +-- PluginRelease <- PluginPresetStatus                  -> PluginRollout
PluginAdmission -> Admission          Propagation -> Ownership

MCTeamRoleBinding, MCOffboarding: instances for TLC; Lifecycle and the other
compositions are their own instance

TeamRoleBindingProofs, OffboardingProofs, CatalogProofs (of CatalogDelivery),
IdentityProofs, RemoteAccessProofs, RolloutProofs, WebhookProofs (of Ownership and
Admission): each extends the module it is about, as LifecycleProofs does; the names of
Ownership and Admission are distinct, so that WebhookProofs can extend both
```

Operators that name a deviation (`deletePluginsNoWait`, `PhaseNoFinalizer`,
`IterationsShort`, ...) and stand right before the definition they deviate from are
plausible mistakes in the code. They are used by no specification: each shows that a
property would notice it.

### ManagedResource

The abstract specification. `phase` is unmanaged, managed or closing, `held` is
what exists on behalf of the object. Things are held only in the last two phases,
and the object leaves the phase closing only when nothing is held.

### Lifecycle

`lifecycle.Reconcile` for one object; objects do not influence each other here.
`log` is the sequence of versions from the one in the cache to the one in the API
server, so a read is `log[1]` and a write appends; `Deliver` drops the first.
A version is the set of the marks the loop looks at. `rv` says whether the
resourceVersion that was read is still the server's, which decides whether an
update succeeds; a status patch has no precondition and always reaches an object
of that name. `ext` is what exists because of the object. `EnsureCreated`,
`EnsureDeleted` and `EnsureSuspended` are the contract of the interface
`Reconciler`: they change `ext` in any way their names allow and may fail. `kind` never
changes: it says whether the object can be suspended (`RuntimeObject.CanBeSuspended`) and
whether others put finalizers on it.

| Action | Code |
|---|---|
| `Reconcile` | `reconcile.go:88-104`: Get, `Phase` chooses the branch |
| `ensureFinalizer`, `removeFinalizer` | the two updates, lost on conflict |
| `ensureCreated`, `ensureDeleted`, `ensureSuspended` | the calls and the conditions they lead to |
| `patchStatus` | the merge patch: only conditions the pass has changed |
| `Deliver`, `Resync`, `Restart`, `Create`, `Edit`, `Delete`, `ForeignDone`, `ResourceGone` | the environment |

### TeamRoleBinding

The controller in full for all bindings of one TeamRole. It has one worker, so
there is one `pass`, in the steps at which others can interfere: the start with
the list of clusters (`Reconcile`), `cleanupResources` cluster by cluster,
`doReconcile` cluster by cluster, `EnsureDeleted`, and `patchStatus`. The
propagation status is a sequence since its order matters: `cleanupResources`
ranges over the Go slice while `RemovePropagationStatus` shifts it, so entries are
passed over, and the model does the same. `log[b]` is as in Lifecycle. Roles and
bindings in remote clusters are the sets `roles` and `remote`. A call to a cluster
can fail after each partial effect. The history variable `lost` holds the binding and
the cluster when what is in that cluster is not recorded any more: a pass was cut off
before its status patch, or it wrote a list that it had made of an outdated one. A
pass that records the cluster again takes it out.

### Hub, ClusterController, PluginController, PluginPresetController, Offboarding

`Hub` holds the objects in the API server (`server`), the informer cache
(`cache`, used for the kinds in `Lagging`), what is in the remote clusters
(`remote`, `installed`), who can be reached, and the passes that are under way. Two
history variables serve the properties: `late`, the Plugins that were created for a
cluster that was being deleted, and `cutShort`, the clusters whose deletion a pass let
go without waiting because it found KubeConfigValid False.
An object under the lifecycle loop is in one of the stages absent, new, live,
deleting, deleted: Lifecycle shows in detail what moves it along, and here
`...Finalizer` stands for the two updates of the finalizer.

| Action | Code |
|---|---|
| `reconcileCluster`, `ensureOwnerReferences` | the two halves of a bootstrap pass; each reads the Cluster |
| `ClusterEnsureCreated`, `ClusterEnsureCreatedFails` | `EnsureCreated` of the remote cluster controller, with `setConditions` |
| `deletePlugins`, `deleteClusterRoleBindingInRemoteCluster` | `EnsureDeleted` up to and after the wait for Plugins; a cluster that refuses the call as unauthorized or forbidden counts as cleaned up |
| `ensureHelmRelease` | the Plugin controller, creating |
| `EnsureFluxSuspended`, `EnsureFluxDeleted` | the two calls by which it deletes the HelmRelease of a Plugin that retains its release; `suspending` has the Plugins between them |
| `Install`, `Uninstall` | Flux, as the Plugin controller relies on it |
| `PresetEnsureCreated`, `isPluginManagedByPreset`, `reconcilePluginPreset`, `PassEnds` | a pass of the PluginPreset controller: lists and cleanup, then per cluster the check and CreateOrUpdate |
| `PresetEnsureDeleted` | its deletion with both policies |
| `CollectSecret`, `CollectPlugin` | the garbage collector |

A pass is split into several actions where it reads again or where what it has
read can be outdated when it writes; a pass of which no part can be overtaken in a
way the properties tell apart is one action. The Secrets here are of type kubeconfig;
ClusterCredentials has OIDC Secrets too.

### CatalogController, PluginDefinitionController, CatalogDelivery

A Catalog, Flux, and the definitions that come out of it. The pass of the Catalog
controller is cut at the read, the cleanup of the inventory, each stage of a source,
the verification and the status patch. The list of an inventory is a sequence, since
`checkAndCleanInventory` ranges over the array it shortens (`Iterations`, `Left`). The
artifact store is modelled with files that are absent, complete or torn by a restart
in the middle of a write. An override is a JSON patch with an index that was computed
from one revision and is applied to another; `replaced` remembers what it hit. `Without`
and `Optionless` are the revisions that lack the definition, which leaves nothing to
patch, or the option, which is an error. `Chartless` versions of a definition have no
chart, and `Mirror` is what there is of a registry mirror: mirroring disabled, charts
that are not OCI, no configuration, none for the registry, or one. The
history variable `unpatched` holds the sources of passes whose status never arrived, until
a stored list has all three kinds of the source again. A pass of
the PluginDefinition controller is one action with the call that fails as a parameter.

### OrganizationController, TeamController, IdentityAccess

The default organization and another one, dex (connectors, clients with their
redirects, clients of service proxies), the Secret of a service proxy with its copy in
the cache, and SCIM. A pass goes through the steps of `EnsureCreated` in their order and
ends at the first that fails; writes to dex are single steps. TeamController is one Team
of that organization with its timer; an entry of the group can be active, inactive or
malformed. SCIM answers page by page: `GetUsers` gets all pages, or fails after some.
The pages of one answer are read at one moment.

### ClusterCredentials, ClusterKubeconfig, ServiceProxy, RemoteAccess

The Secret of a cluster, which users, the bootstrap controller and the Cluster
controller write, with the version in the cache. Time passes in ticks of ten minutes,
the interval of the passes, and only when no pass that could run is waiting; of a token
the ticks it is valid and the ticks it was issued for are kept. A token lives for
`MaxTokenValidity`, that of a new OIDC kubeconfig for `BootstrapValidity` (600 seconds),
and the one that `greenhousectl cluster bootstrap` stores for `CommandValidity` (one hour),
as the user's kubeconfig on a first bootstrap and as the generated one on a later one.
`lag` counts for how long no pass could renew. The service proxy has its lock: a waiting
writer lets no reader in, a request holds it for the whole round trip. A pass of it
reads the Secret before it takes the lock.

### PluginRelease, PluginPresetStatus, PluginRollout

A PluginPreset with its Plugin, a Plugin of a user that takes a value from it, one
definition, one cluster, one mirror. The pass of the Plugin controller is cut after the
HelmRelease is written and before the status is; a patch of labels answers with the
stored object and its status, as the client does. `PluginPresetStatus` has the
predicates of the watches, so that a PluginPreset can be asleep.

### PluginAdmission, Admission

Defaulting and validation as operators on records, and who calls them: users that
create and edit definitions, Plugins and PluginPresets, the PluginPreset controller and
the Plugin controller. One option, of each type, required or not, with or without a
default; an entry has a value, a reference or an expression. Defaulting and validation
each read the definition from the cache (`seenDefs`), which may move on in between.

### Propagation, Ownership

`Apply` on labels declared by name or by prefix and on an annotation, and the way of the
label owned-by: from the PluginPreset to the Plugin, to the decision of the authz webhook
about a user, whose token the dex connector has filled with groups, and about a
ServiceAccount. A decision is three steps, as the code makes three reads. Subjects take
turns with their requests. The record of what was propagated may be lost or unparsable;
`stray` has the keys that were on it. A refresh of a token may fail upstream, and the
connector may leave the upstream groups in it (`KeepUpstreamGroups`).

## 3. Runs

Every run is listed in `PROJECT.json`. Deadlock is checked for Lifecycle, RemoteAccess
and PluginRollout, which never stop. The other specifications bound the edits of users;
when these are used up and everything has converged nothing is left to do, so their runs
have `CHECK_DEADLOCK FALSE`.

| Run | Bounds | Shows |
|---|---|---|
| `lifecycle` | a kind that can be suspended (Plugin, Catalog) and one with finalizers of others; 2 resources, cache up to 2 versions behind, 3 disturbances | no leak, Deleted can be trusted, suspension blocks, deletion completes, the contract is kept |
| `trb_edits` | 1 namespaced binding, 2 clusters, 2 namespaces, reads up to 1 version late, 2 edits, 1 failing call, 1 restart or lost patch | while everything changes in the middle of a pass, a record is lost only by a pass that was cut off or had read an outdated list; all else stays recorded, is taken back, and the finalizer goes last; cleanup converges |
| `trb_shared` | 2 cluster-scoped bindings, 1 cluster that can be removed, 3 edits, 1 failing call, 1 restart or lost patch | the shared ClusterRole stays while it is needed; deletion completes over a restart |
| `offboard` | 1 cluster, 1 Plugin of a user and 1 of a PluginPreset, both policies, 4 edits, 1 outage or failing call, 1 restart; Clusters and PluginPresets outdated | a HelmRelease goes with its Plugin and is suspended first where it is retained; access is kept until Flux is done, what is retained stays |
| `offboard_outage` | 1 cluster, 4 edits, 1 outage or failing call; Clusters and Plugins outdated | offboarding completes; where the cluster stays the PluginPreset converges |
| `catalog_delivery` | 1 source with an overridden option that moves, 3 revisions, the second without a chart, 2 edits, 1 mishap | inventory, orphans, overrides, suspension, recovery of Catalog and definition |
| `identity_access` | 2 organizations, 1 Team, 1 user, 2 edits, 1 mishap | dex, Secret and Plugin agree; members and access follow |
| `remote_access` | tokens of 3 ticks renewed at 2, first OIDC token and token of the command line 1 tick; 1 service, 1 request, 1 edit, 1 mishap | tokens outlive, access recovers, status, kubeconfig and proxy follow, requests are answered |
| `plugin_rollout` | 2 Plugins, 2 versions, 1 edit, 1 mishap | releases, statuses and trackers follow, the PluginPreset sleeps only when it may |
| `admission` | 1 definition of each kind with any option, 3 edits | what was let in is let in again, values fit, releases stay, defaults follow |
| `ownership` | 2 Teams, 2 edits, 1 fault | declared labels and access follow, ServiceAccounts keep their Team |
| `propagation_idempotent` | 1 Team, 2 edits | expected to fail: `Apply` is not idempotent for an annotation with the empty value (section 6) |

The compositions name their parts and check conjunctions of them, one per idea:

| Property | Parts |
|---|---|
| `HubSafe` | `ReleaseFollowsPlugin` |
| `DeliverySafe` | `Tracked`, `OverridesHitTheirOption`, `ChartsAreMirrored` |
| `InventoryObeyed` | `OrphansGone`, `AllSuspended` |
| `DexSafe` | `LeavesDex`, `ProxyHasClient` |
| `OrganizationsSettle` | `SecretsAgree`, `RedirectsFollow`, `ConditionsSettle`, `OrgDeletionCompletes` |
| `TeamFollows` | `MembersFollow`, `OutageKeepsMembers`, `AccessFollowsLabel` |
| `CredentialsSafe` | `TokenOutlives` |
| `DerivedFollows` | `StatusFollows`, `KubeconfigFollows`, `TableFollows` |
| `RolloutSafe` | `ImagesThere`, `PresetAsleep` |
| `PluginSettles` | `ReleaseFollows`, `PluginStatusFollows`, `TrackersComplete` |
| `PresetSettles` | `PresetFollows`, `PresetDeletionCompletes` |
| `StoredIsAdmissible` | `AdmittedAgain`, `ValuesFit` |
| `OwnershipSafe` | `ServiceAccountKeepsTeam` |
| `PropagationFollows` | `DeclaredFollows`, `ForeignKept` |
| `OwnershipFollows` | `AccessFollows`, `OwnerTold`, `NoWarningNoSurprise` |

The invariants among them contain the type invariant of their module.

Why the bounds are enough to be interesting: two edits suffice to create and
delete an object, a third one re-creates it or changes it in the middle of a pass;
a cache two versions behind lets a pass miss both a finalizer and a deletion; one
failure at any of the places where one can happen, or one restart, is met in
combination with all of these; the second cluster, binding or namespace is the one
that is passed over, shares the role or is left behind. Clusters and Plugins of
different clusters do not influence each other in Offboarding except through the
order of the PluginPreset's pass, so one cluster is used there. The later compositions
start from a set-up that exists, or from each of several, so that one or two edits reach
what takes five from nothing. One source suffices for the Catalog, as the names of the
objects and the inventory keep sources apart; three kinds of objects are what its pass
passes over. Four revisions of which one lacks the overridden option, and five of which
another lacks the definition (with one edit), have been checked as well; they take close
to five minutes and are no runs of their own. A mishap is a failing call, a lost patch, a restart or an object that fails
for a while; in the rollout the scenario with a value taken from another Plugin has only
the edits that the reference can notice. A resync of the caches is taken only when
nothing else is to be done, or when a pass would change something: at any other moment
it repeats a pass that is queued anyway.

## 4. Fairness

- `Deliver`: watches deliver every change in the end.
- `Resync`, and repeated passes in Offboarding: the cache is resynchronised every
  ten hours, a Cluster and its Secret are requeued every ten minutes, a failed pass
  is requeued with back-off. Hence a pass that can do something is begun in the end.
- `Reconcile(b)` of TeamRoleBinding is strongly fair: the work queue is first in,
  first out, so a key that is in it again and again is taken.
- `Step`: a pass goes on. All calls have timeouts.
- `ClusterReady`, `Recover`: a cluster does not stay unreachable for ever. Without
  it deletion waits, by design.
- `ResourceGone`, `Install`, `Uninstall`, `Collect...`: Kubernetes and Flux do
  their work. `ForeignDone`: others remove their finalizers.

- Compositions on Mishaps: the controllers take what is queued, retries and resyncs
  come, caches catch up, Flux works, a stopped operator is started again. Weak fairness
  of each controller as a whole is enough, as what is queued stays queued.
- RemoteAccess: time passes once nothing that is due is left, so that ticks are the
  slowest thing there is. `Serve(r)` is strongly fair: the lock lets those who waited for
  a writer in before the next writer, and services behind the proxy answer.
- Admission: only the PluginPreset controller has to do something.
- Ownership: subjects keep asking and tokens are refreshed, otherwise an answer could
  not follow.

Users, restarts, outages, mishaps and failing calls are not fair: they may happen or
not.

## 5. Proofs

Each theorem module extends the specification it is about. Nothing in a proof depends
on the values that a run gives to the constants: the theorems hold for every set of
objects, every number of edits, failures and restarts, and every lag, except where a
hypothesis says otherwise. The named assumptions on constants (`LifecycleAssumption`,
`BindingAssumption`, `HubAssumption`, `CatalogAssumption`, `DefinitionAssumption`,
`DeliveryAssumption`, `OrgsAssumption`, `TeamAssumption`, `TokenAssumption`,
`OwnershipAssumption`, `MishapsAssumption`, `EditsAssumption`,
`MaxChangesAssumption`) say that bounds are natural numbers, that clusters and organizations are finitely many, that sets which
single out some objects are subsets, and that names do not collide with markers of the
model; two of them say more. `DeliveryAssumption` has a chart version for each revision
of a source. `TokenAssumption` says that the tokens of a new OIDC kubeconfig and of the
command line are valid for no longer than others. TLC evaluates all of them in the runs.

All invariant theorems have the same form: an inductive invariant that implies the
property, a lemma that it holds initially, and a lemma that each action preserves it,
with one step per action and below it one per part that the action can disturb. TLC
finds every inductive invariant true on the instance of its run.

### LifecycleProofs

| Theorem | Statement | Hypothesis |
|---|---|---|
| `TypeCorrect` | `Spec => []TypeOK` | |
| `NothingLeaks` | `Spec => []NoLeak` | `OneOwner` |
| `DeletedIsTrustworthy` | `Spec => []DeletedMeansClean` | `OneOwner` |
| `LoopRefinesContract` | `Spec => ImplementsManagedResource` | `OneOwner` |
| `SuspensionHolds` | `Spec => SuspensionBlocks` | |

`OneOwner` says that no kind both can be suspended and carries finalizers of others.
Without it `DeletedMeansClean` is false: with
`Kinds = {{"suspendable", "foreign"}}` TLC finds a status patch of a suspended, deleted object that reaches the object re-created under its name, whose
cleanup is then skipped.

`NoLeak` is not inductive: that the finalizer is not removed too early depends on
the Deleted condition, which depends on which version a pass had read when it
decided, while that version may be several behind. The inductive invariant `IInv`
therefore speaks about all versions between cache and server and about the
snapshot of the pass under way:

- `FreshRead`: if the resourceVersion is current, the snapshot is the server's
  version, so that updates of the finalizer act on what they have read;
- `InBranch`, `AllSane`: the pass is in the branch its snapshot asked for, versions
  are ones the API server can hold;
- `DeletionIsFinal`: no version with the finalizer and without deletion timestamp
  follows one with the timestamp, so a pass that reads a deletion acts on the
  current life of the object;
- `CleanupReadsDeletion`: no version with the Deleted condition follows one that
  asks for EnsureCreated, so nothing is created after the cleanup is recorded;
- `WorkIsCovered`: while a pass works or a version asks for work the server's
  version has the finalizer;
- `CleanWhenDeleted`: the Deleted condition, in any version, in the snapshot or
  about to be written, means that `ext` is empty.

`InvStep` shows that each action preserves each part; writing a version is the
common case and is the lemma `Extend`. `StepRefines` maps each step to a step of
ManagedResource or a stutter. `SuspensionHolds` needs only that the pass is in the
branch its snapshot asked for, so it also covers kinds with finalizers of others.

### TeamRoleBindingProofs

| Theorem | Statement | Hypothesis |
|---|---|---|
| `BindingTypeCorrect` | `Spec => []TypeOK` | |
| `RoleOutlivesBindings` | `Spec => []NoDanglingBindings` | `RoleNotShared` |
| `RecordIsComplete` | `Spec => []NoOrphans` | |
| `BindingsKeepContract` | `Spec => ImplementsManagedResource` | |

`RoleNotShared`: a namespaced binding is the only binding of its role, since
`isRoleReferenced` does not see RoleBindings (section 6); without it TLC shows the
behaviour described there. There is no hypothesis on the lag of the cache, on restarts or
on failing patches. What they do is in the statements: both except what is in `lost`, and
`NoOrphans` says on its part that nothing gets into `lost` as long as reads are up to
date and no pass is cut off.

`RoleOutlivesBindings` adds `ScopeKept`, that a binding without namespaces is a
ClusterRoleBinding in every cluster. The record is complete only between passes, so
`RecordInv` counts the record of the pass under way in place of the stored one (`Known`):
`Covered` says that all in the clusters is known in this sense. `NothingLost` needs
`ReadIsCurrent`, that with a cache that is up to date a pass has read the entries that
the server has. With a cache that is behind a pass may act on a stage that the binding
has left: `Ordered` and `PassOrder` say that among the versions between the cache and
the server, and after the one a pass has read, none goes back to an earlier stage of the
same life; so a pass that still creates has the finalizer on its side, and only a pass
that has seen the deletion can let the binding go. `NoEntries`, that a binding without
the finalizer has no entries, `NothingInGone` and `InPhase` complete the invariant. That
the cleanup passes over entries of the list it shortens removes nothing unrecorded, which
is all the invariant needs; that the entries passed over are removed in the end is
liveness and left to TLC. The contract follows from the invariant step by step.

### OffboardingProofs

| Theorem | Statement | Hypothesis |
|---|---|---|
| `HubIsSafe` | `Spec => []HubSafe` | `Fresh({"plugin", "release"})` |
| `RetainedReleasesStay` | `Spec => RetainedReleaseStays` | `Fresh({"plugin", "release"})` |
| `RetainKeeps` | `Spec => RetainKeepsPlugins` | `Fresh({"plugin"})` |
| `PluginsWait` | `Spec => []PluginWaitsForUninstall` | `Orderly` |
| `OffboardingIsClean` | `Spec => []OffboardingUninstalls` | `Orderly` |

`Fresh(kinds)`: these kinds are read up to date. `Orderly`: one Cluster of each name,
and Plugins and HelmReleases read up to date. Clusters, Secrets and PluginPresets may be
outdated, and outages, failing calls and restarts happen at any time and any number of
times. Both parts are needed: an outdated HelmRelease or Plugin lets a retained release
be uninstalled or a Plugin go without waiting, and a second Cluster of the same name can
lose its Secret to the garbage collector that acts for the first one (section 6). These
are behaviours of the code, not of the proof. So is the one way past the two properties
that an outage opens, which they name: a Cluster that a pass of its deletion finds with
KubeConfigValid False (`cutShort`).

- `ReleaseFollowsPlugin`: a HelmRelease exists only while its Plugin has the finalizer,
  is deleted only while the Plugin is, and is suspended first if it is retained: a pass
  that is between the two calls (`suspending`) finds it suspended still.
- `PolicyFixed`, `NothingOwned`: a retaining PluginPreset that is gone or not yet at
  work owns no Plugin, so that the garbage collector takes none, and no pass can adopt one.
- `UsedOnce`, `AccessKept`: the Secret goes only after its Cluster, and one that the
  cache still has was there for the one Cluster of its name.
- `PluginsInTime`: a Plugin that was there when the deletion of its Cluster passed the
  wait keeps that Cluster and its access, unless the deletion was cut short; `closing`,
  the passes that found no Plugin, concern only Clusters without one. Outages need no
  place in the invariant: all that an outage does to the objects is the condition that
  `cutShort` accounts for.

### CatalogProofs, IdentityProofs, RemoteAccessProofs, RolloutProofs, WebhookProofs

| Theorem | Statement | Strengthening |
|---|---|---|
| `DeliveryIsSafe` | `Spec => []DeliverySafe` | `PassCovers`, `SyncedIsMirrored` |
| `DexIsSafe` | `Spec => []DexSafe` | `PassIsCurrent` |
| `OutagesKeepMembers` | `Spec => OutageKeepsMembers` | |
| `CredentialsAreSafe` | `Spec => []CredentialsSafe` | `AgeIsLag`, `NotDue`, `SeenIsCurrent`, `PassNeedsOperator` |
| `RolloutIsSafe` | `Spec => []RolloutSafe` | `ImagesRecorded`, `CachedExists`, `AwakeForDeletion`, `AwakeForList` |
| `PropagationIsExact`, `PropagationSettles` | what `Apply` does to labels, and does once | |
| `OwnershipIsSafe` | `Spec => []OwnershipSafe` | `OneTeam`, `EndsOK`, `ClaimsOK`, `TeamsOK` |
| `OwnLabelsStay` | `Spec => ForeignKept` | `EndsOK` |
| `AdmissionIsSafe` | `AdmissionSpec => []StoredIsAdmissible` | `FormsOK`, `Fits` |
| `NamedReleaseStays` | `AdmissionSpec => ReleaseStays` | `InPlace` |

They have no hypotheses beyond the assumptions on constants.

- *Delivery.* A pass of the Catalog controller holds an inventory of its own until its
  status patch: `PassCovers` says that it misses nothing of the sources the pass does not
  work on, and starts from a condition that lets `verifyStatus` record the others.
  `SyncedIsMirrored` says the same of the version that a definition's status names as
  replicated. The attempt to prove `Tracked` found that the history of lost status
  patches was forgotten too early in the model, which TLC shows only with three or four
  edits; it is now kept until a stored list has all three kinds of the source.
- *Dex.* The pass that cleans up has read the settings the organization leaves with, and
  only this pass lets go of the organization.
- *Credentials.* What is left of a token and the time for which nobody could renew it
  are together no less than the time ahead of which it is renewed, or than its whole life
  if it was issued for less (`Due`, `AgeIsLag`). The token of the command line is of this
  kind: it expires after an hour during which the operator is away. The difficulty is a
  pass that decides on an outdated Secret: `NotDue` says that when such a pass finds
  nothing to renew, the token that has replaced the one it sees is as it was issued, or
  not due either.
- *Rollout.* What a pass is about to write counts as recorded (`ImagesRecorded`), and a
  PluginPreset without request, retry or pass has listed its Plugin as it is
  (`AwakeForList`), or waits for the end of one that exists (`AwakeForDeletion`).
- *Ownership.* A ServiceAccount that was seen with a Team keeps it, hence what a request
  under way and all past grants name is the Team it has now (`OneTeam`).
- *Admission.* `StoredIsAdmissible` speaks of a Plugin whose definition is what it was
  when the Plugin was admitted, which a definition that changes and changes back makes
  true again; so it is not inductive. `Fits` says of every stored Plugin, whatever has
  become of its definition, that it has all the webhooks ask for under the definition as
  of its admission (`asOf`), the one that both webhooks found in the cache. What makes it sufficient are three facts about the operators:
  the defaulting of the option is idempotent (`MergeTwice`), what passes the validation
  after the defaulting fits (`AdmittedFits`), and what fits passes both again unchanged,
  with and without the status in the request (`FitsIsAdmitted`). All ways of writing a
  Plugin then go through one lemma (`PluginWritten`). `InPlace` ties a release that the
  Plugin named to the fields of the Plugin that may not change. What is general here is
  the number of edits; options, values and requests are the ones the module lists, with
  one option and one definition of each kind.

### Only model-checked

- Liveness, which this prover does not handle: `DeletionCompletes`,
  `OffboardingCompletes`, `InventoryObeyed`,
  `RequestsAnswered`, and the properties that are named for something that follows,
  settles, recovers or converges. Of `TeamFollows` and `PropagationFollows` the parts
  `OutageKeepsMembers` and `ForeignKept` are proved.
- `DefaultsFollow` of Admission is of this kind too. Every invariant and every action
  property that a run checks is stated by a theorem.

## 6. Where code and documentation disagree

Found while modelling. The models do as the code does; where a property would say
what a comment or a document says, it names the exception.

Behaviour that several steps or several actors are needed for:

- `combineClusterLists` removes the status entry of a cluster that is gone under the
  wrong name (`teamrolebinding_controller.go:311`; the comments at :218 and :310 say
  otherwise). A TeamRoleBinding that was propagated to such a cluster is never
  deleted: the exception of `DeletionCompletes`.
- `isRoleReferenced` (:782) lists Roles and ClusterRoleBindings and never
  RoleBindings, so the ClusterRole is removed while RoleBindings of a namespaced
  TeamRoleBinding refer to it (comment at :408).
- A KubeConfigValid condition from before the deletion counts
  (`cluster_controller.go:282`): a Cluster that could not be reached once is deleted
  without uninstalling anything, although
  `docs/user-guides/cluster/offboarding.md:40` says that Plugins go first.
- A bootstrap pass makes a new Cluster of the Secret of the one that was just deleted,
  if the Secret has not been collected yet (`bootstrap_controller.go:184`; comment at
  :199).
- A definition whose mirror configuration could not be read once stays as it is until
  something else changes it (`plugindefinition/utils.go:265-289`): `StuckReplication`
  in `DefinitionRecovers`.
- `fetchReleaseStatus` stores the new status before the old checksum is taken from it
  (`plugin_controller_flux.go:443`, :447-449), so trackers are not told that a
  release has changed (comment at :594-596).
- A definition that gains a required option has the later updates of its Plugins
  refused, the removal of a finalizer among them.
- The release name and namespace of a Plugin may change if it was created while its
  definition had no chart.
- A PluginPreset propagates an annotation with an empty value in the first pass and
  deletes it in the second (`propagation.go:274`), though the comment at :47-50 calls
  `Apply` idempotent and says that it removes keys which were removed in the source or
  are no longer declared. The run `propagation_idempotent` shows it; `DeclaredFollows`
  leaves the empty annotation out. Labels with the empty value stay.

Single decisions:

- An option with a default cannot be set by `valueFrom` or an expression: the default
  stands first and `setOrAppendNameValue` copies no more than `Value` over it
  (`helm/values.go:163`; `docs/reference/components/plugin.md:48`).
- A secret option whose value is a `valueFrom.ref` is read as if it had a Secret
  reference (`plugin_webhook.go:322`).
- A secret option with the default `""` is admitted in a definition, and its Plugins
  are refused.
- `validatePluginForCluster` is called when a Plugin is created and not when it is
  updated; an update of a PluginPreset checks neither definition, nor selector, nor
  release name. `validatePluginOptionValuesForPreset` and `CopyLabels` have no
  caller but tests.
- Standalone Plugins keep the old default that is stored in them when a definition
  changes; `plugin.md:61` and `plugindefinition.md:89` describe an annotation that
  makes them take the new one.
- `cleanupPlugins` ignores the deletion policy, while `pluginpreset.md:90` says that
  Plugins of clusters that stop matching are retained.
- `isPluginDefinitionNotFoundError` (`pluginpreset_controller.go:515-521`) is never
  true. `status.helmChart` is set whether or not the chart was applied.
- A pass over an OIDC Secret requests a second token where a comment says that it
  exits early. The flag for the validity of bearer tokens
  (`cmd/greenhouse/main.go:71`) has no effect. A second bootstrap by greenhousectl is
  refused by the Secret webhook.
- The reason of a failing ClusterKubeconfig is not updated when nothing but the reason
  changes.

Some properties hold only within the assumptions of their runs; the model shows
the same behaviour as the code outside of them:

- `NoOrphans` and `ImplementsManagedResource` of TeamRoleBinding except what a binding
  has in a cluster after the record of it was lost. A pass that reads an outdated version
  overwrites the propagation status, since the patch has no precondition, and bindings
  are left in a cluster; after a restart between the creation of a binding and the status
  patch, a failing cleanup counts as success because the cluster is not recorded.
  `Converges` is about the time when nothing is lost, too.
- `PluginWaitsForUninstall` needs HelmReleases to be read up to date: a Plugin that
  is deleted before its HelmRelease is in the cache does not wait for Flux.
- `RetainKeepsPlugins` needs Plugins to be read up to date, and leaves out clusters
  that stop matching.
- `OffboardingUninstalls` and `PluginWaitsForUninstall` except the Clusters whose
  deletion the condition above has cut short (`cutShort`).
- `LeavesDex` is about organizations that have OIDC settings to the end: without them
  the connector is not looked for.
- `CatalogRecovers` leaves out a `TornManifest` and an override of an option that the
  current revision lacks (`NoSuchOption`), and `AccessRecovers` a cluster that Greenhouse
  is `LockedOut` of, where only a user can help.
- `ConditionsSettle` leaves out the conditions about dex and the service proxy of an
  organization without OIDC settings: what was False when they were removed stays False.
- `DeclaredFollows` leaves out the keys that were on a record of the propagation when it
  was lost or could not be parsed (`stray`): nothing takes them back.

## 7. What is not modelled

- Cluster: the permission and version fields of the status; the offboarding of a cluster
  with an OIDC Secret, where nothing is cleaned up in the remote cluster
  (`cluster_controller.go:299-304`). Plugin: late Plugins
  (below), dependencies between Plugins beyond their admission, exposed services
  beyond the label. Values: references by selector and the CEL expression on the
  object they refer to.
- TeamRoleBinding: aggregation of ClusterRoles and creation of namespaces.
  Organization: the content of Roles (their names and order are modelled), feature gates.
  Team: a group that changes between two pages of one SCIM answer. PluginDefinition: sharing of a
  HelmRepository by several definitions.
- Webhooks of Cluster, Organization and TeamRole: they look at the request alone.
- Rendering of charts, downloads, HTTP to SCIM, dex and registries, parsing of image
  references, the CEL library, the CORS and ID proxies, the rest of greenhousectl:
  input and output, or other people's code.
- Generated code (deep copies), types without behaviour, test support.
- Metrics, events, logging, wording of conditions.
- Several instances of the operator: leader election lets one work. A deposed
  leader that has not noticed is not modelled.
- A Plugin that is created while its Cluster is being deleted: the webhook admits
  it, nothing waits for it, and the properties on uninstallation exclude it (`late`).

## 8. Plan

1. *Done:* the lifecycle loop with its contract and proofs; TeamRoleBinding; clusters,
   Plugins and PluginPresets composed; credentials of clusters over time; release
   status, trackers and option values of Plugins; Catalog and PluginDefinitions;
   Organization, Team, dex, ClusterKubeconfig; webhooks, authorization, service
   proxy; propagation.
2. *Done:* proofs of the safety invariants of all specifications, of the action
   properties that are not parts of liveness properties, and of both refinements;
   Offboarding with outages.
3. Proofs with weaker hypotheses: Admission for any set of options and values.
4. Larger instances: two clusters in `offboard_outage`, two Catalogs that share a
   source.
