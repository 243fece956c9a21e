--------------------------- MODULE TeamRoleBinding ---------------------------
(***************************************************************************)
(* The TeamRoleBinding controller (internal/controller/teamrbac): it       *)
(* replicates one TeamRole as a ClusterRole, and the TeamRoleBindings that *)
(* refer to it as ClusterRoleBindings or RoleBindings, to the clusters     *)
(* that a binding selects by name or by labels, and takes them back when a *)
(* cluster or a namespace is no longer selected or the binding is deleted. *)
(*                                                                         *)
(* What it has put where is recorded in one place only, the list           *)
(* .status.propagationStatus of the TeamRoleBinding, written by a merge    *)
(* patch at the end of a pass.  The list is a Go slice and its order       *)
(* matters: cleanupResources removes from it while it ranges over it.      *)
(*                                                                         *)
(* The controller has one worker: one pass at a time for all bindings.     *)
(* Users, clusters and the TeamRole change between any two steps of it.    *)
(***************************************************************************)
EXTENDS Naturals, Sequences, FiniteSets, SequencesExt

CONSTANTS
    Bindings,       \* the TeamRoleBindings, all of the same TeamRole
    Clusters,       \* the clusters of the organization
    Namespaces,     \* namespaces in those clusters
    Namespaced,     \* the bindings with .spec.namespaces (it cannot be emptied)
    Selectors,      \* the selectors users choose: "labels" or a cluster's name
    Removable,      \* the clusters that may be removed from the organization
    MaxLag,         \* how many versions behind a pass may read a binding
    MaxEdits,       \* creations and changes of specs, labels, references
    MaxFaults,      \* calls to a ready cluster that fail
    MaxCrashes      \* restarts of the operator and failing status patches

Everywhere == "*"   \* stands for the namespace of a ClusterRoleBinding

ASSUME BindingAssumption ==
    /\ Namespaced \subseteq Bindings
    /\ Namespaced # {} => Namespaces # {}
    /\ Selectors \subseteq Clusters \cup {"labels"} /\ Selectors # {}
    /\ IsFiniteSet(Clusters)
    /\ Removable \subseteq Clusters
    /\ Everywhere \notin Namespaces /\ "labels" \notin Clusters
    /\ {MaxLag, MaxEdits, MaxFaults, MaxCrashes} \subseteq Nat

VARIABLES
    log,        \* log[b]: versions of binding b, from the one in the cache (the
                \* first) to the one in the API server (the last)
    health,     \* health[c]: is the Cluster ready, not ready or removed
    labelled,   \* the clusters whose labels match the label selector
    refs,       \* which of TeamRole and Teams exist
    roles,      \* the clusters that have the ClusterRole
    remote,     \* the (Cluster)RoleBindings in the clusters
    queue,      \* the bindings in the work queue
    pass,       \* the pass of the worker
    lost,       \* history: <<b, c>> when the record that b has of c was lost
    edits, faults, crashes

vars == <<log, health, labelled, refs, roles, remote, queue, pass, lost, edits, faults, crashes>>
env  == <<health, labelled, refs>>

\* A version of a binding.  Stages: "new" without the cleanup finalizer, "live"
\* with it, "deleting" with the deletion timestamp, "deleted" with the Deleted
\* condition as well.
Stages   == {"absent", "new", "live", "deleting", "deleted"}
Versions == [stage : Stages, sel : Clusters \cup {"labels"}, ns : SUBSET Namespaces,
             status : Seq(Clusters)]

\* One entry per cluster; .spec.namespaces is set for ever or not at all.
VersionsOf(b) == {v \in Versions : IsInjective(v.status) /\ (v.ns = {} <=> b \notin Namespaced)}

Remote == [trb : Bindings, cluster : Clusters, ns : Namespaces \cup {Everywhere}]

\* A pass: what it has read, the propagation status as it goes on, the clusters
\* whose entry it has set, the list of clusters and those still to be visited.
Passes == [pc : {"cleanupResources", "doReconcile", "EnsureDeleted", "patchStatus"},
           trb : Bindings, snap : Versions, status : Seq(Clusters),
           touched : SUBSET Clusters, list : SUBSET Clusters, todo : SUBSET Clusters,
           i : Nat \ {0}, result : {"Success", "Pending", "Failed"}]

Idle == [pc |-> "idle"]

Server(b) == Last(log[b])
Recorded(v) == Range(v.status)

\* The namespaces in which binding v is bound in a cluster: isClusterScoped.
Targets(v) == IF v.ns = {} THEN {Everywhere} ELSE v.ns

\* rbacClusterRoleBinding and rbacRoleBinding: what v wants in some clusters.
rbacBindings(b, v, cs) == [trb : {b}, cluster : cs, ns : Targets(v)]

\* What deleteClusterRoleBinding and deleteAllDeployedRoleBindings delete: the
\* objects with the binding's name, in whatever namespace.
BindingsOn(b, c) == {x \in remote : x.trb = b /\ x.cluster = c}

TypeOK ==
    /\ log \in [Bindings -> Seq(Versions)]
    /\ \A b \in Bindings :
        /\ Len(log[b]) \in 1 .. MaxLag + 2
        /\ log[b] \in Seq(VersionsOf(b))
    /\ health \in [Clusters -> {"ready", "unready", "gone"}]
    /\ labelled \subseteq Clusters
    /\ refs \subseteq {"teamRole", "teams"}
    /\ roles \subseteq Clusters
    /\ remote \subseteq Remote
    /\ queue \subseteq Bindings
    /\ \/ pass = Idle
       \/ pass \in Passes /\ IsInjective(pass.status) /\ pass.snap \in VersionsOf(pass.trb)
    /\ lost \subseteq Bindings \X Clusters
    /\ edits \in 0 .. MaxEdits /\ faults \in 0 .. MaxFaults /\ crashes \in 0 .. MaxCrashes

Absent(b) == [stage |-> "absent", sel |-> CHOOSE s \in Selectors : TRUE,
              ns |-> IF b \in Namespaced THEN Namespaces ELSE {}, status |-> <<>>]

Init ==
    /\ log = [b \in Bindings |-> <<Absent(b)>>]
    /\ health = [c \in Clusters |-> "ready"]
    /\ labelled = Clusters
    /\ refs = {"teamRole", "teams"}
    /\ roles = {} /\ remote = {}
    /\ queue = {} /\ pass = Idle /\ lost = {}
    /\ edits = 0 /\ faults = 0 /\ crashes = 0

-----------------------------------------------------------------------------
(* Users and clusters. *)

Write(b, v) ==
    /\ Len(log[b]) <= MaxLag + 1
    /\ log' = [log EXCEPT ![b] = Append(@, v)]

ChangeSomething == edits < MaxEdits /\ edits' = edits + 1

Existing == {b \in Bindings : log[b][1].stage # "absent"}

Create(b) ==
    /\ Server(b).stage = "absent"
    /\ ChangeSomething
    /\ \E s \in Selectors : Write(b, [Absent(b) EXCEPT !.stage = "new", !.sel = s])
    /\ UNCHANGED <<env, roles, remote, queue, pass, lost, faults, crashes>>

\* ValidateUpdateRoleBinding refuses to empty .spec.namespaces or to fill it.
Edit(b) ==
    /\ Server(b).stage # "absent"
    /\ ChangeSomething
    /\ \/ \E s \in Selectors : Write(b, [Server(b) EXCEPT !.sel = s])
       \/ \E n \in SUBSET Namespaces :
            /\ n = {} <=> b \notin Namespaced
            /\ Write(b, [Server(b) EXCEPT !.ns = n])
    /\ UNCHANGED <<env, roles, remote, queue, pass, lost, faults, crashes>>

Delete(b) ==
    /\ Server(b).stage \in {"new", "live"}
    /\ Write(b, IF Server(b).stage = "new" THEN Absent(b)
                ELSE [Server(b) EXCEPT !.stage = "deleting"])
    /\ UNCHANGED <<env, roles, remote, queue, pass, lost, edits, faults, crashes>>

\* LabelChangedPredicate: every binding of the namespace is enqueued.
LabelsChange ==
    /\ ChangeSomething
    /\ \E c \in Clusters : labelled' = (labelled \ {c}) \cup ({c} \ labelled)
    /\ queue' = queue \cup Existing
    /\ UNCHANGED <<log, health, refs, roles, remote, pass, lost, faults, crashes>>

\* TeamRole or Teams come or go; enqueueTeamRoleBindingsFor.
enqueueTeamRoleBindingsFor ==
    /\ ChangeSomething
    /\ \E r \in {"teamRole", "teams"} : refs' = (refs \ {r}) \cup ({r} \ refs)
    /\ queue' = queue \cup Existing
    /\ UNCHANGED <<log, health, labelled, roles, remote, pass, lost, faults, crashes>>

\* PredicateClusterReadyStatusChange lets only the way up through.
ClusterUnready(c) ==
    /\ health[c] = "ready"
    /\ ChangeSomething
    /\ health' = [health EXCEPT ![c] = "unready"]
    /\ UNCHANGED <<log, labelled, refs, roles, remote, queue, pass, lost, faults, crashes>>

ClusterReady(c) ==
    /\ health[c] = "unready"
    /\ health' = [health EXCEPT ![c] = "ready"]
    /\ queue' = queue \cup Existing
    /\ UNCHANGED <<log, labelled, refs, roles, remote, pass, lost, edits, faults, crashes>>

\* A removed cluster does not come back, and what is in it is nobody's business.
ClusterGone(c) ==
    /\ c \in Removable /\ health[c] # "gone"
    /\ health' = [health EXCEPT ![c] = "gone"]
    /\ labelled' = labelled \ {c}
    /\ roles' = roles \ {c}
    /\ remote' = {x \in remote : x.cluster # c}
    /\ queue' = queue \cup Existing
    /\ UNCHANGED <<log, refs, pass, lost, edits, faults, crashes>>

-----------------------------------------------------------------------------
(* Cache, queue and process. *)

Deliver(b) ==
    /\ Len(log[b]) > 1
    /\ log' = [log EXCEPT ![b] = Tail(@)]
    /\ queue' = queue \cup {b}
    /\ UNCHANGED <<env, roles, remote, pass, lost, edits, faults, crashes>>

\* The periodic resync of the informers enqueues every binding.
Resync ==
    /\ queue' = queue \cup Existing
    /\ queue' # queue
    /\ UNCHANGED <<log, env, roles, remote, pass, lost, edits, faults, crashes>>

\* What a pass has entered in its list and has not written when it is cut off.
CutShort ==
    IF pass = Idle THEN {}
    ELSE {pass.trb} \X (Range(pass.status) \ Recorded(Server(pass.trb)))

Restart ==
    /\ crashes < MaxCrashes
    /\ crashes' = crashes + 1
    /\ log' = [b \in Bindings |-> <<Server(b)>>]
    /\ queue' = {b \in Bindings : Server(b).stage # "absent"}
    /\ pass' = Idle
    /\ lost' = lost \cup CutShort
    /\ UNCHANGED <<env, roles, remote, edits, faults>>

-----------------------------------------------------------------------------
(* The propagation status. *)

\* Mutants: an entry is appended although there is one; none is removed.
SetPropagationStatusTwice(status, c) == Append(status, c)

RemovePropagationStatusOfNone(status, c) == status

SetPropagationStatus(status, c) == IF c \in Range(status) THEN status ELSE Append(status, c)

\* There is at most one entry of a cluster (TypeOK).
RemovePropagationStatus(status, c) ==
    IF c \in Range(status) THEN RemoveAt(status, CHOOSE i \in DOMAIN status : status[i] = c)
    ELSE status

\* SetPropagationStatus for every cluster of a set, in some order.
SetAll(status, cs) == status \o SetToSeq(cs \ Range(status))

-----------------------------------------------------------------------------
(* A pass. *)

\* By name: the cluster if it is there.  By labels: the clusters that match and
\* are ready; the others get an entry in the propagation status.
listClusters(v) ==
    IF v.sel # "labels" THEN {c \in {v.sel} : health[c] # "gone"}
    ELSE {c \in labelled : health[c] = "ready"}

NotReadyListed(v) ==
    IF v.sel # "labels" THEN {} ELSE {c \in labelled : health[c] = "unready"}

\* combineClusterLists adds the recorded clusters that still exist.  For one that
\* has been removed it drops the entry with the empty name, that is, no entry.
combineClusterLists(list, status) ==
    list \cup {c \in Range(status) : health[c] # "gone"}

Begin(b, pc, v, touched, list, todo) ==
    pass' = [pc |-> pc, trb |-> b, snap |-> v, status |-> SetAll(v.status, touched),
             touched |-> touched, list |-> list, todo |-> todo, i |-> 1, result |-> "Success"]

\* Ends the controller's part of the pass; "Failed" comes with an error.
Decide(result) == pass' = [pass EXCEPT !.pc = "patchStatus", !.result = result]

\* The worker takes a binding from the queue and reads it from the cache.
Reconcile(b) ==
    LET v == log[b][1]
        listed == listClusters(v)
        notReady == NotReadyListed(v)
    IN  /\ pass.pc = "idle"
        /\ b \in queue
        /\ Len(log[b]) <= MaxLag + 1
        /\ queue' = IF v.stage \in {"new", "deleted"} /\ Len(log[b]) > 1
                    THEN queue ELSE queue \ {b}
        /\ \/ v.stage = "absent" /\ UNCHANGED <<log, pass>>
           \* ensureFinalizer and removeFinalizer: refused with a conflict when
           \* the version is not the newest, and retried.
           \/ /\ v.stage \in {"new", "deleted"}
              /\ IF Len(log[b]) > 1 THEN UNCHANGED log
                 ELSE Write(b, IF v.stage = "new" THEN [v EXCEPT !.stage = "live"] ELSE Absent(b))
              /\ UNCHANGED pass
           \* EnsureCreated stops early without the TeamRole.
           \/ /\ v.stage = "live" /\ "teamRole" \notin refs
              /\ Begin(b, "patchStatus", v, {}, {}, {})
              /\ UNCHANGED log
           \/ /\ v.stage = "live" /\ "teamRole" \in refs
              /\ Begin(b, "cleanupResources", v, notReady, listed, {})
              /\ UNCHANGED log
           \/ /\ v.stage = "deleting"
              /\ Begin(b, "EnsureDeleted", v, notReady, listed,
                       combineClusterLists(listed, SetAll(v.status, notReady)))
              /\ UNCHANGED log
        /\ UNCHANGED <<env, roles, remote, lost, edits, faults, crashes>>

\* A call to a cluster may fail if the cluster is not ready, or now and then.  It
\* may work even if the Cluster has just been removed, as its Secret is still
\* there, but what it does then is not followed up.
CallFails(c) ==
    \/ health[c] # "ready" /\ UNCHANGED faults
    \/ health[c] = "ready" /\ faults < MaxFaults /\ faults' = faults + 1

CallWorks == UNCHANGED faults

\* Mutants: the ClusterRole is never found to be referenced; the bindings are not
\* deleted.
isRoleReferencedNever(b, c) == FALSE

cleanupClusterKeepsBindings(b, c) == CallWorks /\ UNCHANGED <<remote, roles>>

\* isRoleReferenced looks for ClusterRoleBindings with the label of the role;
\* RoleBindings do not carry it.
isRoleReferenced(b, c) ==
    \E x \in remote : x.cluster = c /\ x.trb # b /\ x.ns = Everywhere

\* cleanupCluster: the bindings first, then the ClusterRole if it is not needed.
cleanupCluster(b, c) ==
    /\ CallWorks
    /\ remote' = remote \ BindingsOn(b, c)
    /\ roles' = IF isRoleReferenced(b, c) THEN roles ELSE roles \ {c}

\* Fails after some of the bindings have been removed.
cleanupClusterFails(b, c) ==
    /\ CallFails(c)
    /\ \E gone \in SUBSET BindingsOn(b, c) : remote' = remote \ gone
    /\ UNCHANGED roles

\* EnsureCreated goes on to doReconcile if there is a cluster and a Team.
CleanupDone ==
    IF pass.list # {} /\ "teams" \in refs
    THEN pass' = [pass EXCEPT !.pc = "doReconcile", !.todo = pass.list]
    ELSE Decide("Success")

\* One round of the loop of cleanupResources, for the entry at position i of the
\* list as it is now: an entry that moved down because one before it was removed
\* is passed over, and the positions that became empty are skipped.
cleanupResources ==
    LET b == pass.trb
        c == pass.status[pass.i]
    IN  /\ pass.pc = "cleanupResources"
        /\ \/ /\ pass.i > Len(pass.status)
              /\ CleanupDone
              /\ UNCHANGED <<roles, remote, faults>>
           \/ /\ pass.i <= Len(pass.status) /\ c \notin pass.list /\ health[c] = "gone"
              /\ pass' = [pass EXCEPT !.status = RemovePropagationStatus(@, c), !.i = @ + 1]
              /\ UNCHANGED <<roles, remote, faults>>
           \/ /\ pass.i <= Len(pass.status) /\ c \notin pass.list /\ health[c] = "unready"
              /\ pass' = [pass EXCEPT !.i = @ + 1, !.touched = @ \cup {c}]
              /\ UNCHANGED <<roles, remote, faults>>
           \/ /\ pass.i <= Len(pass.status) /\ c \notin pass.list /\ health[c] = "ready"
              /\ \/ /\ cleanupCluster(b, c)
                    /\ pass' = [pass EXCEPT !.status = RemovePropagationStatus(@, c), !.i = @ + 1]
                 \/ cleanupClusterFails(b, c) /\ Decide("Failed")
           \* cleanupClusterNamespaces
           \/ /\ pass.i <= Len(pass.status) /\ c \in pass.list
              /\ \/ /\ CallWorks /\ health[c] # "gone"
                    /\ remote' = {x \in remote : x \in BindingsOn(b, c) => x.ns \in Targets(pass.snap)}
                    /\ pass' = [pass EXCEPT !.i = @ + 1]
                 \/ /\ CallFails(c) /\ (pass.snap.ns # {} \/ health[c] = "gone")
                    /\ \E gone \in SUBSET {x \in BindingsOn(b, c) : x.ns \notin Targets(pass.snap)} :
                        remote' = remote \ gone
                    /\ Decide("Failed")
              /\ UNCHANGED roles
        /\ UNCHANGED <<log, env, queue, lost, edits, crashes>>

\* One cluster of the loop of doReconcile: the ClusterRole, then the binding or
\* bindings.  A failure is remembered and the next cluster follows.
doReconcile ==
    /\ pass.pc = "doReconcile"
    /\ \/ /\ pass.todo = {}
          /\ Decide(pass.result)
          /\ UNCHANGED <<roles, remote, faults>>
       \/ \E c \in pass.todo :
            LET there  == IF health[c] = "gone" THEN {} ELSE {c}
                wanted == rbacBindings(pass.trb, pass.snap, there)
                Done(result) == pass' = [pass EXCEPT !.todo = @ \ {c}, !.result = result,
                                             !.status = SetPropagationStatus(@, c),
                                             !.touched = @ \cup {c}]
            IN  \/ /\ CallWorks
                   /\ roles' = roles \cup there
                   /\ remote' = remote \cup wanted
                   /\ Done(pass.result)
                \/ /\ CallFails(c)
                   /\ \/ UNCHANGED <<roles, remote>>
                      \/ /\ roles' = roles \cup there
                         /\ \E some \in SUBSET wanted : remote' = remote \cup some
                   /\ Done("Failed")
    /\ UNCHANGED <<log, env, queue, lost, edits, crashes>>

\* Mutant: the cleanup always counts as complete.
EnsureDeletedAlwaysSuccess ==
    /\ pass.pc = "EnsureDeleted"
    /\ \/ /\ pass.todo = {}
          /\ Decide("Success")
          /\ UNCHANGED <<roles, remote, faults>>
       \/ \E c \in pass.todo :
            /\ cleanupCluster(pass.trb, c) \/ cleanupClusterFails(pass.trb, c)
            /\ pass' = [pass EXCEPT !.todo = @ \ {c}]
    /\ UNCHANGED <<log, env, queue, lost, edits, crashes>>

\* One cluster of the loop of EnsureDeleted; an error is only reported as event.
EnsureDeleted ==
    /\ pass.pc = "EnsureDeleted"
    /\ \/ /\ pass.todo = {}
          /\ Decide(IF pass.status = <<>> THEN "Success" ELSE "Pending")
          /\ UNCHANGED <<roles, remote, faults>>
       \/ \E c \in pass.todo :
            \/ /\ cleanupCluster(pass.trb, c)
               /\ pass' = [pass EXCEPT !.todo = @ \ {c}, !.status = RemovePropagationStatus(@, c)]
            \/ /\ cleanupClusterFails(pass.trb, c)
               /\ pass' = [pass EXCEPT !.todo = @ \ {c}]
    /\ UNCHANGED <<log, env, queue, lost, edits, crashes>>

\* Mutant: the list in the server always stays.
MergedServer(new, old, server, touched) == {server}

\* What a merge patch leaves of a list in the status: the list is replaced if the
\* pass has changed it, and perhaps if it has set an element of it again.
Merged(new, old, server, touched) ==
    IF new # old THEN {new} ELSE IF touched THEN {server, new} ELSE {server}

\* A pass that has read an outdated list does not know what the newer one has, and
\* its patch may replace the newer one or may not be sent.
Overwritten(b) ==
    {b} \X IF Server(b).status = pass.snap.status THEN {}
           ELSE Range(pass.status) \cup (Recorded(Server(b)) \ Recorded(pass.snap))

\* What is on record: in a list that is still going to be looked at.
OnRecord(v) == IF v.stage = "deleted" THEN {} ELSE Recorded(v)

\* The status patch at the end of lifecycle.Reconcile.
patchStatus ==
    LET b == pass.trb
        s == Server(b)
        stages == IF pass.snap.stage = "live" THEN {s.stage}
                  ELSE Merged(IF pass.result = "Success" THEN "deleted" ELSE "deleting",
                              pass.snap.stage, s.stage, TRUE)
        stati == Merged(pass.status, pass.snap.status, s.status, pass.touched # {})
        again == IF pass.result = "Failed" THEN {b} ELSE {}
    IN  /\ pass.pc = "patchStatus"
        /\ pass' = Idle
        /\ \/ /\ s.stage # "absent"
              /\ \E status \in stati, stage \in stages :
                    LET new == [s EXCEPT !.status = status, !.stage = stage]
                    IN  /\ Write(b, new) \/ (new = s /\ UNCHANGED log)
                        /\ lost' = (lost \cup Overwritten(b)) \ ({b} \X OnRecord(new))
              /\ queue' = queue \cup again
              /\ UNCHANGED crashes
           \/ /\ \/ s.stage = "absent" /\ UNCHANGED crashes
                 \/ crashes < MaxCrashes /\ crashes' = crashes + 1
              /\ queue' = queue \cup {b} /\ lost' = lost \cup CutShort
              /\ UNCHANGED log
        /\ UNCHANGED <<env, roles, remote, edits, faults>>

-----------------------------------------------------------------------------
Step == cleanupResources \/ doReconcile \/ EnsureDeleted \/ patchStatus

Next ==
    \/ \E b \in Bindings : Create(b) \/ Edit(b) \/ Delete(b) \/ Deliver(b) \/ Reconcile(b)
    \/ \E c \in Clusters : ClusterUnready(c) \/ ClusterReady(c) \/ ClusterGone(c)
    \/ LabelsChange \/ enqueueTeamRoleBindingsFor
    \/ Resync \/ Restart
    \/ Step

\* Events are delivered, the queue is first in first out, a pass goes on, resync
\* comes round and a cluster does not stay unreachable for ever.
Fairness ==
    /\ \A b \in Bindings : WF_vars(Deliver(b)) /\ SF_vars(Reconcile(b))
    /\ \A c \in Clusters : WF_vars(ClusterReady(c))
    /\ WF_vars(Resync)
    /\ WF_vars(Step)

Spec == Init /\ [][Next]_vars
FairSpec == Spec /\ Fairness

-----------------------------------------------------------------------------
(* Properties. *)

\* Between two passes, every binding and every ClusterRole that is left in a
\* cluster is recorded in the propagation status of a TeamRoleBinding, the only
\* place where the controller looks when it has to take things back from a
\* cluster that is no longer selected: whatever fails half way, and although
\* selectors, labels, clusters and the TeamRole change in the middle of a pass.
\* A record is lost in two ways only, and found again when the cluster is visited:
\* a pass is cut off before it writes its list, or it has read an outdated one.
Tracked(b, c) == c \in OnRecord(Server(b)) \/ <<b, c>> \in lost
NoOrphans ==
    /\ pass = Idle => /\ \A x \in remote : Tracked(x.trb, x.cluster)
                      /\ \A c \in roles : \E b \in Bindings : Tracked(b, c)
    /\ MaxLag = 0 /\ crashes = 0 => lost = {}

\* No binding refers to a ClusterRole that is not there: bindings share the
\* ClusterRole and it is removed with the last of them.
NoDanglingBindings == \A x \in remote : x.cluster \in roles

\* A deleted TeamRoleBinding goes away, through unreachable clusters, failing
\* calls and restarts: no entry of the propagation status holds it back for ever,
\* save the entry of a removed cluster (combineClusterLists does not take it out).
DeletionCompletes ==
    \A b \in Bindings : (Server(b).stage = "deleting") ~>
        (Server(b).stage = "absent" \/ \E c \in Clusters : health[c] = "gone")

\* What a binding asks for: its places in the clusters it selects.
Wanted(b) ==
    LET v == Server(b)
    IN  IF v.stage # "live" THEN {}
        ELSE rbacBindings(b, v, {c \in IF v.sel = "labels" THEN labelled ELSE {v.sel} :
                                    health[c] # "gone"})

\* Once nothing changes any more the clusters have the bindings that are asked
\* for and no others, although one pass may pass over entries of the propagation
\* status, lose its patch or stop half way.  What has been lost from the record is
\* not taken back.
Converges ==
    <>[](lost = {} /\ refs = {"teamRole", "teams"} => remote = UNION {Wanted(b) : b \in Bindings})

\* Each TeamRoleBinding is a managed resource that holds bindings in clusters.
Managed(b) == INSTANCE ManagedResource WITH
    Resources <- Remote,
    phase <- CASE Server(b).stage \in {"absent", "new"} -> "unmanaged"
               [] Server(b).stage = "live" -> "managed"
               [] OTHER -> "closing",
    held  <- {x \in remote : x.trb = b /\ <<b, x.cluster>> \notin lost}

\* The controller keeps the contract of a managed resource for every binding:
\* what is bound in a cluster is covered by the finalizer, which goes last; save
\* what has been lost from the record, by a restart or an outdated read.
ImplementsManagedResource ==
    /\ \A b \in Bindings : Managed(b)!Init
    /\ [][\A b \in Bindings : Managed(b)!Next \/ UNCHANGED Managed(b)!vars]_vars
=============================================================================
