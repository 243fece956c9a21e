------------------------------ MODULE Lifecycle ------------------------------
(***************************************************************************)
(* The generic reconcile loop of pkg/lifecycle, which every Greenhouse     *)
(* controller runs for its custom resource, together with the parts of     *)
(* Kubernetes and controller-runtime it relies on: the API server, the     *)
(* informer cache that lags behind it, the work queue with its single      *)
(* reconcile per key, and restarts of the operator.                        *)
(*                                                                         *)
(* Objects are reconciled independently of each other, so the module       *)
(* follows one object.  A version of the object is the set of the marks    *)
(* that the loop looks at:                                                 *)
(*   "exists"    the object is there (the empty set is "not found")        *)
(*   "finalizer" metadata.finalizers has greenhouse.sap/cleanup            *)
(*   "foreign"   metadata.finalizers has a finalizer of somebody else      *)
(*   "deleting"  metadata.deletionTimestamp is set                         *)
(*   "suspend"   the annotation greenhouse.sap/suspend is set              *)
(*   "Deleted"   condition Deleted is True with reason Deleted             *)
(*   "Suspended" condition Suspended is True                               *)
(* What a concrete controller does in EnsureCreated, EnsureDeleted and     *)
(* EnsureSuspended is left open up to the contract of Reconciler: Success  *)
(* from EnsureDeleted means that nothing is left.                          *)
(***************************************************************************)
EXTENDS Naturals, Sequences

CONSTANTS
    Resources,          \* what the controller creates on behalf of the object
    Kinds,              \* the kinds of objects that the loop is run for
    MaxLag,             \* how many versions the cache may be behind
    MaxDisturbances     \* edits, API errors, failed cleanups and restarts

ASSUME LifecycleAssumption ==
    /\ Kinds \in SUBSET SUBSET {"suspendable", "foreign"}
    /\ MaxLag \in Nat \ {0}
    /\ MaxDisturbances \in Nat

VARIABLES
    kind,       \* the kind of the object: "suspendable", "foreign" finalizers on it
    log,        \* versions of the object, from the one in the informer cache
                \* (the first) to the one in the API server (the last)
    queue,      \* the work queue: the object's key, or nothing
    pc,         \* where the reconcile of the key is, "idle" between two
    snap,       \* the version this reconcile has read
    rv,         \* is the resourceVersion that was read still the server's?
    conds,      \* the conditions this reconcile is going to write
    requeue,    \* the key, if this reconcile ends with an error or RequeueAfter
    ext,        \* the resources that exist on behalf of the object
    disturbed   \* how many disturbances have happened

run  == <<pc, snap, rv, conds, requeue>>
vars == <<kind, log, queue, pc, snap, rv, conds, requeue, ext, disturbed>>

Marks == {"exists", "finalizer", "foreign", "deleting", "suspend",
          "Deleted", "Suspended"}
Conditions == {"Deleted", "Suspended"}

Keys == {"key"}

\* RuntimeObject.CanBeSuspended of the kind.
CanBeSuspended(k) == "suspendable" \in k

\* The finalizers that others put on objects of the kind.
Foreign(k) == k \cap {"foreign"}

Cached == log[1]
Server == log[Len(log)]

Working == {"ensureCreated", "ensureDeleted", "ensureSuspended"}
Phases  == Working \cup {"idle", "ensureFinalizer", "removeFinalizer", "patchStatus"}

TypeOK ==
    /\ kind \in Kinds
    /\ log \in Seq(SUBSET Marks)
    /\ Len(log) \in 1 .. MaxLag + 1
    /\ queue \in SUBSET Keys
    /\ pc \in Phases
    /\ snap \in SUBSET Marks
    /\ rv \in {"current", "stale"}
    /\ conds \in SUBSET Conditions
    /\ requeue \in SUBSET Keys
    /\ ext \in SUBSET Resources
    /\ disturbed \in 0 .. MaxDisturbances

Init ==
    /\ kind \in Kinds
    /\ log = <<{}>>
    /\ queue = {}
    /\ pc = "idle"
    /\ snap = {}
    /\ rv = "stale"
    /\ conds = {}
    /\ requeue = {}
    /\ ext = {}
    /\ disturbed = 0

-----------------------------------------------------------------------------
(* The API server. *)

\* The server stores a new version; the watch event is on its way to the cache.
Write(obj) ==
    /\ Len(log) <= MaxLag
    /\ log' = Append(log, obj)
    /\ rv' = "stale"

\* An object without finalizers disappears once it is being deleted.
Collect(obj) ==
    IF "deleting" \in obj /\ obj \cap {"finalizer", "foreign"} = {} THEN {} ELSE obj

Disturb ==
    /\ disturbed < MaxDisturbances
    /\ disturbed' = disturbed + 1

\* Somebody creates the object, possibly annotated and with a finalizer.
Create ==
    /\ Server = {}
    /\ \E obj \in SUBSET ({"suspend"} \cup Foreign(kind)) : Write(obj \cup {"exists"})
    /\ UNCHANGED <<kind, queue, pc, snap, conds, requeue, ext, disturbed>>

\* Somebody edits the object: the spec, or sets or removes the annotation.
Edit ==
    /\ "exists" \in Server
    /\ Disturb
    /\ \/ Write(Server)
       \/ Write(Server \cup {"suspend"})
       \/ Write(Server \ {"suspend"})
    /\ UNCHANGED <<kind, queue, pc, snap, conds, requeue, ext>>

Delete ==
    /\ "exists" \in Server
    /\ "deleting" \notin Server
    /\ Write(Collect(Server \cup {"deleting"}))
    /\ UNCHANGED <<kind, queue, pc, snap, conds, requeue, ext, disturbed>>

\* The owner of the other finalizer has done its part.
ForeignDone ==
    /\ "foreign" \in Server
    /\ "deleting" \in Server
    /\ Write(Collect(Server \ {"foreign"}))
    /\ UNCHANGED <<kind, queue, pc, snap, conds, requeue, ext, disturbed>>

-----------------------------------------------------------------------------
(* Informer cache, work queue and process. *)

\* A watch event reaches the cache and enqueues the key.
Deliver ==
    /\ Len(log) > 1
    /\ log' = Tail(log)
    /\ queue' = Keys
    /\ UNCHANGED <<kind, pc, snap, rv, conds, requeue, ext, disturbed>>

\* The informer's periodic resync enqueues what it holds.
Resync ==
    /\ "exists" \in Cached
    /\ queue = {}
    /\ queue' = Keys
    /\ UNCHANGED <<kind, log, run, ext, disturbed>>

\* A resource whose removal was requested is gone; its watch enqueues the key.
ResourceGone ==
    /\ "deleting" \in Cached
    /\ \E r \in ext : ext' = ext \ {r}
    /\ queue' = Keys
    /\ UNCHANGED <<kind, log, run, disturbed>>

\* The operator dies, at any point of a reconcile, and starts again: the cache
\* is filled from the server and every object in it is enqueued.
Restart ==
    /\ Disturb
    /\ log' = <<Server>>
    /\ queue' = IF "exists" \in Server THEN Keys ELSE {}
    /\ pc' = "idle" /\ snap' = {} /\ rv' = "stale" /\ conds' = {} /\ requeue' = {}
    /\ UNCHANGED <<kind, ext>>

-----------------------------------------------------------------------------
(* Reconcile. *)

isResourceDeleted(obj) == "Deleted" \in obj

isResourceSuspended(obj) == "suspend" \in obj

\* Mutants of Reconcile's dispatch, used to show that the properties can fail.
PhaseNoFinalizer(k, obj) ==
    IF "exists" \notin obj THEN "idle"
    ELSE IF "deleting" \notin obj THEN "ensureCreated"
    ELSE IF "finalizer" \notin obj THEN "idle"
    ELSE IF isResourceDeleted(obj) THEN "removeFinalizer"
    ELSE "ensureDeleted"

PhaseRemoveFirst(k, obj) ==
    IF "exists" \notin obj THEN "idle"
    ELSE IF {"deleting", "finalizer"} \cap obj = {} THEN "ensureFinalizer"
    ELSE IF isResourceSuspended(obj) /\ CanBeSuspended(k) THEN "ensureSuspended"
    ELSE IF "deleting" \notin obj THEN "ensureCreated"
    ELSE IF "finalizer" \notin obj THEN "idle"
    ELSE "removeFinalizer"

PhaseDeleteBeforeSuspend(k, obj) ==
    IF "exists" \notin obj THEN "idle"
    ELSE IF {"deleting", "finalizer"} \cap obj = {} THEN "ensureFinalizer"
    ELSE IF "deleting" \in obj
         THEN IF "finalizer" \notin obj THEN "idle"
              ELSE IF isResourceDeleted(obj) THEN "removeFinalizer"
              ELSE "ensureDeleted"
    ELSE IF isResourceSuspended(obj) /\ CanBeSuspended(k) THEN "ensureSuspended"
    ELSE "ensureCreated"

\* What Reconcile does with the object it has read: its early returns in the
\* order of the code.
Phase(k, obj) ==
    IF "exists" \notin obj THEN "idle"
    ELSE IF {"deleting", "finalizer"} \cap obj = {} THEN "ensureFinalizer"
    ELSE IF isResourceSuspended(obj) /\ CanBeSuspended(k) THEN "ensureSuspended"
    ELSE IF "deleting" \notin obj THEN "ensureCreated"
    ELSE IF "finalizer" \notin obj THEN "idle"
    ELSE IF isResourceDeleted(obj) THEN "removeFinalizer"
    ELSE "ensureDeleted"

\* A worker takes the key and reads the object from the cache.
Reconcile ==
    /\ pc = "idle"
    /\ queue # {}
    /\ queue' = {}
    /\ \/ Phase(kind, Cached) = "idle" /\ UNCHANGED run
       \/ /\ Phase(kind, Cached) # "idle"
          /\ pc' = Phase(kind, Cached)
          /\ snap' = Cached
          /\ rv' = IF Len(log) = 1 THEN "current" ELSE "stale"
          /\ conds' = Cached \cap Conditions
          /\ requeue' = {}
    /\ UNCHANGED <<kind, log, ext, disturbed>>

\* The reconcile ends; with again it is retried by the queue's rate limiter.
Return(again) ==
    /\ pc' = "idle" /\ snap' = {} /\ rv' = "stale" /\ conds' = {} /\ requeue' = {}
    /\ queue' = queue \cup again

\* A full update is refused unless the version that was read is the newest.
Update(obj) ==
    IF rv = "current"
    THEN /\ Len(log) <= MaxLag
         /\ log' = Append(log, Collect(obj))
         /\ Return({})
    ELSE /\ UNCHANGED log
         /\ Return(Keys)

ensureFinalizer ==
    /\ pc = "ensureFinalizer"
    /\ \/ Update(snap \cup {"finalizer"}) /\ UNCHANGED disturbed
       \/ Return(Keys) /\ Disturb /\ UNCHANGED log
    /\ UNCHANGED <<kind, ext>>

\* IgnoreNotFound: an object that is gone by now is not retried.
removeFinalizer ==
    /\ pc = "removeFinalizer"
    /\ \/ Server # {} /\ Update(snap \ {"finalizer"}) /\ UNCHANGED disturbed
       \/ Server = {} /\ Return({}) /\ UNCHANGED <<log, disturbed>>
       \/ Return(Keys) /\ Disturb /\ UNCHANGED log
    /\ UNCHANGED <<kind, ext>>

\* The controller's own part is over; what it decided is written next.
Decide(cs, again) ==
    /\ pc' = "patchStatus"
    /\ conds' = cs
    /\ requeue' = again
    /\ UNCHANGED <<log, queue, snap, rv>>

\* EnsureCreated may add and remove resources, and may stop half way.
ensureCreated ==
    /\ pc = "ensureCreated"
    /\ ext' \in SUBSET Resources
    /\ \E again \in SUBSET Keys : Decide(conds \ {"Suspended"}, again)
    /\ UNCHANGED <<kind, disturbed>>

\* Mutants of ensureDeleted: Success is recorded as soon as the removal was
\* requested; a finished cleanup is never recorded; a wrong mark is recorded.
ensureDeletedEager ==
    /\ pc = "ensureDeleted"
    /\ \E again \in SUBSET Keys : Decide(conds \cup {"Deleted"}, again)
    /\ UNCHANGED <<kind, ext, disturbed>>

ensureDeletedForgets ==
    /\ pc = "ensureDeleted"
    /\ ext' = {}
    /\ \E again \in SUBSET Keys : Decide(conds, again)
    /\ UNCHANGED <<kind, disturbed>>

ensureDeletedWrongMark ==
    /\ pc = "ensureDeleted"
    /\ ext' = {}
    /\ \E again \in SUBSET Keys : Decide(conds \cup {"deleting"}, again)
    /\ UNCHANGED <<kind, disturbed>>

\* EnsureDeleted ends with Success when nothing is left, with Pending while it
\* waits for something to go away, and with Failed otherwise.
ensureDeleted ==
    /\ pc = "ensureDeleted"
    /\ \/ /\ ext' = {}
          /\ \E again \in SUBSET Keys : Decide(conds \cup {"Deleted"}, again)
          /\ UNCHANGED disturbed
       \/ /\ ext # {}
          /\ \E again \in SUBSET Keys : Decide(conds \ {"Deleted"}, again)
          /\ UNCHANGED <<ext, disturbed>>
       \/ /\ Disturb
          /\ ext' \in SUBSET ext
          /\ \E again \in SUBSET Keys : Decide(conds \ {"Deleted"}, again)
    /\ UNCHANGED kind

ensureSuspended ==
    /\ pc = "ensureSuspended"
    /\ \/ Decide(conds \cup {"Suspended"}, {}) /\ UNCHANGED disturbed
       \/ Decide(conds \ {"Suspended"}, Keys) /\ Disturb
    /\ UNCHANGED <<kind, ext>>

\* The merge patch is made of the difference between the version that was read
\* and the new status and carries no resourceVersion: if it changes a condition
\* (the ones that are not modelled included) it replaces the whole list, on
\* whatever object has the name by now.  If it changes another part of the
\* status, or nothing, the conditions stay what they are on the server.
patchStatus ==
    /\ pc = "patchStatus"
    /\ \/ /\ "exists" \in Server
          /\ Len(log) <= MaxLag
          /\ log' = Append(log, (Server \ Conditions) \cup conds)
          /\ Return(requeue)
          /\ UNCHANGED disturbed
       \/ /\ conds = snap \cap Conditions
          /\ "exists" \in Server
          /\ \/ UNCHANGED log
             \/ Len(log) <= MaxLag /\ log' = Append(log, Server)
          /\ Return(requeue)
          /\ UNCHANGED disturbed
       \/ /\ "exists" \notin Server
          /\ Return(Keys)
          /\ UNCHANGED <<log, disturbed>>
       \/ /\ Disturb
          /\ Return(Keys)
          /\ UNCHANGED log
    /\ UNCHANGED <<kind, ext>>

-----------------------------------------------------------------------------
Step ==
    \/ Reconcile
    \/ ensureFinalizer
    \/ removeFinalizer
    \/ ensureCreated
    \/ ensureDeleted
    \/ ensureSuspended
    \/ patchStatus

Next ==
    \/ Create \/ Edit \/ Delete \/ ForeignDone
    \/ Deliver \/ Resync \/ ResourceGone \/ Restart
    \/ Step

\* Watches deliver, the queue is worked off, resync fires again and again and
\* what was asked to go away goes away.
Fairness ==
    /\ WF_vars(Deliver)
    /\ WF_vars(Resync)
    /\ WF_vars(ResourceGone)
    /\ WF_vars(ForeignDone)
    /\ WF_vars(Step)

Spec == Init /\ [][Next]_vars
FairSpec == Spec /\ Fairness

-----------------------------------------------------------------------------
(* Properties. *)

\* Nothing exists on behalf of an object that is gone or that the API server
\* could drop at once: whatever EnsureCreated has made is covered by the cleanup
\* finalizer, however far the cache lags behind, wherever a reconcile is cut
\* off by a restart, and across deletion and re-creation under the same name.
NoLeak == ext # {} => "finalizer" \in Server

\* The Deleted condition is the control state that lets the next reconcile drop
\* the finalizer: in no version that the server or the cache holds is it set
\* while something is left, although the reconcile that sets it and the one
\* that acts on it may have read different, outdated versions.
DeletedMeansClean ==
    \A i \in 1 .. Len(log) : isResourceDeleted(log[i]) => ext = {}

\* As long as the cache shows the suspend annotation and no reconcile that read
\* an earlier version is under way, nothing the controller manages changes and
\* the finalizer stays: suspension blocks deletion, too.
SuspensionBlocks ==
    [][ (/\ CanBeSuspended(kind)
         /\ isResourceSuspended(Cached)
         /\ pc = "idle" \/ isResourceSuspended(snap))
        => /\ ext' # ext => ext' \subseteq ext /\ pc = pc'
           /\ "finalizer" \in Server => "finalizer" \in log'[Len(log')] ]_vars

\* A deletion, once requested, is carried through unless the object is (or gets)
\* suspended: two reconciles have to follow each other, the one that records the
\* cleanup and the one that drops the finalizer, over outdated reads, conflicts,
\* lost status patches and restarts.
DeletionCompletes ==
    ("deleting" \in Server) ~> (Server = {} \/ (CanBeSuspended(kind) /\ "suspend" \in Server))

\* The loop implements the abstract contract of a managed resource.
Managed == INSTANCE ManagedResource WITH
    phase <- IF "finalizer" \notin Server THEN "unmanaged"
             ELSE IF "deleting" \in Server THEN "closing" ELSE "managed",
    held  <- ext

\* What is created on behalf of an object is created under the finalizer and
\* the finalizer is given up only when nothing is left.
ImplementsManagedResource == Managed!Spec
=============================================================================
