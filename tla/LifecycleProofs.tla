--------------------------- MODULE LifecycleProofs ---------------------------
(***************************************************************************)
(* Proofs about Lifecycle: SuspensionBlocks, NoLeak, DeletedMeansClean and *)
(* the refinement of ManagedResource, for every set of resources, every    *)
(* lag of the cache and every number of disturbances.                      *)
(*                                                                         *)
(* The last three assume OneOwner: a kind either cannot be suspended or    *)
(* nobody else puts finalizers on it.  Without it these three are false,   *)
(* as TLC shows (see the README, section 5).                               *)
(***************************************************************************)
EXTENDS Lifecycle, TLAPS

OneOwner == {"suspendable", "foreign"} \notin Kinds

\* Carries the finalizer and is not being deleted: EnsureCreated may run.
Adopted(obj) == "finalizer" \in obj /\ "deleting" \notin obj

\* A reconcile that still holds the newest resourceVersion has read the version
\* that both the cache and the server hold.
FreshRead == rv = "current" => Len(log) = 1 /\ log[1] = snap

\* The branch a reconcile is in is the one its snapshot asked for.
InBranch ==
    /\ pc = "idle" => snap = {} /\ rv = "stale"
    /\ pc \notin {"idle", "patchStatus"} => pc = Phase(kind, snap) /\ conds = snap \cap Conditions
    /\ pc = "patchStatus" => Phase(kind, snap) \in Working

\* Which marks occur together in one version.
Sane(k, obj) ==
    /\ obj # {} => "exists" \in obj
    /\ "Deleted" \in obj => "deleting" \in obj
    /\ "foreign" \in obj => "foreign" \in k
    /\ "deleting" \in obj => obj \cap {"finalizer", "foreign"} # {}

AllSane == Sane(kind, snap) /\ \A i \in 1 .. Len(log) : Sane(kind, log[i])

\* Deletion is not undone: no adopted version follows one that is being deleted.
DeletionIsFinal ==
    /\ \A i, j \in 1 .. Len(log) : i < j /\ "deleting" \in log[i] => ~Adopted(log[j])
    /\ "deleting" \in snap => \A j \in 1 .. Len(log) : ~Adopted(log[j])

\* No version with the Deleted condition follows an adopted one unless a
\* reconcile has read a version in between that is being deleted.
CleanupReadsDeletion ==
    /\ \A i, j \in 1 .. Len(log) : i < j /\ Adopted(log[i]) => "Deleted" \notin log[j]
    /\ Adopted(snap) => \A j \in 1 .. Len(log) : "Deleted" \notin log[j]

\* A version on which a reconcile would work belongs to an object that still has
\* the finalizer, and so does the one a reconcile is working on.
WorkIsCovered ==
    /\ \A i \in 1 .. Len(log) : Phase(kind, log[i]) \in Working => "finalizer" \in Server
    /\ pc \in Working \cup {"patchStatus"} => "finalizer" \in Server

\* Nothing is left when the Deleted condition is there or about to be written.
CleanWhenDeleted ==
    /\ DeletedMeansClean
    /\ "Deleted" \in snap => ext = {}
    /\ pc = "patchStatus" /\ "Deleted" \in conds => ext = {} /\ "deleting" \in snap

IInv ==
    /\ TypeOK
    /\ FreshRead
    /\ InBranch
    /\ AllSane
    /\ DeletionIsFinal
    /\ CleanupReadsDeletion
    /\ WorkIsCovered
    /\ CleanWhenDeleted
    /\ NoLeak

-----------------------------------------------------------------------------
(* Facts about logs and about the dispatch. *)

\* Appending a version leaves the older ones where they are.
LEMMA AppendLog ==
    ASSUME NEW s \in Seq(SUBSET Marks), NEW e \in SUBSET Marks
    PROVE  /\ Append(s, e) \in Seq(SUBSET Marks)
           /\ Len(Append(s, e)) = Len(s) + 1
           /\ \A i \in 1 .. Len(s) : Append(s, e)[i] = s[i]
           /\ Append(s, e)[Len(s) + 1] = e
  OBVIOUS

\* Delivering drops the oldest version.
LEMMA TailLog ==
    ASSUME NEW s \in Seq(SUBSET Marks), Len(s) > 1
    PROVE  /\ Tail(s) \in Seq(SUBSET Marks)
           /\ Len(Tail(s)) = Len(s) - 1
           /\ \A i \in 1 .. Len(s) - 1 : Tail(s)[i] = s[i + 1]
  OBVIOUS

\* What the branches of Reconcile say about the version they were chosen for.
LEMMA PhaseFacts ==
    ASSUME NEW k \in Kinds, NEW obj \in SUBSET Marks
    PROVE  /\ Phase(k, obj) \in Phases \ {"patchStatus"}
           /\ Phase(k, obj) = "ensureFinalizer" => "exists" \in obj /\ "deleting" \notin obj /\ "finalizer" \notin obj
           /\ Phase(k, obj) = "ensureCreated" => Adopted(obj)
           /\ Phase(k, obj) = "ensureDeleted" => "finalizer" \in obj /\ "deleting" \in obj /\ "Deleted" \notin obj
           /\ Phase(k, obj) = "removeFinalizer" => "finalizer" \in obj /\ "deleting" \in obj /\ "Deleted" \in obj
           /\ Phase(k, obj) = "ensureSuspended" => CanBeSuspended(k)
           /\ OneOwner /\ Sane(k, obj) /\ Phase(k, obj) \in Working => "finalizer" \in obj
  <1>1. Phase(k, obj) \in Phases \ {"patchStatus"}
    BY DEF Phase, Phases, Working
  <1>2. OneOwner /\ Sane(k, obj) /\ Phase(k, obj) \in Working => "finalizer" \in obj
    <2>1. OneOwner => ~("suspendable" \in k /\ "foreign" \in k)
      <3>1. ASSUME "suspendable" \in k, "foreign" \in k
            PROVE  k = {"suspendable", "foreign"}
        BY <3>1, LifecycleAssumption
      <3>2. QED
        BY <3>1 DEF OneOwner
    <2>2. QED
      BY <2>1 DEF Phase, Working, Sane, CanBeSuspended, isResourceSuspended, isResourceDeleted
  <1>3. QED
    BY <1>1, <1>2 DEF Phase, Adopted, isResourceSuspended, isResourceDeleted

\* The kind of an object never changes.
LEMMA KindStays == [Next]_vars => kind' = kind
  BY DEF Next, Step, vars, Create, Edit, Delete, ForeignDone, Deliver, Resync, ResourceGone,
     Restart, Reconcile, ensureFinalizer, removeFinalizer, ensureCreated, ensureDeleted,
     ensureSuspended, patchStatus

-----------------------------------------------------------------------------
(* Type correctness. *)

\* Every step keeps the variables of the loop in their types.
LEMMA TypeStep == TypeOK /\ [Next]_vars => TypeOK'
  <1> SUFFICES ASSUME TypeOK, [Next]_vars
               PROVE  TypeOK'
    OBVIOUS
  <1> USE LifecycleAssumption
  <1>k. kind \in Kinds /\ kind' \in Kinds
    BY KindStays DEF TypeOK
  <1>0. /\ Server \in SUBSET Marks /\ Cached \in SUBSET Marks
        /\ Conditions \subseteq Marks /\ Foreign(kind) \subseteq Marks
    BY DEF TypeOK, Server, Cached, Conditions, Marks, Foreign
  <1>c. \A obj \in SUBSET Marks : Collect(obj) \in SUBSET Marks
    BY DEF Collect
  <1>w. ASSUME NEW obj \in SUBSET Marks, Len(log) <= MaxLag, log' = Append(log, obj)
        PROVE  log' \in Seq(SUBSET Marks) /\ Len(log') \in 1 .. MaxLag + 1
    BY <1>w, AppendLog DEF TypeOK
  <1>r. ASSUME NEW again \in SUBSET Keys, Return(again)
        PROVE  /\ queue' \in SUBSET Keys /\ pc' \in Phases /\ snap' \in SUBSET Marks
               /\ rv' \in {"current", "stale"} /\ conds' \in SUBSET Conditions
               /\ requeue' \in SUBSET Keys
    <2>1. queue' \in SUBSET Keys
      BY <1>r DEF Return, TypeOK
    <2>2. QED
      BY <2>1, <1>r DEF Return, Phases
  <1>d. ASSUME NEW cs \in SUBSET Conditions, NEW again \in SUBSET Keys, Decide(cs, again)
        PROVE  /\ queue' \in SUBSET Keys /\ pc' \in Phases /\ snap' \in SUBSET Marks
               /\ rv' \in {"current", "stale"} /\ conds' \in SUBSET Conditions
               /\ requeue' \in SUBSET Keys /\ log' = log
    BY <1>d DEF Decide, TypeOK, Phases
  <1>i. ASSUME disturbed' = disturbed \/ Disturb
        PROVE  disturbed' \in 0 .. MaxDisturbances
    BY <1>i DEF Disturb, TypeOK
  <1>u. ASSUME NEW obj \in SUBSET Marks, Update(obj)
        PROVE  /\ log' \in Seq(SUBSET Marks) /\ Len(log') \in 1 .. MaxLag + 1
               /\ \E again \in SUBSET Keys : Return(again)
    BY <1>u, <1>c, <1>w DEF Update, TypeOK
  <1>s. /\ conds \ {"Suspended"} \in SUBSET Conditions /\ conds \cup {"Suspended"} \in SUBSET Conditions
        /\ conds \ {"Deleted"} \in SUBSET Conditions /\ conds \cup {"Deleted"} \in SUBSET Conditions
    BY DEF TypeOK, Conditions
  <1>1. CASE Create
    BY <1>1, <1>0, <1>w DEF Create, Write, TypeOK, Marks
  <1>2. CASE Edit
    BY <1>2, <1>0, <1>w DEF Edit, Write, Disturb, TypeOK, Marks
  <1>3. CASE Delete
    BY <1>3, <1>0, <1>c, <1>w DEF Delete, Write, TypeOK, Marks
  <1>4. CASE ForeignDone
    BY <1>4, <1>0, <1>c, <1>w DEF ForeignDone, Write, TypeOK, Marks
  <1>5. CASE Deliver
    BY <1>5, TailLog DEF Deliver, TypeOK
  <1>6. CASE Resync
    BY <1>6 DEF Resync, TypeOK, run
  <1>7. CASE ResourceGone
    BY <1>7 DEF ResourceGone, TypeOK, run
  <1>8. CASE Restart
    <2>1. queue' \in SUBSET Keys
      BY <1>8 DEF Restart
    <2>2. <<Server>> \in Seq(SUBSET Marks) /\ Len(<<Server>>) = 1
      BY <1>0
    <2>3. QED
      BY <1>8, <2>1, <2>2 DEF Restart, Disturb, TypeOK, Phases
  <1>9. CASE Reconcile
    <2>1. Phase(kind, Cached) \in Phases
      BY <1>0, <1>k, PhaseFacts
    <2>2. CASE UNCHANGED run
      BY <1>9, <1>k, <2>2 DEF Reconcile, TypeOK, run
    <2>3. CASE /\ pc' = Phase(kind, Cached) /\ snap' = Cached /\ rv' \in {"current", "stale"}
               /\ conds' = Cached \cap Conditions /\ requeue' = {}
      BY <1>9, <1>0, <1>k, <2>1, <2>3 DEF Reconcile, TypeOK
    <2>4. QED
      BY <1>9, <2>2, <2>3 DEF Reconcile
  <1>10. CASE ensureFinalizer
    <2>1. snap \cup {"finalizer"} \in SUBSET Marks
      BY DEF TypeOK, Marks
    <2>2. /\ \E again \in SUBSET Keys : Return(again)
          /\ log' \in Seq(SUBSET Marks) /\ Len(log') \in 1 .. MaxLag + 1
          /\ ext' = ext
          /\ disturbed' = disturbed \/ Disturb
      BY <1>10, <2>1, <1>u DEF ensureFinalizer, TypeOK
    <2>3. QED
      BY <1>k, <2>2, <1>r, <1>i DEF TypeOK
  <1>11. CASE removeFinalizer
    <2>1. snap \ {"finalizer"} \in SUBSET Marks
      BY DEF TypeOK, Marks
    <2>2. /\ \E again \in SUBSET Keys : Return(again)
          /\ log' \in Seq(SUBSET Marks) /\ Len(log') \in 1 .. MaxLag + 1
          /\ ext' = ext
          /\ disturbed' = disturbed \/ Disturb
      BY <1>11, <2>1, <1>u DEF removeFinalizer, TypeOK
    <2>3. QED
      BY <1>k, <2>2, <1>r, <1>i DEF TypeOK
  <1>12. CASE ensureCreated
    BY <1>12, <1>d, <1>s DEF ensureCreated, TypeOK
  <1>13. CASE ensureDeleted
    <2>1. /\ \E cs \in SUBSET Conditions, again \in SUBSET Keys : Decide(cs, again)
          /\ ext' \in SUBSET Resources
          /\ disturbed' = disturbed \/ Disturb
      BY <1>13, <1>s DEF ensureDeleted, TypeOK
    <2>2. QED
      BY <1>k, <2>1, <1>d, <1>i DEF TypeOK
  <1>14. CASE ensureSuspended
    <2>1. /\ \E cs \in SUBSET Conditions, again \in SUBSET Keys : Decide(cs, again)
          /\ ext' = ext
          /\ disturbed' = disturbed \/ Disturb
      BY <1>14, <1>s DEF ensureSuspended
    <2>2. QED
      BY <1>k, <2>1, <1>d, <1>i DEF TypeOK
  <1>15. CASE patchStatus
    <2>1. (Server \ Conditions) \cup conds \in SUBSET Marks
      BY <1>0 DEF TypeOK
    <2>2. /\ \E again \in SUBSET Keys : Return(again)
          /\ log' \in Seq(SUBSET Marks) /\ Len(log') \in 1 .. MaxLag + 1
          /\ ext' = ext
          /\ disturbed' = disturbed \/ Disturb
      BY <1>15, <1>0, <2>1, <1>w DEF patchStatus, TypeOK
    <2>3. QED
      BY <1>k, <2>2, <1>r, <1>i DEF TypeOK
  <1>16. CASE UNCHANGED vars
    BY <1>16 DEF vars, TypeOK
  <1>17. QED
    BY <1>1, <1>2, <1>3, <1>4, <1>5, <1>6, <1>7, <1>8, <1>9, <1>10, <1>11,
       <1>12, <1>13, <1>14, <1>15, <1>16 DEF Next, Step

\* The variables of the loop keep their types: in particular the cache is at
\* most MaxLag versions behind and a reconcile is always in one of its branches.
THEOREM TypeCorrect == Spec => []TypeOK
  <1>1. Init => TypeOK
    <2>1. <<{}>> \in Seq(SUBSET Marks) /\ Len(<<{}>>) = 1
      OBVIOUS
    <2>2. QED
      BY <2>1, LifecycleAssumption DEF Init, TypeOK, Phases
  <1>2. QED
    BY <1>1, TypeStep, PTL DEF Spec

-----------------------------------------------------------------------------
(* The inductive invariant. *)

\* Storing a new version keeps the invariant if the finalizer comes and goes
\* with no version, the object is not taken out of deletion, and the Deleted
\* condition is new only when a reconcile that read the deletion has found
\* nothing left.  The reconcile goes on with an outdated snapshot or is over.
LEMMA Extend ==
    ASSUME IInv, TypeOK', OneOwner,
           NEW obj \in SUBSET Marks,
           kind' = kind,
           log' = Append(log, obj),
           Sane(kind, obj),
           "finalizer" \in obj <=> "finalizer" \in Server,
           Adopted(obj) => Adopted(Server),
           "Deleted" \in obj => "Deleted" \in Server \/ ("deleting" \in snap /\ ext = {}),
           ext' = ext,
           rv' = "stale",
           \/ UNCHANGED <<pc, snap, conds>>
           \/ pc' = "idle" /\ snap' = {} /\ conds' = {}
    PROVE  IInv'
  <1> USE LifecycleAssumption
  <1> DEFINE n == Len(log)
  <1>1. /\ n \in Nat /\ n >= 1 /\ Len(log') = n + 1
        /\ \A i \in 1 .. n : log'[i] = log[i] /\ log[i] \in SUBSET Marks
        /\ log'[n + 1] = obj
        /\ Server = log[n] /\ Server' = obj
    BY AppendLog DEF IInv, TypeOK, Server
  <1>2. FreshRead' /\ InBranch'
    BY DEF IInv, FreshRead, InBranch, Phase, Working, isResourceSuspended, isResourceDeleted
  <1>3. AllSane'
    BY <1>1 DEF IInv, AllSane, Sane
  <1>4. DeletionIsFinal'
    <2>1. ASSUME Adopted(obj), NEW i \in 1 .. n
          PROVE  "deleting" \notin log[i]
      BY <1>1, <2>1 DEF IInv, DeletionIsFinal, Adopted
    <2>2. \A i, j \in 1 .. n + 1 : i < j /\ "deleting" \in log'[i] => ~Adopted(log'[j])
      BY <1>1, <2>1 DEF IInv, DeletionIsFinal
    <2>3. "deleting" \in snap => ~Adopted(obj)
      BY <1>1 DEF IInv, DeletionIsFinal
    <2>4. "deleting" \in snap' => \A j \in 1 .. n + 1 : ~Adopted(log'[j])
      BY <1>1, <2>3 DEF IInv, DeletionIsFinal
    <2>5. QED
      BY <1>1, <2>2, <2>4 DEF DeletionIsFinal, Adopted
  <1>5. CleanupReadsDeletion'
    <2>1. ASSUME "Deleted" \in obj, NEW i \in 1 .. n
          PROVE  ~Adopted(log[i]) /\ ~Adopted(snap)
      <3>1. CASE "Deleted" \in Server
        <4>1. ~Adopted(Server)
          BY <1>1, <3>1 DEF IInv, AllSane, Sane, Adopted
        <4>2. QED
          BY <1>1, <3>1, <4>1 DEF IInv, CleanupReadsDeletion
      <3>2. CASE "deleting" \in snap
        BY <3>2 DEF IInv, DeletionIsFinal, Adopted
      <3>3. QED
        BY <2>1, <3>1, <3>2
    <2>2. \A i, j \in 1 .. n + 1 : i < j /\ Adopted(log'[i]) => "Deleted" \notin log'[j]
      BY <1>1, <2>1 DEF IInv, CleanupReadsDeletion
    <2>3. Adopted(snap) => \A j \in 1 .. n + 1 : "Deleted" \notin log'[j]
      BY <1>1, <2>1 DEF IInv, CleanupReadsDeletion
    <2>4. Adopted(snap') => \A j \in 1 .. n + 1 : "Deleted" \notin log'[j]
      BY <2>3 DEF Adopted
    <2>5. QED
      BY <1>1, <2>2, <2>4 DEF CleanupReadsDeletion, Adopted
  <1>6. WorkIsCovered'
    <2>1. Phase(kind, obj) \in Working => "finalizer" \in obj
      BY PhaseFacts DEF IInv, TypeOK
    <2>2. \A i \in 1 .. n + 1 : Phase(kind, log'[i]) \in Working => "finalizer" \in obj
      BY <1>1, <2>1 DEF IInv, WorkIsCovered
    <2>3. pc' \in Working \cup {"patchStatus"} => "finalizer" \in obj
      BY <1>1 DEF IInv, WorkIsCovered, Working
    <2>4. QED
      BY <1>1, <2>2, <2>3 DEF WorkIsCovered, Phase, isResourceSuspended, isResourceDeleted
  <1>7. CleanWhenDeleted'
    <2>1. \A i \in 1 .. n + 1 : "Deleted" \in log'[i] => ext = {}
      BY <1>1 DEF IInv, CleanWhenDeleted, DeletedMeansClean, isResourceDeleted
    <2>2. QED
      BY <1>1, <2>1 DEF IInv, CleanWhenDeleted, DeletedMeansClean, isResourceDeleted
  <1>8. NoLeak'
    BY <1>1 DEF IInv, NoLeak
  <1>9. QED
    BY <1>2, <1>3, <1>4, <1>5, <1>6, <1>7, <1>8 DEF IInv

\* Every step of the loop and of its environment keeps the invariant.
LEMMA InvStep == OneOwner /\ IInv /\ [Next]_vars => IInv'
  <1> SUFFICES ASSUME OneOwner, IInv, [Next]_vars
               PROVE  IInv'
    OBVIOUS
  <1>k. kind' = kind
    BY KindStays
  <1> USE <1>k
  <1> USE LifecycleAssumption
  <1>t. TypeOK'
    BY TypeStep DEF IInv
  <1>v. /\ kind \in Kinds
        /\ Len(log) \in Nat /\ Len(log) >= 1
        /\ \A i \in 1 .. Len(log) : log[i] \in SUBSET Marks
        /\ Server = log[Len(log)] /\ Server \in SUBSET Marks /\ Sane(kind, Server)
        /\ Cached = log[1] /\ Cached \in SUBSET Marks /\ Sane(kind, Cached)
        /\ snap \in SUBSET Marks /\ Sane(kind, snap) /\ conds \in SUBSET Conditions
    BY DEF IInv, TypeOK, Server, Cached, AllSane
  <1>1. CASE Create
    <2>1. PICK o \in SUBSET ({"suspend"} \cup Foreign(kind)) : Write(o \cup {"exists"})
      BY <1>1 DEF Create
    <2>2. /\ o \cup {"exists"} \in SUBSET Marks /\ Sane(kind, o \cup {"exists"})
          /\ "finalizer" \notin o \cup {"exists"} /\ "Deleted" \notin o \cup {"exists"}
      BY DEF Marks, Sane, Foreign
    <2>3. QED
      BY <1>1, <1>t, <1>v, <2>1, <2>2, Extend DEF Create, Write, Adopted
  <1>2. CASE Edit
    <2>1. PICK obj \in {Server, Server \cup {"suspend"}, Server \ {"suspend"}} : Write(obj)
      BY <1>2 DEF Edit
    <2>2. /\ obj \in SUBSET Marks /\ Sane(kind, obj)
          /\ "finalizer" \in obj <=> "finalizer" \in Server
          /\ "deleting" \in obj <=> "deleting" \in Server
          /\ "Deleted" \in obj <=> "Deleted" \in Server
      BY <1>2, <1>v DEF Marks, Sane, Edit
    <2>3. QED
      BY <1>2, <1>t, <1>v, <2>1, <2>2, Extend DEF Edit, Write, Adopted
  <1>3. CASE Delete
    <2> DEFINE obj == Collect(Server \cup {"deleting"})
    <2>1. /\ obj \in SUBSET Marks /\ Sane(kind, obj)
          /\ "finalizer" \in obj <=> "finalizer" \in Server
          /\ ~Adopted(obj)
          /\ "Deleted" \in obj => "Deleted" \in Server
      BY <1>3, <1>v DEF Marks, Sane, Delete, Collect, Adopted
    <2>2. QED
      BY <1>3, <1>t, <1>v, <2>1, Extend DEF Delete, Write
  <1>4. CASE ForeignDone
    <2> DEFINE obj == Collect(Server \ {"foreign"})
    <2>1. /\ obj \in SUBSET Marks /\ Sane(kind, obj)
          /\ "finalizer" \in obj <=> "finalizer" \in Server
          /\ ~Adopted(obj)
          /\ "Deleted" \in obj => "Deleted" \in Server
      BY <1>4, <1>v DEF Marks, Sane, ForeignDone, Collect, Adopted
    <2>2. QED
      BY <1>4, <1>t, <1>v, <2>1, Extend DEF ForeignDone, Write
  <1>5. CASE Deliver
    <2>1. /\ Len(log) > 1 /\ Len(log') = Len(log) - 1
          /\ \A i \in 1 .. Len(log) - 1 : log'[i] = log[i + 1]
          /\ Server' = Server
      BY <1>5, <1>v, TailLog DEF Deliver, Server, IInv, TypeOK
    <2>2. UNCHANGED <<pc, snap, rv, conds, requeue, ext, disturbed>>
      BY <1>5 DEF Deliver
    <2>3. FreshRead' /\ InBranch'
      BY <1>v, <2>1, <2>2 DEF IInv, FreshRead, InBranch, Phase, isResourceSuspended, isResourceDeleted
    <2>4. AllSane'
      BY <1>v, <2>1, <2>2 DEF IInv, AllSane, Sane
    <2>5. DeletionIsFinal'
      <3>1. \A i, j \in 1 .. Len(log') : i < j /\ "deleting" \in log'[i] => ~Adopted(log'[j])
        BY <1>v, <2>1 DEF IInv, DeletionIsFinal
      <3>2. "deleting" \in snap => \A j \in 1 .. Len(log') : ~Adopted(log'[j])
        BY <1>v, <2>1 DEF IInv, DeletionIsFinal
      <3>3. QED
        BY <2>2, <3>1, <3>2 DEF DeletionIsFinal, Adopted
    <2>6. CleanupReadsDeletion'
      <3>1. \A i, j \in 1 .. Len(log') : i < j /\ Adopted(log'[i]) => "Deleted" \notin log'[j]
        BY <1>v, <2>1 DEF IInv, CleanupReadsDeletion
      <3>2. Adopted(snap) => \A j \in 1 .. Len(log') : "Deleted" \notin log'[j]
        BY <1>v, <2>1 DEF IInv, CleanupReadsDeletion
      <3>3. QED
        BY <2>2, <3>1, <3>2 DEF CleanupReadsDeletion, Adopted
    <2>7. WorkIsCovered'
      BY <1>v, <2>1, <2>2 DEF IInv, WorkIsCovered, Phase, isResourceSuspended, isResourceDeleted
    <2>8. CleanWhenDeleted' /\ NoLeak'
      BY <1>v, <2>1, <2>2 DEF IInv, CleanWhenDeleted, DeletedMeansClean, isResourceDeleted, NoLeak
    <2>9. QED
      BY <1>t, <2>3, <2>4, <2>5, <2>6, <2>7, <2>8 DEF IInv
  <1>6. CASE UNCHANGED <<log, run>> /\ ext' \in SUBSET ext
    <2>1. UNCHANGED <<log, pc, snap, rv, conds>> /\ Server' = Server
      BY <1>6 DEF run, Server
    <2>2. FreshRead' /\ InBranch' /\ AllSane'
      BY <2>1 DEF IInv, FreshRead, InBranch, AllSane, Sane, Phase, isResourceSuspended, isResourceDeleted
    <2>3. DeletionIsFinal' /\ CleanupReadsDeletion'
      BY <2>1 DEF IInv, DeletionIsFinal, CleanupReadsDeletion, Adopted
    <2>4. WorkIsCovered'
      BY <2>1 DEF IInv, WorkIsCovered, Phase, isResourceSuspended, isResourceDeleted
    <2>5. CleanWhenDeleted' /\ NoLeak'
      BY <1>6, <2>1 DEF IInv, CleanWhenDeleted, DeletedMeansClean, isResourceDeleted, NoLeak
    <2>6. QED
      BY <1>t, <2>2, <2>3, <2>4, <2>5 DEF IInv
  <1>7. CASE Restart
    <2>1. /\ Len(log') = 1 /\ log'[1] = Server /\ Server' = Server
          /\ pc' = "idle" /\ snap' = {} /\ rv' = "stale" /\ conds' = {} /\ ext' = ext
      BY <1>7, <1>v DEF Restart, Server
    <2>2. FreshRead' /\ InBranch' /\ AllSane'
      BY <1>v, <2>1 DEF FreshRead, InBranch, AllSane, Sane
    <2>3. DeletionIsFinal' /\ CleanupReadsDeletion'
      BY <2>1 DEF DeletionIsFinal, CleanupReadsDeletion, Adopted
    <2>4. WorkIsCovered'
      BY <1>v, <2>1 DEF IInv, WorkIsCovered, Phase, Working, isResourceSuspended, isResourceDeleted
    <2>5. CleanWhenDeleted' /\ NoLeak'
      BY <1>v, <2>1 DEF IInv, CleanWhenDeleted, DeletedMeansClean, isResourceDeleted, NoLeak
    <2>6. QED
      BY <1>t, <2>2, <2>3, <2>4, <2>5 DEF IInv
  <1>8. CASE Reconcile /\ Phase(kind, Cached) # "idle"
    <2>1. /\ UNCHANGED <<log, ext>> /\ Server' = Server
          /\ pc' = Phase(kind, Cached) /\ snap' = Cached /\ conds' = Cached \cap Conditions
          /\ rv' = "current" => Len(log) = 1
          /\ pc' \notin {"idle", "patchStatus"}
      BY <1>8, <1>v, PhaseFacts DEF Reconcile, Server, run, Phases
    <2>2. FreshRead' /\ InBranch' /\ AllSane'
      <3>1. FreshRead' /\ AllSane'
        BY <1>v, <2>1 DEF IInv, FreshRead, AllSane, Sane
      <3>2. QED
        BY <2>1, <3>1 DEF InBranch, Phase, isResourceSuspended, isResourceDeleted
    <2>3. DeletionIsFinal' /\ CleanupReadsDeletion'
      <3>1. "deleting" \in Cached => \A j \in 1 .. Len(log) : ~Adopted(log[j])
        BY <1>v DEF IInv, DeletionIsFinal, Adopted
      <3>2. Adopted(Cached) => \A j \in 1 .. Len(log) : "Deleted" \notin log[j]
        BY <1>v DEF IInv, CleanupReadsDeletion, AllSane, Sane, Adopted
      <3>3. QED
        BY <2>1, <3>1, <3>2 DEF IInv, DeletionIsFinal, CleanupReadsDeletion, Adopted
    <2>4. WorkIsCovered'
      BY <1>v, <2>1 DEF IInv, WorkIsCovered, Phase, Working, isResourceSuspended, isResourceDeleted
    <2>5. CleanWhenDeleted' /\ NoLeak'
      BY <1>v, <2>1 DEF IInv, CleanWhenDeleted, DeletedMeansClean, isResourceDeleted, NoLeak
    <2>6. QED
      BY <1>t, <2>2, <2>3, <2>4, <2>5 DEF IInv
  <1>9. CASE UNCHANGED <<log, ext>> /\ \E again \in SUBSET Keys : Return(again)
    <2>1. /\ UNCHANGED <<log, ext>> /\ Server' = Server
          /\ pc' = "idle" /\ snap' = {} /\ rv' = "stale" /\ conds' = {}
      BY <1>9 DEF Return, Server
    <2>2. FreshRead' /\ InBranch' /\ AllSane'
      BY <2>1 DEF IInv, FreshRead, InBranch, AllSane, Sane
    <2>3. DeletionIsFinal' /\ CleanupReadsDeletion'
      BY <2>1 DEF IInv, DeletionIsFinal, CleanupReadsDeletion, Adopted
    <2>4. WorkIsCovered'
      BY <2>1 DEF IInv, WorkIsCovered, Working, Phase, isResourceSuspended, isResourceDeleted
    <2>5. CleanWhenDeleted' /\ NoLeak'
      BY <2>1 DEF IInv, CleanWhenDeleted, DeletedMeansClean, isResourceDeleted, NoLeak
    <2>6. QED
      BY <1>t, <2>2, <2>3, <2>4, <2>5 DEF IInv
  <1>10. CASE ensureFinalizer
    <2>1. CASE rv = "current" /\ Update(snap \cup {"finalizer"})
      <3> DEFINE obj == snap \cup {"finalizer"}
      <3>1. /\ Len(log) = 1 /\ log[1] = snap
            /\ "exists" \in snap /\ "deleting" \notin snap /\ "finalizer" \notin snap
            /\ "Deleted" \notin snap
        BY <1>10, <1>v, <2>1, PhaseFacts DEF ensureFinalizer, IInv, FreshRead, InBranch, Sane
      <3>2. /\ log' = Append(log, obj) /\ obj \in SUBSET Marks /\ Sane(kind, obj)
            /\ "Deleted" \notin obj /\ "deleting" \notin obj
            /\ ext' = ext /\ pc' = "idle" /\ snap' = {} /\ rv' = "stale" /\ conds' = {}
        BY <1>10, <1>v, <2>1, <3>1 DEF ensureFinalizer, Update, Return, Collect, Marks, Sane
      <3>3. /\ Len(log') = 2 /\ log'[1] = snap /\ log'[2] = obj /\ Server' = obj
        <4>1. log \in Seq(SUBSET Marks) /\ 1 \in 1 .. Len(log)
          BY <3>1 DEF IInv, TypeOK
        <4>2. /\ Len(Append(log, obj)) = Len(log) + 1
              /\ \A i \in 1 .. Len(log) : Append(log, obj)[i] = log[i]
              /\ Append(log, obj)[Len(log) + 1] = obj
          BY <3>2, <4>1, AppendLog
        <4>3. Len(log') = 2 /\ log'[1] = snap /\ log'[2] = obj
          BY <3>1, <3>2, <4>1, <4>2
        <4>4. QED
          BY <4>3 DEF Server
      <3>4. FreshRead' /\ InBranch' /\ AllSane'
        BY <1>v, <3>2, <3>3 DEF FreshRead, InBranch, AllSane, Sane
      <3>5. DeletionIsFinal' /\ CleanupReadsDeletion'
        BY <3>1, <3>2, <3>3 DEF DeletionIsFinal, CleanupReadsDeletion, Adopted
      <3>6. WorkIsCovered'
        BY <3>2, <3>3 DEF WorkIsCovered, Working
      <3>7. CleanWhenDeleted' /\ NoLeak'
        BY <3>1, <3>2, <3>3 DEF CleanWhenDeleted, DeletedMeansClean, isResourceDeleted, NoLeak
      <3>8. QED
        BY <1>t, <3>4, <3>5, <3>6, <3>7 DEF IInv
    <2>2. CASE UNCHANGED log /\ \E again \in SUBSET Keys : Return(again)
      BY <1>9, <1>10, <2>2 DEF ensureFinalizer
    <2>3. QED
      BY <1>10, <2>1, <2>2 DEF ensureFinalizer, Update
  <1>11. CASE removeFinalizer
    <2>1. CASE rv = "current" /\ Update(snap \ {"finalizer"})
      <3> DEFINE obj == Collect(snap \ {"finalizer"})
      <3>1. /\ Len(log) = 1 /\ log[1] = snap
            /\ "deleting" \in snap /\ "Deleted" \in snap /\ ext = {}
            /\ Phase(kind, snap) \notin Working
        BY <1>11, <1>v, <2>1, PhaseFacts
        DEF removeFinalizer, IInv, FreshRead, InBranch, CleanWhenDeleted, Working
      <3>2. /\ log' = Append(log, obj) /\ obj \in SUBSET Marks /\ Sane(kind, obj)
            /\ "finalizer" \notin obj /\ ~Adopted(obj)
            /\ ext' = ext /\ pc' = "idle" /\ snap' = {} /\ rv' = "stale" /\ conds' = {}
        BY <1>11, <1>v, <2>1, <3>1 DEF removeFinalizer, Update, Return, Collect, Marks, Sane, Adopted
      <3>3. /\ Len(log') = 2 /\ log'[1] = snap /\ log'[2] = obj /\ Server' = obj
        <4>1. log \in Seq(SUBSET Marks) /\ 1 \in 1 .. Len(log)
          BY <3>1 DEF IInv, TypeOK
        <4>2. /\ Len(Append(log, obj)) = Len(log) + 1
              /\ \A i \in 1 .. Len(log) : Append(log, obj)[i] = log[i]
              /\ Append(log, obj)[Len(log) + 1] = obj
          BY <3>2, <4>1, AppendLog
        <4>3. Len(log') = 2 /\ log'[1] = snap /\ log'[2] = obj
          BY <3>1, <3>2, <4>1, <4>2
        <4>4. QED
          BY <4>3 DEF Server
      <3>4. FreshRead' /\ InBranch' /\ AllSane'
        <4>1. \A i \in 1 .. 2 : Sane(kind, log'[i])
          BY <1>v, <3>2, <3>3
        <4>2. QED
          BY <3>2, <3>3, <4>1 DEF FreshRead, InBranch, AllSane, Sane
      <3>5. DeletionIsFinal' /\ CleanupReadsDeletion'
        BY <3>1, <3>2, <3>3 DEF DeletionIsFinal, CleanupReadsDeletion, Adopted
      <3>6. WorkIsCovered'
        <4>1. Phase(kind, obj) \notin Working
          BY <1>v, <3>2, PhaseFacts
        <4>2. pc' \notin Working \cup {"patchStatus"}
          BY <3>2 DEF Working
        <4>3. \A i \in 1 .. 2 : Phase(kind, log'[i]) \notin Working
          BY <3>1, <3>3, <4>1
        <4>4. QED
          BY <3>3, <4>2, <4>3 DEF WorkIsCovered, Phase, isResourceSuspended, isResourceDeleted
      <3>7. CleanWhenDeleted' /\ NoLeak'
        BY <3>1, <3>2, <3>3 DEF CleanWhenDeleted, DeletedMeansClean, isResourceDeleted, NoLeak
      <3>8. QED
        BY <1>t, <3>4, <3>5, <3>6, <3>7 DEF IInv
    <2>2. CASE UNCHANGED log /\ \E again \in SUBSET Keys : Return(again)
      BY <1>9, <1>11, <2>2 DEF removeFinalizer
    <2>3. QED
      BY <1>11, <2>1, <2>2 DEF removeFinalizer, Update
  <1>12. ASSUME NEW cs \in SUBSET Conditions, NEW again \in SUBSET Keys, Decide(cs, again),
                pc \in Working,
                "Deleted" \in cs => ext' = {} /\ "deleting" \in snap,
                ext' \subseteq ext \/ Adopted(snap)
         PROVE  IInv'
    <2>1. /\ pc' = "patchStatus" /\ conds' = cs /\ UNCHANGED <<log, snap, rv>> /\ Server' = Server
      BY <1>12 DEF Decide, Server
    <2>2. FreshRead' /\ InBranch' /\ AllSane'
      <3>1. Phase(kind, snap) \in Working
        BY <1>12 DEF IInv, InBranch, Working
      <3>2. QED
        BY <2>1, <3>1 DEF IInv, FreshRead, InBranch, AllSane, Sane, Phase, isResourceSuspended, isResourceDeleted
    <2>3. DeletionIsFinal' /\ CleanupReadsDeletion'
      BY <2>1 DEF IInv, DeletionIsFinal, CleanupReadsDeletion, Adopted
    <2>4. WorkIsCovered' /\ "finalizer" \in Server
      BY <1>12, <2>1 DEF IInv, WorkIsCovered, Phase, isResourceSuspended, isResourceDeleted
    <2>5. CleanWhenDeleted'
      <3>1. CASE ext' \subseteq ext
        BY <1>12, <2>1, <3>1 DEF IInv, CleanWhenDeleted, DeletedMeansClean, isResourceDeleted
      <3>2. CASE Adopted(snap)
        BY <1>12, <1>v, <2>1, <3>2
        DEF IInv, CleanWhenDeleted, DeletedMeansClean, isResourceDeleted, CleanupReadsDeletion, Adopted, Sane
      <3>3. QED
        BY <1>12, <3>1, <3>2
    <2>6. NoLeak'
      BY <2>1, <2>4 DEF NoLeak
    <2>7. QED
      BY <1>t, <2>2, <2>3, <2>4, <2>5, <2>6 DEF IInv
  <1>13. CASE ensureCreated
    <2>1. Adopted(snap) /\ "Deleted" \notin conds
      BY <1>13, <1>v, PhaseFacts DEF ensureCreated, IInv, InBranch, Adopted, Sane
    <2>2. QED
      BY <1>12, <1>13, <1>v, <2>1 DEF ensureCreated, Working
  <1>14. CASE ensureDeleted
    <2>1. "deleting" \in snap
      BY <1>14, <1>v, PhaseFacts DEF ensureDeleted, IInv, InBranch
    <2>2. /\ conds \cup {"Deleted"} \in SUBSET Conditions /\ conds \ {"Deleted"} \in SUBSET Conditions
      BY <1>v DEF Conditions
    <2>3. QED
      BY <1>12, <1>14, <2>1, <2>2 DEF ensureDeleted, Working
  <1>15. CASE ensureSuspended
    <2>1. /\ conds \cup {"Suspended"} \in SUBSET Conditions /\ conds \ {"Suspended"} \in SUBSET Conditions
      BY <1>v DEF Conditions
    <2>2. "Deleted" \in conds => ext = {} /\ "deleting" \in snap
      BY <1>15, <1>v DEF ensureSuspended, IInv, InBranch, CleanWhenDeleted, Sane
    <2>3. QED
      BY <1>12, <1>15, <2>1, <2>2 DEF ensureSuspended, Working
  <1>16. CASE patchStatus
    <2> DEFINE obj == (Server \ Conditions) \cup conds
    <2>1. CASE log' = Append(log, obj) /\ Return(requeue)
      <3>1. "finalizer" \in Server /\ ("Deleted" \in conds => ext = {} /\ "deleting" \in snap)
        BY <1>16 DEF patchStatus, IInv, WorkIsCovered, CleanWhenDeleted
      <3>2. "deleting" \in snap => "deleting" \in Server
        BY <1>v, <3>1 DEF IInv, DeletionIsFinal, Adopted
      <3>3. /\ obj \in SUBSET Marks /\ Sane(kind, obj)
            /\ "finalizer" \in obj <=> "finalizer" \in Server
            /\ "deleting" \in obj <=> "deleting" \in Server
            /\ "Deleted" \in obj => "deleting" \in snap /\ ext = {}
        BY <1>v, <3>1, <3>2 DEF Marks, Sane, Conditions
      <3>4. ext' = ext /\ rv' = "stale" /\ pc' = "idle" /\ snap' = {} /\ conds' = {}
        BY <1>16, <2>1 DEF patchStatus, Return
      <3>5. QED
        BY <1>t, <2>1, <3>3, <3>4, Extend DEF Adopted
    <2>2. CASE UNCHANGED log /\ \E again \in SUBSET Keys : Return(again)
      BY <1>9, <1>16, <2>2 DEF patchStatus
    <2>3. CASE log' = Append(log, Server) /\ Return(requeue)
      <3>1. ext' = ext /\ rv' = "stale" /\ pc' = "idle" /\ snap' = {} /\ conds' = {}
        BY <1>16, <2>3 DEF patchStatus, Return
      <3>2. QED
        BY <1>t, <1>v, <2>3, <3>1, Extend
    <2>4. QED
      BY <1>16, <2>1, <2>2, <2>3 DEF patchStatus, IInv, TypeOK
  <1>17. CASE Resync
    BY <1>6, <1>17 DEF Resync
  <1>18. CASE ResourceGone
    BY <1>6, <1>18 DEF ResourceGone
  <1>19. CASE Reconcile
    BY <1>6, <1>8, <1>19 DEF Reconcile
  <1>20. CASE UNCHANGED vars
    BY <1>6, <1>20 DEF vars, run
  <1>21. QED
    BY <1>1, <1>2, <1>3, <1>4, <1>5, <1>7, <1>10, <1>11, <1>13, <1>14, <1>15,
       <1>16, <1>17, <1>18, <1>19, <1>20 DEF Next, Step

\* The invariant holds initially.
LEMMA InvInit == Init => IInv
  <1> SUFFICES ASSUME Init PROVE IInv
    OBVIOUS
  <1>1. TypeOK
    <2>1. <<{}>> \in Seq(SUBSET Marks) /\ Len(<<{}>>) = 1
      OBVIOUS
    <2>2. QED
      BY <2>1, LifecycleAssumption DEF Init, TypeOK, Phases
  <1>2. Len(log) = 1 /\ log[1] = {} /\ Server = {} /\ snap = {} /\ ext = {} /\ pc = "idle" /\ rv = "stale"
    BY DEF Init, Server
  <1>3. Phase(kind, {}) = "idle"
    BY DEF Phase
  <1>4. FreshRead /\ InBranch /\ AllSane /\ DeletionIsFinal /\ CleanupReadsDeletion
    BY <1>2 DEF FreshRead, InBranch, AllSane, Sane, DeletionIsFinal, CleanupReadsDeletion, Adopted
  <1>5. WorkIsCovered
    BY <1>2, <1>3 DEF WorkIsCovered, Working
  <1>6. CleanWhenDeleted /\ NoLeak
    BY <1>2 DEF CleanWhenDeleted, DeletedMeansClean, isResourceDeleted, NoLeak
  <1>7. QED
    BY <1>1, <1>4, <1>5, <1>6 DEF IInv

-----------------------------------------------------------------------------
(* What follows from the invariant. *)

\* The finalizer covers everything EnsureCreated has made: no lag of the cache,
\* no restart and no re-creation under the same name leaves something behind.
THEOREM NothingLeaks ==
    ASSUME OneOwner
    PROVE  Spec => []NoLeak
  <1>1. IInv /\ [Next]_vars => IInv'
    BY InvStep
  <1>2. IInv => NoLeak
    BY DEF IInv
  <1>3. QED
    BY <1>1, <1>2, InvInit, PTL DEF Spec

\* Wherever the Deleted condition is visible, nothing is left: the reconcile that
\* acts on it by dropping the finalizer may trust it, however old its read is.
THEOREM DeletedIsTrustworthy ==
    ASSUME OneOwner
    PROVE  Spec => []DeletedMeansClean
  <1>1. IInv /\ [Next]_vars => IInv'
    BY InvStep
  <1>2. IInv => DeletedMeansClean
    BY DEF IInv, CleanWhenDeleted
  <1>3. QED
    BY <1>1, <1>2, InvInit, PTL DEF Spec

-----------------------------------------------------------------------------
(* Suspension. *)

\* Every step keeps a reconcile in the branch its snapshot asked for, whoever
\* else has finalizers on the object.
LEMMA BranchStep == TypeOK /\ InBranch /\ [Next]_vars => InBranch'
  <1> SUFFICES ASSUME TypeOK, InBranch, [Next]_vars
               PROVE  InBranch'
    OBVIOUS
  <1>k. kind' = kind
    BY KindStays
  <1> USE <1>k
  <1> USE DEF Phase, isResourceSuspended, isResourceDeleted
  <1>1. ASSUME NEW again, Return(again)
        PROVE  InBranch'
    BY <1>1 DEF InBranch, Return
  <1>2. ASSUME NEW cs, NEW again, Decide(cs, again), pc \in Working
        PROVE  InBranch'
    BY <1>2 DEF InBranch, Decide, Working
  <1>3. ASSUME UNCHANGED <<pc, snap, conds>>, rv' = rv \/ rv' = "stale"
        PROVE  InBranch'
    BY <1>3 DEF InBranch
  <1>4. CASE Create \/ Edit \/ Delete \/ ForeignDone
    BY <1>4, <1>3 DEF Create, Edit, Delete, ForeignDone, Write
  <1>5. CASE Deliver \/ Resync \/ ResourceGone \/ UNCHANGED vars
    BY <1>5, <1>3 DEF Deliver, Resync, ResourceGone, run, vars
  <1>6. CASE Restart
    BY <1>6 DEF Restart, InBranch
  <1>7. CASE Reconcile
    <2>1. CASE UNCHANGED run
      BY <2>1, <1>3 DEF run
    <2>2. CASE /\ Phase(kind, Cached) # "idle" /\ pc' = Phase(kind, Cached) /\ snap' = Cached
               /\ conds' = Cached \cap Conditions
      <3>1. Phase(kind, Cached) # "patchStatus"
        OBVIOUS
      <3>2. QED
        BY <2>2, <3>1 DEF InBranch
    <2>3. QED
      BY <1>7, <2>1, <2>2 DEF Reconcile
  <1>8. CASE ensureFinalizer \/ removeFinalizer \/ patchStatus
    BY <1>8, <1>1 DEF ensureFinalizer, removeFinalizer, patchStatus, Update
  <1>9. CASE ensureCreated \/ ensureDeleted \/ ensureSuspended
    BY <1>9, <1>2 DEF ensureCreated, ensureDeleted, ensureSuspended, Working
  <1>10. QED
    BY <1>4, <1>5, <1>6, <1>7, <1>8, <1>9 DEF Next, Step

\* While the annotation is visible and was read, no step lets go of the finalizer
\* and none but the end of a resource changes what exists.
LEMMA SuspendedStep ==
    ASSUME TypeOK, InBranch, [Next]_vars,
           CanBeSuspended(kind), isResourceSuspended(Cached),
           pc = "idle" \/ isResourceSuspended(snap)
    PROVE  /\ ext' # ext => ext' \subseteq ext /\ pc = pc'
           /\ "finalizer" \in Server => "finalizer" \in log'[Len(log')]
  <1> USE LifecycleAssumption
  <1>v. /\ Len(log) \in Nat /\ Len(log) >= 1 /\ log \in Seq(SUBSET Marks)
        /\ Server = log[Len(log)] /\ Server \in SUBSET Marks
    BY DEF TypeOK, Server
  <1>a. ASSUME NEW obj \in SUBSET Marks, log' = Append(log, obj)
        PROVE  log'[Len(log')] = obj
    BY <1>a, <1>v, AppendLog
  <1>p. pc \in {"idle", "ensureFinalizer", "ensureSuspended", "patchStatus"}
    BY DEF InBranch, Phase, isResourceSuspended
  <1>1. CASE Create
    <2>1. "finalizer" \notin Server /\ ext' = ext
      BY <1>1 DEF Create
    <2>2. QED
      BY <2>1
  <1>2. CASE Edit
    <2>1. PICK obj \in {Server, Server \cup {"suspend"}, Server \ {"suspend"}} : log' = Append(log, obj)
      BY <1>2 DEF Edit, Write
    <2>2. obj \in SUBSET Marks /\ ("finalizer" \in Server => "finalizer" \in obj) /\ ext' = ext
      BY <1>2, <1>v DEF Marks, Edit
    <2>3. QED
      BY <1>a, <2>1, <2>2
  <1>3. CASE Delete
    <2>1. PICK obj : obj = Collect(Server \cup {"deleting"})
      OBVIOUS
    <2>2. obj \in SUBSET Marks /\ ("finalizer" \in Server => "finalizer" \in obj)
      BY <1>v, <2>1 DEF Marks, Collect
    <2>3. log' = Append(log, obj) /\ ext' = ext
      BY <1>3, <2>1 DEF Delete, Write
    <2>4. QED
      BY <1>a, <2>2, <2>3
  <1>4. CASE ForeignDone
    <2>1. PICK obj : obj = Collect(Server \ {"foreign"})
      OBVIOUS
    <2>2. obj \in SUBSET Marks /\ ("finalizer" \in Server => "finalizer" \in obj)
      BY <1>v, <2>1 DEF Marks, Collect
    <2>3. log' = Append(log, obj) /\ ext' = ext
      BY <1>4, <2>1 DEF ForeignDone, Write
    <2>4. QED
      BY <1>a, <2>2, <2>3
  <1>5. CASE Deliver
    <2>1. Len(log) > 1 /\ log' = Tail(log) /\ ext' = ext
      BY <1>5 DEF Deliver
    <2>2. log'[Len(log')] = Server
      BY <1>v, <2>1, TailLog
    <2>3. QED
      BY <2>1, <2>2
  <1>6. CASE Restart
    BY <1>6 DEF Restart
  <1>7. CASE ResourceGone
    BY <1>7, <1>v DEF ResourceGone, run
  <1>8. CASE Resync \/ Reconcile \/ ensureSuspended \/ UNCHANGED vars
    <2>1. log' = log /\ ext' = ext
      BY <1>8 DEF Resync, Reconcile, ensureSuspended, Decide, vars
    <2>2. QED
      BY <1>v, <2>1
  <1>9. CASE ensureFinalizer
    <2>1. CASE log' = log
      BY <1>9, <1>v, <2>1 DEF ensureFinalizer
    <2>2. CASE log' = Append(log, Collect(snap \cup {"finalizer"}))
      <3>1. PICK obj : obj = Collect(snap \cup {"finalizer"})
        OBVIOUS
      <3>2. obj \in SUBSET Marks /\ "finalizer" \in obj
        BY <3>1 DEF Marks, Collect, TypeOK
      <3>3. QED
        BY <1>9, <1>a, <2>2, <3>1, <3>2 DEF ensureFinalizer
    <2>3. QED
      BY <1>9, <2>1, <2>2 DEF ensureFinalizer, Update
  <1>10. CASE patchStatus
    <2>1. CASE log' = log
      BY <1>10, <1>v, <2>1 DEF patchStatus
    <2>2. CASE log' = Append(log, Server)
      BY <1>10, <1>a, <1>v, <2>2 DEF patchStatus
    <2>3. CASE log' = Append(log, (Server \ Conditions) \cup conds)
      <3>1. PICK obj : obj = (Server \ Conditions) \cup conds
        OBVIOUS
      <3>2. obj \in SUBSET Marks /\ ("finalizer" \in Server => "finalizer" \in obj)
        BY <1>v, <3>1 DEF Marks, Conditions, TypeOK
      <3>3. QED
        BY <1>10, <1>a, <2>3, <3>1, <3>2 DEF patchStatus
    <2>4. QED
      BY <1>10, <2>1, <2>2, <2>3 DEF patchStatus
  <1>11. CASE ensureCreated \/ ensureDeleted \/ removeFinalizer
    BY <1>11, <1>p DEF ensureCreated, ensureDeleted, removeFinalizer
  <1>12. QED
    BY <1>1, <1>2, <1>3, <1>4, <1>5, <1>6, <1>7, <1>8, <1>9, <1>10, <1>11 DEF Next, Step

\* A suspended object is left alone, its deletion included: no reconcile that has
\* read the annotation makes or removes anything or lets go of the finalizer.
\* This needs no OneOwner.
THEOREM SuspensionHolds == Spec => SuspensionBlocks
  <1>1. Init => InBranch
    BY DEF Init, InBranch
  <1>2. TypeOK /\ InBranch /\ [Next]_vars => InBranch'
    BY BranchStep
  <1>3. TypeOK /\ InBranch /\ [Next]_vars =>
          [(/\ CanBeSuspended(kind)
            /\ isResourceSuspended(Cached)
            /\ pc = "idle" \/ isResourceSuspended(snap))
           => /\ ext' # ext => ext' \subseteq ext /\ pc = pc'
              /\ "finalizer" \in Server => "finalizer" \in log'[Len(log')]]_vars
    BY SuspendedStep
  <1>4. QED
    BY <1>1, <1>2, <1>3, TypeCorrect, PTL DEF Spec, SuspensionBlocks

-----------------------------------------------------------------------------
(* Refinement. *)

\* Every step of the loop is a step of the abstract contract, or changes nothing
\* that the contract sees.
LEMMA StepRefines ==
    ASSUME OneOwner, IInv, IInv', [Next]_vars
    PROVE  [Managed!Next]_(Managed!vars)
  <1> USE LifecycleAssumption
  <1>v. /\ kind \in Kinds
        /\ Len(log) \in Nat /\ Len(log) >= 1 /\ log \in Seq(SUBSET Marks)
        /\ Server = log[Len(log)] /\ Server \in SUBSET Marks
        /\ snap \in SUBSET Marks /\ conds \in SUBSET Conditions
    BY DEF IInv, TypeOK, Server
  <1>a. ASSUME NEW obj \in SUBSET Marks, log' = Append(log, obj)
        PROVE  Server' = obj
    BY <1>a, <1>v, AppendLog DEF Server
  <1>s. ASSUME ext' = ext,
               "finalizer" \in Server' <=> "finalizer" \in Server,
               "deleting" \in Server' <=> "deleting" \in Server
        PROVE  UNCHANGED Managed!vars
    BY <1>s DEF Managed!vars
  <1>l. ASSUME ext' = ext, log' = log
        PROVE  UNCHANGED Managed!vars
    BY <1>l, <1>s DEF Server
  <1>h. ASSUME "finalizer" \in Server, Server' = Server
        PROVE  Managed!Change
    <2>1. ext' \in SUBSET Resources
      BY DEF IInv, TypeOK
    <2>2. QED
      BY <1>h, <2>1 DEF Managed!Change
  <1>1. CASE Create
    <2>1. PICK o \in SUBSET ({"suspend"} \cup Foreign(kind)) : Write(o \cup {"exists"})
      BY <1>1 DEF Create
    <2>2. "finalizer" \notin Server /\ "finalizer" \notin Server' /\ ext' = ext
      <3> DEFINE obj == o \cup {"exists"}
      <3>1. obj \in SUBSET Marks /\ "finalizer" \notin obj
        BY DEF Marks, Foreign
      <3>2. log' = Append(log, obj) /\ Server = {} /\ ext' = ext
        BY <1>1, <2>1 DEF Create, Write
      <3> HIDE DEF obj
      <3>3. Server' = obj
        BY <1>a, <3>1, <3>2
      <3>4. QED
        BY <3>1, <3>2, <3>3
    <2>3. QED
      BY <2>2 DEF Managed!vars
  <1>2. CASE Edit
    <2>1. PICK obj \in {Server, Server \cup {"suspend"}, Server \ {"suspend"}} : Write(obj)
      BY <1>2 DEF Edit
    <2>2. obj \in SUBSET Marks
      BY <1>v DEF Marks
    <2>3. QED
      BY <1>2, <1>a, <1>s, <2>1, <2>2 DEF Edit, Write
  <1>3. CASE Delete
    <2> DEFINE obj == Collect(Server \cup {"deleting"})
    <2>1. obj \in SUBSET Marks /\ ("finalizer" \in Server => obj = Server \cup {"deleting"})
          /\ ("finalizer" \notin Server => "finalizer" \notin obj)
      BY <1>v DEF Marks, Collect
    <2>2. Server' = obj /\ ext' = ext /\ "deleting" \notin Server
      <3>1. log' = Append(log, obj)
        BY <1>3 DEF Delete, Write
      <3> HIDE DEF obj
      <3>2. Server' = obj
        BY <1>a, <2>1, <3>1
      <3>3. QED
        BY <1>3, <3>2 DEF Delete
    <2>3. CASE "finalizer" \in Server
      <3>1. "finalizer" \in Server' /\ "deleting" \in Server'
        BY <2>1, <2>2, <2>3
      <3>2. Managed!Close
        BY <2>2, <2>3, <3>1 DEF Managed!Close
      <3>3. QED
        BY <3>2 DEF Managed!Next
    <2>4. CASE "finalizer" \notin Server
      <3>1. "finalizer" \notin Server'
        BY <2>1, <2>2, <2>4
      <3>2. QED
        BY <2>2, <2>4, <3>1 DEF Managed!vars
    <2>5. QED
      BY <2>3, <2>4
  <1>4. CASE ForeignDone
    <2> DEFINE obj == Collect(Server \ {"foreign"})
    <2>1. obj \in SUBSET Marks /\ ("finalizer" \in Server => obj = Server \ {"foreign"})
          /\ ("finalizer" \notin Server => "finalizer" \notin obj)
      BY <1>v DEF Marks, Collect
    <2>2. Server' = obj /\ ext' = ext
      <3>1. log' = Append(log, obj)
        BY <1>4 DEF ForeignDone, Write
      <3> HIDE DEF obj
      <3>2. Server' = obj
        BY <1>a, <2>1, <3>1
      <3>3. QED
        BY <1>4, <3>2 DEF ForeignDone
    <2>3. CASE "finalizer" \in Server
      <3>1. "finalizer" \in Server' /\ ("deleting" \in Server' <=> "deleting" \in Server)
        BY <2>1, <2>2, <2>3
      <3>2. QED
        BY <1>s, <2>2, <2>3, <3>1
    <2>4. CASE "finalizer" \notin Server
      <3>1. "finalizer" \notin Server'
        BY <2>1, <2>2, <2>4
      <3>2. QED
        BY <2>2, <2>4, <3>1 DEF Managed!vars
    <2>5. QED
      BY <2>3, <2>4
  <1>5. CASE Deliver
    <2>1. Server' = Server /\ ext' = ext
      BY <1>5, <1>v, TailLog DEF Deliver, Server
    <2>2. QED
      BY <1>s, <2>1
  <1>6. CASE Resync
    BY <1>6, <1>l DEF Resync
  <1>7. CASE ResourceGone
    <2>1. "finalizer" \in Server /\ Server' = Server
      BY <1>7 DEF ResourceGone, Server, IInv, NoLeak
    <2>2. QED
      BY <1>h, <2>1 DEF Managed!Next
  <1>8. CASE Restart
    <2>1. Server' = Server /\ ext' = ext
      BY <1>8 DEF Restart, Server
    <2>2. QED
      BY <1>s, <2>1
  <1>9. CASE Reconcile
    BY <1>9, <1>l DEF Reconcile
  <1>10. CASE ensureFinalizer
    <2>1. CASE rv = "current" /\ Update(snap \cup {"finalizer"})
      <3>1. Server = snap /\ "exists" \in snap /\ "deleting" \notin snap /\ "finalizer" \notin snap
        BY <1>10, <1>v, <2>1, PhaseFacts DEF ensureFinalizer, IInv, FreshRead, InBranch
      <3>2. snap \cup {"finalizer"} \in SUBSET Marks /\ Collect(snap \cup {"finalizer"}) = snap \cup {"finalizer"}
        BY <1>v DEF Marks, Collect
      <3>3. Server' = snap \cup {"finalizer"} /\ ext' = ext
        <4>1. log' = Append(log, Collect(snap \cup {"finalizer"})) /\ ext' = ext
          BY <1>10, <2>1 DEF ensureFinalizer, Update
        <4>2. QED
          BY <1>a, <3>2, <4>1
      <3>4. "finalizer" \in Server' /\ "deleting" \notin Server'
        BY <3>1, <3>3
      <3>5. Managed!Adopt
        BY <3>1, <3>3, <3>4 DEF Managed!Adopt
      <3>6. QED
        BY <3>5 DEF Managed!Next
    <2>2. CASE UNCHANGED log
      BY <1>l, <1>10, <2>2 DEF ensureFinalizer
    <2>3. QED
      BY <1>10, <2>1, <2>2 DEF ensureFinalizer, Update
  <1>11. CASE removeFinalizer
    <2>1. CASE rv = "current" /\ Update(snap \ {"finalizer"})
      <3> DEFINE obj == Collect(snap \ {"finalizer"})
      <3>1. Server = snap /\ "deleting" \in snap /\ "finalizer" \in snap /\ ext = {}
        BY <1>11, <1>v, <2>1, PhaseFacts DEF removeFinalizer, IInv, FreshRead, InBranch, CleanWhenDeleted
      <3>2. obj \in SUBSET Marks /\ "finalizer" \notin obj
        BY <1>v DEF Marks, Collect
      <3>3. Server' = obj /\ ext' = ext
        <4>1. log' = Append(log, obj) /\ ext' = ext
          BY <1>11, <2>1 DEF removeFinalizer, Update
        <4>2. QED
          BY <1>a, <3>2, <4>1
      <3>4. "finalizer" \notin Server'
        BY <3>2, <3>3
      <3>5. Managed!Release
        BY <3>1, <3>3, <3>4 DEF Managed!Release
      <3>6. QED
        BY <3>5 DEF Managed!Next
    <2>2. CASE UNCHANGED log
      BY <1>l, <1>11, <2>2 DEF removeFinalizer
    <2>3. QED
      BY <1>11, <2>1, <2>2 DEF removeFinalizer, Update
  <1>12. CASE ensureCreated \/ ensureDeleted \/ ensureSuspended
    <2>1. pc \in Working /\ log' = log
      BY <1>12 DEF ensureCreated, ensureDeleted, ensureSuspended, Decide, Working
    <2>2. "finalizer" \in Server /\ Server' = Server
      BY <2>1 DEF IInv, WorkIsCovered, Server
    <2>3. QED
      BY <1>h, <2>2 DEF Managed!Next
  <1>13. CASE patchStatus
    <2> DEFINE obj == (Server \ Conditions) \cup conds
    <2>1. CASE log' = Append(log, obj)
      <3>1. /\ obj \in SUBSET Marks
            /\ "finalizer" \in obj <=> "finalizer" \in Server
            /\ "deleting" \in obj <=> "deleting" \in Server
        BY <1>v DEF Marks, Conditions
      <3>2. Server' = obj /\ ext' = ext
        BY <1>13, <1>a, <2>1, <3>1 DEF patchStatus
      <3>3. QED
        BY <1>s, <3>1, <3>2
    <2>2. CASE UNCHANGED log
      BY <1>l, <1>13, <2>2 DEF patchStatus
    <2>3. CASE log' = Append(log, Server)
      BY <1>a, <1>s, <1>v, <1>13, <2>3 DEF patchStatus
    <2>4. QED
      BY <1>13, <2>1, <2>2, <2>3 DEF patchStatus
  <1>14. CASE UNCHANGED vars
    BY <1>14, <1>l DEF vars
  <1>15. QED
    BY <1>1, <1>2, <1>3, <1>4, <1>5, <1>6, <1>7, <1>8, <1>9, <1>10, <1>11,
       <1>12, <1>13, <1>14 DEF Next, Step

\* The reconcile loop implements the contract of a managed resource: things are
\* held only under the finalizer, which is given up only when nothing is left.
THEOREM LoopRefinesContract ==
    ASSUME OneOwner
    PROVE  Spec => ImplementsManagedResource
  <1>1. IInv /\ [Next]_vars => IInv'
    BY InvStep
  <1>2. Init => Managed!Init
    <2> SUFFICES ASSUME Init PROVE Managed!Init
      OBVIOUS
    <2>1. Server = {} /\ ext = {}
      BY DEF Init, Server
    <2>2. QED
      BY <2>1 DEF Managed!Init
  <1>3. IInv /\ IInv' /\ [Next]_vars => [Managed!Next]_(Managed!vars)
    BY StepRefines
  <1>4. QED
    BY <1>1, <1>2, <1>3, InvInit, PTL DEF Spec, ImplementsManagedResource, Managed!Spec
=============================================================================
