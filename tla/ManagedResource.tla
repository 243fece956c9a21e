--------------------------- MODULE ManagedResource ---------------------------
(***************************************************************************)
(* What every Greenhouse controller promises about one custom resource:    *)
(* things are held on its behalf (a ClusterRoleBinding in a remote         *)
(* cluster, a HelmRelease, a Plugin ...) only while it carries the cleanup *)
(* finalizer, and the finalizer is given up only when nothing is held any  *)
(* more.  Lifecycle implements this for the generic reconcile loop and     *)
(* TeamRoleBinding for one concrete controller.                            *)
(***************************************************************************)

CONSTANT Resources      \* what a controller may create on behalf of the object

VARIABLES
    phase,              \* "unmanaged": no cleanup finalizer; "managed": with
                        \* it; "closing": with it and being deleted
    held                \* the resources that exist on behalf of the object

vars == <<phase, held>>

TypeOK ==
    /\ phase \in {"unmanaged", "managed", "closing"}
    /\ held \in SUBSET Resources

Init ==
    /\ phase = "unmanaged"
    /\ held = {}

\* The controller puts its finalizer on the object.
Adopt ==
    /\ phase = "unmanaged"
    /\ phase' = "managed"
    /\ UNCHANGED held

\* Somebody asks for the object to be deleted.
Close ==
    /\ phase = "managed"
    /\ phase' = "closing"
    /\ UNCHANGED held

\* What is held changes; also while closing, because a reconcile that read the
\* object before its deletion was requested may still be running.
Change ==
    /\ phase # "unmanaged"
    /\ held' \in SUBSET Resources
    /\ UNCHANGED phase

\* The finalizer is removed: only from a closing object that holds nothing.
Release ==
    /\ phase = "closing"
    /\ held = {}
    /\ phase' = "unmanaged"
    /\ UNCHANGED held

Next == Adopt \/ Close \/ Change \/ Release

Spec == Init /\ [][Next]_vars
=============================================================================
