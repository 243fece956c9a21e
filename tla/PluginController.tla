-------------------------- MODULE PluginController --------------------------
(***************************************************************************)
(* The Plugin controller with Flux: a Plugin is deployed by a HelmRelease  *)
(* in the central cluster, which Flux installs in the Plugin's cluster     *)
(* with the kubeconfig of the cluster's Secret, and uninstalls when it is  *)
(* deleted unless it is suspended.                                         *)
(*                                                                         *)
(* A pass is one step, but for the deletion of a Plugin that retains its   *)
(* Helm release: the HelmRelease is suspended by one call and deleted by   *)
(* the next, and Flux, users and a restart come in between.                *)
(***************************************************************************)
EXTENDS Hub

PluginFinalizer(p) ==
    LET seen == Seen("plugin")[p]
    IN  /\ p \notin suspending
        /\ seen = server.plugin[p]
        /\ \/ seen.stage = "new" /\ server' = [server EXCEPT !.plugin[p].stage = "live"]
           \/ seen.stage = "deleted" /\ server' = [server EXCEPT !.plugin[p] = NoPlugin]
        /\ UNCHANGED <<cache, remote, installed, reachable, passes, history, counts>>

\* Mutant: the HelmRelease is created before the finalizer is on the Plugin.
ensureHelmReleaseEarly(p) ==
    /\ Seen("plugin")[p].stage \in {"new", "live"}
    /\ Seen("release")[p] = "absent" /\ server.release[p] = "absent"
    /\ server' = [server EXCEPT !.release[p] = "active"]
    /\ UNCHANGED <<cache, remote, installed, reachable, passes, history, counts>>

\* EnsureFluxCreated: the HelmRelease is created if it is not in the cache, which
\* fails if the API server has it, and is resumed if it is suspended.
ensureHelmRelease(p) ==
    LET seen == Seen("release")[p]
    IN  /\ p \notin suspending
        /\ Seen("plugin")[p].stage = "live"
        /\ \/ /\ seen = "absent" /\ server.release[p] = "absent"
              /\ server' = [server EXCEPT !.release[p] = "active"]
           \/ /\ seen \in {"suspended", "deletingSuspended"}
              /\ server' = [server EXCEPT !.release[p] =
                    CASE @ = "suspended" -> "active" [] @ = "deletingSuspended" -> "deleting" [] OTHER -> @]
        /\ UNCHANGED <<cache, remote, installed, reachable, passes, history, counts>>

\* EnsureFluxSuspended: no update is needed without a HelmRelease in the cache or
\* if it is suspended; an update of one that is not the newest is refused.
EnsureFluxSuspended(p) ==
    LET seen == Seen("release")[p]
    IN  /\ p \in RetainPlugins \ suspending
        /\ Seen("plugin")[p].stage = "deleting"
        /\ \/ seen \in {"absent", "suspended", "deletingSuspended"} /\ UNCHANGED server
           \/ /\ seen \in {"active", "deleting"} /\ seen = server.release[p]
              /\ server' = [server EXCEPT !.release[p] =
                                IF seen = "active" THEN "suspended" ELSE "deletingSuspended"]
        /\ suspending' = suspending \cup {p}
        /\ UNCHANGED <<cache, remote, installed, reachable, boot, closing, presetPass, history, counts>>

\* Mutants: the Plugin does not wait for Flux; the HelmRelease is deleted without
\* regard to its suspension.
EnsureFluxDeletedNoWait(p) ==
    /\ Seen("plugin")[p].stage = "deleting"
    /\ server' = [server EXCEPT !.release[p] = DeletedRelease(@), !.plugin[p].stage = "deleted"]
    /\ suspending' = suspending \ {p}
    /\ UNCHANGED <<cache, remote, installed, reachable, boot, closing, presetPass, history, counts>>

EnsureFluxDeletedFirst(p) ==
    /\ Seen("plugin")[p].stage = "deleting"
    /\ server' = [server EXCEPT
            !.release[p] = DeletedRelease(@),
            !.plugin[p].stage = IF Seen("release")[p] = "absent" /\ @ = "deleting" THEN "deleted" ELSE @]
    /\ suspending' = suspending \ {p}
    /\ UNCHANGED <<cache, remote, installed, reachable, boot, closing, presetPass, history, counts>>

\* The HelmRelease, suspended before if the policy is Retain, is deleted and then
\* looked for in the cache: the Plugin is done when it is not there.
EnsureFluxDeleted(p) ==
    /\ IF p \in RetainPlugins THEN p \in suspending ELSE Seen("plugin")[p].stage = "deleting"
    /\ server' = [server EXCEPT
            !.release[p] = DeletedRelease(@),
            !.plugin[p].stage = IF Seen("release")[p] = "absent" /\ @ = "deleting" THEN "deleted" ELSE @]
    /\ suspending' = suspending \ {p}
    /\ UNCHANGED <<cache, remote, installed, reachable, boot, closing, presetPass, history, counts>>

-----------------------------------------------------------------------------
(* Flux. *)

\* Flux has access to a cluster through the Secret and Greenhouse's rights.
Usable(c) ==
    c \in reachable /\ server.secret[c].exists /\ "clusterRoleBinding" \in remote[c]

Install(p) ==
    /\ server.release[p] = "active"
    /\ Usable(clusterOf(p))
    /\ installed' = installed \cup {p}
    /\ UNCHANGED <<server, cache, remote, reachable, passes, history, counts>>

\* The HelmRelease goes when its Helm release is uninstalled.  Nothing is to be
\* uninstalled if it was not installed or is suspended, and nothing can be without
\* the Secret.
Uninstall(p) ==
    /\ \/ /\ server.release[p] = "deleting" /\ Usable(clusterOf(p))
          /\ installed' = installed \ {p}
       \/ /\ \/ server.release[p] = "deletingSuspended"
             \/ /\ server.release[p] = "deleting"
                /\ p \notin installed \/ ~server.secret[clusterOf(p)].exists
          /\ UNCHANGED installed
    /\ server' = [server EXCEPT !.release[p] = "absent"]
    /\ UNCHANGED <<cache, remote, reachable, passes, history, counts>>

PluginStep(p) ==
    \/ PluginFinalizer(p) \/ ensureHelmRelease(p) \/ EnsureFluxSuspended(p) \/ EnsureFluxDeleted(p)
    \/ Install(p) \/ Uninstall(p)

PluginNext == \E p \in Plugins : PluginStep(p)
=============================================================================
