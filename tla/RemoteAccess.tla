----------------------------- MODULE RemoteAccess -----------------------------
(* The credentials of a remote cluster and two of those who live on them: the *)
(* kubeconfig for its users and the service proxy.                            *)
EXTENDS ClusterKubeconfig, ServiceProxy

CONSTANT MaxEdits   \* edits of users and changes in the remote cluster
VARIABLE edits

ASSUME EditsAssumption == MaxEdits \in Nat

vars == <<credVars, kcVars, proxyVars, mishaps, edits>>

\* A cluster that is onboarded; or one that is, and either the kubeconfig of its users
\* is looked at or the proxy.
SetUp == CredInit([NewSecret EXCEPT !.gh = Config(MaxTokenValidity, 0),
                                    !.generated = TRUE, !.owner = TRUE], "True", TRUE)
Init ==
    /\ kind \in {"kubeconfig", "oidc"}
    /\ \/ CredInit(NewSecret, "nil", FALSE) /\ KcInit(FALSE) /\ ProxyInit({})
       \/ kind = "oidc" /\ SetUp /\ KcInit(TRUE) /\ ProxyInit({})
       \/ kind = "oidc" /\ SetUp /\ KcInit(FALSE) /\ ProxyInit(Services)
    /\ edits = 0 /\ mishaps = 0

TypeOK == CredTypeOK /\ KcTypeOK /\ ProxyTypeOK /\ edits \in 0..MaxEdits /\ mishaps \in 0..MaxMishaps

\* Who is told of a step.
proxyWatch ==
    /\ proxyQueued' = (proxyQueued \/ (installed /\ (secret' # secret \/ (unseen' /\ ~unseen))))
    /\ UNCHANGED <<installed, exposed, table, writer, read, readers, request>>
Watches == clusterSecretToCluster /\ proxyWatch

Edit ==
    /\ edits < MaxEdits /\ edits' = edits + 1
    /\ \/ /\ ~installed /\ ~watched
          /\ \/ RemoteChanges \/ FollowPlaybook \/ KubeConfigExpires \/ RotateCA
             \/ DeleteSecret \/ BootstrapCommand
          /\ Watches
       \/ /\ watched /\ \E new \in {[oidc EXCEPT !.org = ~@]} \cup
                                     {[oidc EXCEPT !.override = o] : o \in {"own", "broken"}} :
                             EditOIDC(new)
          /\ UNCHANGED <<credVars, proxyVars, mishaps>>
       \/ (installed \/ watched) /\ (RotateCA \/ DeleteSecret) /\ Watches
       \/ /\ installed /\ \E s \in Services, new \in {"none", "live", "deleting"} : Expose(s, new)
          /\ UNCHANGED <<credVars, kcVars, mishaps>>

Controllers(step) == step /\ Watches /\ UNCHANGED edits
Kubeconfigs == ReconcileKubeconfig /\ UNCHANGED <<credVars, proxyVars, edits>>
Proxy == (ProxyReconcile \/ (ProxyStart /\ UNCHANGED mishaps)) /\ UNCHANGED <<credVars, kcVars, edits>>
Serving(step) == step /\ UNCHANGED <<credVars, kcVars, mishaps, edits>>

Tick ==
    /\ ~kcQueued /\ (writer = "waiting" => readers # {})
    /\ proxyQueued => writer = "waiting" \/ ProxyRejectsSecret
    /\ TimePasses
    /\ table' = [table EXCEPT !.transport = AgedSecret(@)]
    /\ read' = AgedSecret(read)
    /\ UNCHANGED <<kcVars, installed, exposed, proxyQueued, writer, readers, request, edits>>

Next ==
    \/ Controllers(Bootstrap)
    \/ Controllers(ClusterController)
    \/ Controllers(DeliverSecret)
    \/ Controllers(StartOperator)
    \/ Controllers(StopOperator)
    \/ Kubeconfigs
    \/ Proxy
    \/ \E r \in Requests : Serving(Serve(r))
    \/ installed /\ \E r \in Requests, s \in Services : Serving(Arrive(r, s))
    \/ Tick
    \/ Edit

Spec == Init /\ [][Next]_vars

\* Controllers run, caches catch up, a stopped operator is started again, time passes,
\* the services behind the proxy answer, and the lock lets in who has waited for a
\* writer.
Fairness ==
    /\ WF_vars(Controllers(Bootstrap)) /\ WF_vars(Controllers(ClusterController))
    /\ WF_vars(Controllers(DeliverSecret \/ StartOperator))
    /\ WF_vars(Kubeconfigs) /\ WF_vars(Proxy) /\ WF_vars(Tick)
    /\ \A r \in Requests : SF_vars(Serving(Serve(r)))

FairSpec == Spec /\ Fairness

------------------------------------------------------------------------------
(* Properties.                                                                *)

\* A token expires only when it could not be renewed for as long as it is renewed
\* ahead of time (cluster_controller.go:215-276, token.go:88-130): because the operator
\* or the remote cluster was away.  A token that was issued for less, to a new OIDC
\* kubeconfig or to the command line, can be renewed during the whole of its life.
Due(c) == IF c.life < RenewAfter THEN c.life ELSE RenewAfter
TokenOutlives == secret.exists /\ secret.gh.ttl = 0 => lag >= Due(secret.gh)

\* What only the playbook gets out of: the token that is to be renewed is the one that
\* renews (docs/operations/playbooks/cluster/cluster-token-expiry.md); and likewise the
\* kubeconfig of the user as long as it is the only one.
LockedOut ==
    /\ kind = "kubeconfig"
    /\ IF secret.gh # NoConfig THEN secret.gh.ttl = 0 \/ ~remote.managed
       ELSE secret.user = "expired" \/ (secret.user = "token" /\ ~remote.managed)

\* Access comes back by itself after outages, restarts, a new CA, a pass that writes
\* the old CA back, and after the playbook was followed: with a generated kubeconfig.
AccessRecovers ==
    <>[](running /\ remote.up /\ secret.exists =>
            (Works(secret) /\ Uses(secret) = "gh") \/ LockedOut)

\* The status says in the end whether the cluster can be reached and has a worker to
\* schedule to; also with no node at all (cluster_status.go:53-70).
StatusFollows ==
    <>[](running /\ cluster.exists =>
            /\ cluster.valid = Cond(Works(secret))
            /\ cluster.payload = Cond(Works(secret) /\ \E n \in remote.nodes : n.worker /\ n.ready))

\* Users get a kubeconfig with the CA and the client in force, once both are known,
\* although errors of this controller are not retried (kubeconfig_controller.go:51-268).
KubeconfigFollows ==
    <>[](watched /\ running /\ secret.exists /\ Works(secret) /\ secret.gh # NoConfig /\ getOIDCInfo # "error" =>
            /\ kubeconfig.ready = "True"
            /\ kubeconfig.ca = secret.gh.ca /\ kubeconfig.client = getOIDCInfo)

\* The proxy follows: it routes to what is exposed and to nothing else, with a token
\* that works, and forgets a cluster whose Secret is gone (proxy.go:88-163).
TableFollows ==
    <>[](installed => IF secret.exists
                      THEN /\ table.routes = {s \in Services : exposed[s] = "live"}
                           /\ Works(secret) => Works(table.transport)
                      ELSE table = NoEntry)

\* Every request is answered or refused, whatever the table goes through meanwhile:
\* the two lookups of a request never wait for a writer that waits for them.
RequestsAnswered ==
    \A r \in Requests : request[r].at = "arrived" ~> request[r].at \in {"answered", "refused"}

\* The credentials are safe: of their types, and alive as long as anybody could renew them.
CredentialsSafe == TypeOK /\ TokenOutlives

\* What is made of the credentials follows them: the status of the Cluster, the kubeconfig
\* of users and the table of the service proxy.
DerivedFollows == StatusFollows /\ KubeconfigFollows /\ TableFollows
==============================================================================
