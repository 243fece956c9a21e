-------------------------- MODULE ClusterCredentials --------------------------
(* How Greenhouse gets and keeps access to a remote cluster: the Secret with  *)
(* its kubeconfigs, the bootstrap controller, the part of the Cluster         *)
(* controller that creates, and the token that both of them request.  Time    *)
(* passes in ticks of ten minutes, the interval after which a successful pass *)
(* is repeated; what is kept of a token is how many ticks it is still valid.  *)
EXTENDS Mishaps, Integers

CONSTANTS MaxTokenValidity,   \* ticks for which a requested token is valid
          RenewAfter,         \* a token with no more than this left is replaced
          BootstrapValidity,  \* the token of a new OIDC kubeconfig: 600 seconds
          CommandValidity     \* the token of greenhousectl: one hour

ASSUME TokenAssumption ==
    /\ {MaxTokenValidity, RenewAfter, BootstrapValidity, CommandValidity} \subseteq Nat \ {0}
    /\ BootstrapValidity <= MaxTokenValidity /\ CommandValidity <= MaxTokenValidity

VARIABLES
    kind,           \* the type of the Secret: "kubeconfig" or "oidc"
    secret,         \* the Secret of the cluster ...
    seen,           \* ... and what the cache of the operator shows of it
    unseen,         \* there is a version of it that the cache does not show
    cluster,        \* the Cluster and its status
    remote,         \* the remote cluster
    bootQueued,     \* the bootstrap controller has a request
    clusterQueue,   \* the Cluster controller has no request, has one, or will retry
    clusterPass,    \* its running pass
    running,        \* the operator process runs
    lag             \* ticks since a pass last found or stored a valid token (no
                    \* more than RenewAfter are counted)

credVars == <<kind, secret, seen, unseen, cluster, remote, bootQueued, clusterQueue,
              clusterPass, running, lag>>

NoSecret == [exists |-> FALSE]
NoPass == [at |-> "idle"]

\* A generated kubeconfig: how long its token is valid, and was when it was issued.
NoConfig == [ttl |-> -1, ca |-> 0, life |-> 0]
Config(validity, authority) == [ttl |-> validity, ca |-> authority, life |-> validity]
Configs == [ttl : -1..MaxTokenValidity, ca : {0, 1}, life : 0..MaxTokenValidity]

\* A Secret as users create it: a kubeconfig, or the address and the CA of a cluster
\* that trusts the tokens of Greenhouse.
NewSecret == [exists |-> TRUE, user |-> IF kind = "oidc" THEN "none" ELSE "valid", ca |-> 0,
              gh |-> NoConfig, generated |-> FALSE, owner |-> FALSE]

SecretObject == [exists : {TRUE}, user : {"none", "expired", "valid", "token"}, ca : {0, 1},
                 gh : Configs, generated : BOOLEAN, owner : BOOLEAN]
Secrets == {NoSecret} \cup SecretObject
Conditions == {"nil", "True", "False"}
Passes == [secret : Secrets, exp : 0..MaxTokenValidity, failed : BOOLEAN,
           at : {"oidcToken", "resources", "token", "status"}]

CredTypeOK ==
    /\ kind \in {"kubeconfig", "oidc"}
    /\ secret \in Secrets /\ seen \in Secrets
    /\ cluster \in [ready : Conditions, valid : Conditions, payload : Conditions,
                    exists : BOOLEAN, exp : 0..MaxTokenValidity]
    /\ remote \in [up : BOOLEAN, managed : BOOLEAN, ca : {0, 1},
                   nodes : SUBSET [ready : BOOLEAN, worker : BOOLEAN]]
    /\ unseen \in BOOLEAN /\ bootQueued \in BOOLEAN /\ running \in BOOLEAN
    /\ clusterQueue \in {"none", "now", "retry"}
    /\ clusterPass \in {NoPass} \cup {p \in Passes : p.at # "status" => p.secret.exists}
    /\ lag \in 0..RenewAfter

Worker(ready) == [ready |-> ready, worker |-> TRUE]

CredInit(s, c, m) ==
    /\ secret = s /\ seen = s /\ unseen = FALSE
    /\ cluster = [ready |-> c, valid |-> c, payload |-> c, exists |-> c # "nil",
                  exp |-> IF c = "nil" THEN 0 ELSE MaxTokenValidity]
    /\ remote = [up |-> TRUE, managed |-> m, ca |-> 0, nodes |-> {Worker(TRUE)}]
    /\ bootQueued = TRUE /\ clusterQueue = "none" /\ clusterPass = NoPass
    /\ running = TRUE /\ lag = 0

------------------------------------------------------------------------------
(* The kubeconfigs of a Secret.                                               *)

\* kubeConfigGetterFromSecret: the generated one, else the one of the user, which
\* holds a client certificate or, after greenhousectl, a token of the service account.
HasKubeConfig(s) == s.gh # NoConfig \/ s.user # "none"
Uses(s) == IF s.gh # NoConfig THEN "gh" ELSE "user"
ConfigCA(s) == IF Uses(s) = "gh" THEN s.gh.ca ELSE s.ca

\* ValidateSecretForKubeConfig
ValidateSecretForKubeConfig(s) == s.exists /\ HasKubeConfig(s)

\* The remote cluster lets a client in.  A generated token lives as long as its
\* service account, which is one of Greenhouse itself in an OIDC setup.
Works(s) ==
    /\ ValidateSecretForKubeConfig(s) /\ remote.up /\ ConfigCA(s) = remote.ca
    /\ IF Uses(s) = "gh" THEN s.gh.ttl > 0 /\ (kind = "oidc" \/ remote.managed)
       ELSE s.user = "valid" \/ (s.user = "token" /\ remote.managed)

------------------------------------------------------------------------------
(* Tokens.                                                                    *)

\* shouldSkipTokenRenewal: a token speaks for itself, anything else is judged by the
\* expiration in the status.
SkipWhileValid(s, exp) == Uses(s) = "gh" /\ s.gh.ttl > 0
shouldSkipTokenRenewal(s, exp) ==
    IF Uses(s) = "gh" THEN s.gh.ttl > RenewAfter ELSE exp > RenewAfter

\* GenerateTokenRequest: whether a token is requested.
GenerateTokenRequest(s, exp) == s.gh = NoConfig \/ ~shouldSkipTokenRenewal(s, exp)

\* generateOIDCToken asks the own API server, generateKubeConfigToken the remote one
\* for a token of its service account.
generateOIDCToken == TRUE
generateKubeConfigToken(s) == Works(s) /\ remote.managed
createTokenRequest(s) == IF kind = "oidc" THEN generateOIDCToken ELSE generateKubeConfigToken(s)

\* GenerateNewClientKubeConfig: address and CA are the ones the pass was started with.
GenerateNewClientKubeConfig(s, validity) == Config(validity, ConfigCA(s))

\* createKubeConfigKey takes the CA of the Secret.
createKubeConfigKey(s) ==
    [s EXCEPT !.gh = Config(BootstrapValidity, s.ca), !.generated = TRUE]

------------------------------------------------------------------------------
(* The bootstrap controller.                                                  *)

Idle == UNCHANGED <<kind, seen, remote, clusterPass, running, lag>>

compareCAWithKubeConfigCA(s) == s.ca = ConfigCA(s)
Incomplete(s) == kind = "oidc" /\ (~s.generated \/ s.gh = NoConfig)
NeverOutdated(s) == FALSE
Outdated(s) == kind = "oidc" /\ ~Incomplete(s) /\ ~compareCAWithKubeConfigCA(s)

BootstrapNothing ==
    /\ running /\ bootQueued /\ ~seen.exists
    /\ bootQueued' = FALSE
    /\ UNCHANGED <<secret, unseen, cluster, clusterQueue, mishaps>> /\ Idle

\* A new kubeconfig with a short-lived token; the update of the Secret fails if the
\* cache was behind, and is an event if not.
BootstrapGenerates ==
    /\ running /\ bootQueued /\ seen.exists
    /\ Incomplete(seen) \/ Outdated(seen)
    /\ \E fails \in BOOLEAN :
          /\ Mishap(fails)
          /\ LET ok == ~fails /\ ~unseen
             IN  /\ secret' = IF ok THEN createKubeConfigKey(seen) ELSE secret
                 /\ unseen' = (unseen \/ ok)
                 /\ bootQueued' = ~ok
    /\ UNCHANGED <<cluster, clusterQueue>> /\ Idle

\* createOrUpdateCluster and ensureOwnerReferences.  The Cluster that was created may
\* not be in the cache when the owner reference is set.
createOrUpdateCluster == [cluster EXCEPT !.exists = TRUE]
ensureOwnerReferences(s) == [s EXCEPT !.owner = TRUE]
BootstrapCluster ==
    /\ running /\ bootQueued /\ seen.exists
    /\ ~Incomplete(seen) /\ ~Outdated(seen)
    /\ \E early, fails \in BOOLEAN :
          /\ early => ~cluster.exists
          /\ Mishap(fails)
          /\ cluster' = createOrUpdateCluster
          /\ clusterQueue' = IF cluster.exists THEN clusterQueue ELSE "now"
          /\ LET ok == ~early /\ ~fails /\ secret.exists
             IN  /\ secret' = IF ok THEN ensureOwnerReferences(secret) ELSE secret
                 /\ unseen' = (unseen \/ secret' # secret)
                 /\ bootQueued' = ~ok
    /\ Idle

------------------------------------------------------------------------------
(* The Cluster controller.  A pass works on the Secret it read at its start.  *)

Goto(stage) == clusterPass' = [clusterPass EXCEPT !.at = stage]
Failed == clusterPass' = [clusterPass EXCEPT !.at = "status", !.failed = TRUE]
Snapshot == clusterPass.secret
Quiet == UNCHANGED <<kind, seen, bootQueued, clusterQueue, running>>

StartClusterPass ==
    /\ running /\ clusterPass = NoPass /\ clusterQueue = "now" /\ cluster.exists
    /\ clusterQueue' = "none"
    /\ clusterPass' = [secret |-> seen, exp |-> cluster.exp,
                       failed |-> ~ValidateSecretForKubeConfig(seen),
                       at |-> IF ~ValidateSecretForKubeConfig(seen) THEN "status"
                              ELSE IF kind = "oidc" THEN "oidcToken" ELSE "resources"]
    /\ UNCHANGED <<kind, secret, seen, unseen, cluster, remote, bootQueued, running, lag, mishaps>>

\* reconcileServiceAccountToken, once or, with OIDC, twice in a pass.
reconcileServiceAccountToken(next) ==
    \E fails \in BOOLEAN :
        LET asked == GenerateTokenRequest(Snapshot, clusterPass.exp)
            refused == asked /\ ~createTokenRequest(Snapshot)
            ok == ~fails /\ ~refused /\ (asked => secret.exists)
        IN  /\ Mishap(fails /\ ~refused) /\ (fails => asked)
            /\ secret' = IF ok /\ asked
                         THEN [secret EXCEPT
                                 !.gh = GenerateNewClientKubeConfig(Snapshot, MaxTokenValidity),
                                 !.generated = @ \/ kind = "oidc"]
                         ELSE secret
            /\ unseen' = (unseen \/ (ok /\ asked))
            /\ lag' = IF ok THEN 0 ELSE lag
            /\ IF ok THEN clusterPass' = [clusterPass EXCEPT
                            !.at = next, !.exp = IF asked THEN MaxTokenValidity ELSE @]
               ELSE Failed

\* Token first, or its renewal would need what it renews.
OIDCToken ==
    /\ running /\ clusterPass.at = "oidcToken"
    /\ reconcileServiceAccountToken("resources")
    /\ UNCHANGED <<cluster, remote>> /\ Quiet

\* The ClusterRoleBinding, the namespace and the service account in the remote cluster.
reconcileClusterRoleBindingInRemoteCluster(r) == [r EXCEPT !.managed = TRUE]
reconcileNamespaceInRemoteCluster(r) == r
reconcileServiceAccountInRemoteCluster(r) == [r EXCEPT !.managed = TRUE]
EnsureRemoteResources ==
    /\ running /\ clusterPass.at = "resources"
    /\ \E fails \in BOOLEAN :
          /\ Mishap(fails /\ Works(Snapshot)) /\ (~Works(Snapshot) => fails)
          /\ IF fails THEN Failed /\ UNCHANGED remote
             ELSE /\ Goto("token")
                  /\ remote' = IF kind = "oidc" THEN reconcileNamespaceInRemoteCluster(remote)
                               ELSE reconcileServiceAccountInRemoteCluster(
                                      reconcileNamespaceInRemoteCluster(
                                        reconcileClusterRoleBindingInRemoteCluster(remote)))
    /\ UNCHANGED <<secret, unseen, cluster, lag>> /\ Quiet

EnsureToken ==
    /\ running /\ clusterPass.at = "token"
    /\ reconcileServiceAccountToken("status")
    /\ UNCHANGED <<cluster, remote>> /\ Quiet

------------------------------------------------------------------------------
(* Its status, read from the remote cluster with the Secret of the cache.     *)

Cond(b) == IF b THEN "True" ELSE "False"
reconcileKubeConfigValid == Works(seen)
reconcileBootstrapResources == kind = "oidc" \/ remote.managed

\* Nodes of the control plane do not count; a cluster without workers has nowhere
\* to schedule to.
getNodeStatusIfNodeNotReady(n) == ~n.ready
Workers == {n \in remote.nodes : n.worker}
reconcileNodeStatus == {n \in Workers : getNodeStatusIfNodeNotReady(n)}
PayloadSchedulable == Works(seen) /\ reconcileNodeStatus # Workers
reconcileReadyStatus == reconcileKubeConfigValid /\ reconcileBootstrapResources

\* A changed status is an event for all who watch Clusters.
setConditions ==
    [cluster EXCEPT !.valid = Cond(reconcileKubeConfigValid),
                    !.ready = Cond(reconcileReadyStatus),
                    !.payload = Cond(PayloadSchedulable),
                    !.exp = clusterPass.exp]
SetClusterStatus ==
    /\ running /\ clusterPass.at = "status"
    /\ \E lost \in BOOLEAN :
          /\ Mishap(lost)
          /\ cluster' = IF lost THEN cluster ELSE setConditions
          /\ clusterQueue' = IF cluster' # cluster THEN "now"
                             ELSE IF clusterPass.failed \/ lost THEN "retry" ELSE clusterQueue
    /\ bootQueued' = (bootQueued \/ cluster' # cluster)
    /\ clusterPass' = NoPass
    /\ UNCHANGED <<kind, secret, seen, unseen, remote, running, lag>>

ClusterController == StartClusterPass \/ OIDCToken \/ EnsureRemoteResources \/ EnsureToken \/ SetClusterStatus
Bootstrap == BootstrapNothing \/ BootstrapGenerates \/ BootstrapCluster

------------------------------------------------------------------------------
(* Around the controllers.                                                    *)

\* A change of the Secret reaches the cache of the operator.  The Cluster controller
\* knows its Secret by the owner reference.
DeliverSecret ==
    /\ running /\ unseen
    /\ seen' = secret /\ unseen' = FALSE
    /\ bootQueued' = TRUE
    /\ clusterQueue' = IF secret.exists /\ secret.owner THEN "now" ELSE clusterQueue
    /\ UNCHANGED <<kind, secret, cluster, remote, clusterPass, running, lag, mishaps>>

\* Ten minutes pass once everything due is done: timers fire, what failed is retried
\* (the delay grows to about a quarter of an hour), tokens age.
Aged(c) == IF c.ttl > 0 THEN [c EXCEPT !.ttl = @ - 1] ELSE c
AgedSecret(s) == IF s.exists THEN [s EXCEPT !.gh = Aged(@)] ELSE s
Settled == \/ ~running
           \/ clusterPass = NoPass /\ clusterQueue # "now" /\ ~bootQueued /\ ~unseen
TimePasses ==
    /\ Settled
    /\ secret' = AgedSecret(secret) /\ seen' = AgedSecret(seen)
    /\ cluster' = [cluster EXCEPT !.exp = IF @ > 0 THEN @ - 1 ELSE 0]
    /\ clusterQueue' = IF cluster.exists THEN "now" ELSE "none"
    /\ bootQueued' = secret.exists
    /\ lag' = IF lag = RenewAfter THEN lag ELSE lag + 1
    /\ UNCHANGED <<kind, unseen, remote, clusterPass, running, mishaps>>

\* The operator stops and comes back; then it lists everything.
StopOperator ==
    /\ running /\ Mishap(TRUE)
    /\ running' = FALSE /\ clusterPass' = NoPass
    /\ UNCHANGED <<kind, secret, seen, unseen, cluster, remote, bootQueued, clusterQueue, lag>>
StartOperator ==
    /\ ~running /\ running' = TRUE
    /\ seen' = secret /\ unseen' = FALSE /\ bootQueued' = TRUE
    /\ clusterQueue' = IF cluster.exists THEN "now" ELSE "none"
    /\ UNCHANGED <<kind, secret, cluster, remote, clusterPass, lag, mishaps>>

\* The remote cluster: outages, nodes, and somebody who deletes what Greenhouse made.
RemoteChanges ==
    /\ \/ remote' = [remote EXCEPT !.up = ~@]
       \/ remote' = [remote EXCEPT !.managed = FALSE]
       \/ \E nodes \in {{}, {Worker(FALSE)}, {Worker(FALSE), Worker(TRUE)},
                        {Worker(FALSE), [ready |-> TRUE, worker |-> FALSE]}} :
             remote' = [remote EXCEPT !.nodes = nodes]
    /\ remote' # remote
    /\ UNCHANGED <<kind, secret, seen, unseen, cluster, bootQueued, clusterQueue, clusterPass,
                   running, lag, mishaps>>

\* Users.  The playbook for an expired token: a valid kubeconfig, and no generated one.
UserChanges(new, ca) ==
    /\ secret.exists /\ new # secret /\ secret' = new /\ unseen' = TRUE
    /\ remote' = [remote EXCEPT !.ca = ca]
    /\ UNCHANGED <<kind, seen, cluster, bootQueued, clusterQueue, clusterPass, running,
                   lag, mishaps>>
FollowPlaybook ==
    /\ kind = "kubeconfig"
    /\ UserChanges([secret EXCEPT !.user = "valid", !.gh = NoConfig], remote.ca)
KubeConfigExpires ==
    /\ kind = "kubeconfig" /\ secret.exists /\ secret.user # "none"
    /\ UserChanges([secret EXCEPT !.user = "expired"], remote.ca)
RotateCA ==
    /\ kind = "oidc"
    /\ UserChanges([secret EXCEPT !.ca = 1 - @], 1 - remote.ca)

DeleteSecret == UserChanges(NoSecret, remote.ca)

\* greenhousectl cluster bootstrap, with a token that is valid for an hour.  It is the
\* kubeconfig of the user in a new Secret.  For a cluster that exists it is the only one
\* in the Secret, which the webhook refuses; unless the webhook does not answer, when the
\* API server ignores it.  What was made in the remote cluster before stays.
isClusterAlreadyBootstraped == cluster.exists
createOrUpdateClusterObject ==
    IF isClusterAlreadyBootstraped
    THEN [NewSecret EXCEPT !.user = "none", !.gh = Config(CommandValidity, remote.ca)]
    ELSE [NewSecret EXCEPT !.user = "token"]
validateSecretGreenHouseType(s) == s.user # "none"
BootstrapCommand ==
    /\ kind = "kubeconfig" /\ remote.up
    /\ \E ignored \in BOOLEAN :
          LET new == createOrUpdateClusterObject
              ok == /\ secret.exists = isClusterAlreadyBootstraped
                    /\ validateSecretGreenHouseType(new) \/ ignored
          IN  /\ secret' = IF ok THEN new ELSE secret
              /\ unseen' = (unseen \/ ok)
    /\ remote' = [remote EXCEPT !.managed = TRUE]
    /\ UNCHANGED <<kind, seen, cluster, bootQueued, clusterQueue, clusterPass, running, lag,
                   mishaps>>
==============================================================================
