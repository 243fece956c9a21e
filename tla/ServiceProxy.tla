----------------------------- MODULE ServiceProxy -----------------------------
(* The service proxy of an organization: it forwards requests to services in  *)
(* remote clusters, with the credentials in the Secret of the cluster.  Its   *)
(* table is guarded by a read-write lock: a writer waits for all readers, and *)
(* no reader is let in while one waits.                                       *)
EXTENDS ClusterCredentials, FiniteSets

CONSTANTS Services,   \* services that a Plugin may expose in the cluster
          Requests

VARIABLES
    installed,     \* the organization has a service proxy
    exposed,       \* per service: the Plugin that exposes it
    proxyQueued,   \* the controller in the proxy has a request for the cluster
    table,         \* what the proxy knows of the cluster: transport and routes
    writer,        \* the lock as a writer sees it: "free", "waiting"
    read,          \* the Secret that the waiting writer has read
    readers,       \* requests that hold the lock
    request        \* the requests

proxyVars == <<installed, exposed, proxyQueued, table, writer, read, readers, request>>

NoEntry == [transport |-> NoSecret, routes |-> {}]
NoRequest == [at |-> "none"]

ProxyTypeOK ==
    /\ installed \in BOOLEAN
    /\ exposed \in [Services -> {"none", "live", "deleting"}]
    /\ proxyQueued \in BOOLEAN
    /\ table \in [transport : Secrets, routes : SUBSET Services]
    /\ writer \in {"free", "waiting"} /\ read \in Secrets
    /\ readers \subseteq Requests
    /\ request \in [Requests -> {NoRequest} \cup
                        [at : {"arrived", "rewritten", "sending", "answered", "refused"},
                         service : Services]]

ProxyInit(some) ==
    /\ installed = (some # {})
    /\ exposed = [s \in Services |-> IF s \in some THEN "live" ELSE "none"]
    /\ proxyQueued = installed /\ table = NoEntry
    /\ writer = "free" /\ read = NoSecret /\ readers = {}
    /\ request = [r \in Requests |-> NoRequest]

------------------------------------------------------------------------------
(* The controller that fills the table.                                       *)

\* pluginsForCluster, without the ones being deleted.
pluginsForCluster == {s \in Services : exposed[s] = "live"}

\* A Secret without a kubeconfig is an error, and the table stays.
ProxyRejectsSecret == secret.exists /\ ~ValidateSecretForKubeConfig(secret)

\* The Secret is read before the lock is asked for.
ProxyStart ==
    /\ proxyQueued /\ writer = "free" /\ ~ProxyRejectsSecret
    /\ writer' = "waiting" /\ read' = secret /\ proxyQueued' = FALSE
    /\ UNCHANGED <<installed, exposed, table, readers, request>>

\* The lock is there: the entry is replaced, or deleted with its Secret.  A list of
\* Plugins that fails leaves the table as it is.
ProxyReconcile ==
    /\ writer = "waiting" /\ readers = {}
    /\ writer' = "free" /\ read' = NoSecret
    /\ \E fails \in BOOLEAN :
          /\ Mishap(fails) /\ (fails => read.exists)
          /\ proxyQueued' = (proxyQueued \/ fails)
          /\ table' = IF fails THEN table
                      ELSE IF ~read.exists THEN NoEntry
                      ELSE [transport |-> read, routes |-> pluginsForCluster]
    /\ UNCHANGED <<installed, exposed, readers, request>>

\* enqueuePluginForCluster, and the Secret itself.
Expose(s, new) ==
    /\ exposed[s] # new /\ exposed' = [exposed EXCEPT ![s] = new]
    /\ proxyQueued' = TRUE
    /\ UNCHANGED <<installed, table, writer, read, readers, request>>

------------------------------------------------------------------------------
(* Requests.                                                                  *)

Arrive(r, s) ==
    /\ request[r].at = "none"
    /\ request' = [request EXCEPT ![r] = [at |-> "arrived", service |-> s]]
    /\ UNCHANGED <<installed, exposed, proxyQueued, table, writer, read, readers>>

\* rewrite: GetClusterRoute takes the lock and lets it go again.  Without a route the
\* request carries no cluster.
GetClusterRouteHolding(r) == readers' = readers \cup {r}
GetClusterRoute(r) == UNCHANGED readers
rewrite(r) ==
    /\ request[r].at = "arrived" /\ writer = "free"
    /\ request' = [request EXCEPT ![r].at =
                     IF request[r].service \in table.routes THEN "rewritten" ELSE "refused"]
    /\ IF request[r].service \in table.routes THEN GetClusterRoute(r) ELSE UNCHANGED readers
    /\ UNCHANGED <<installed, exposed, proxyQueued, table, writer, read>>

\* RoundTrip looks the cluster up again and holds the lock until the answer is there.
RoundTrip(r) ==
    /\ request[r].at = "rewritten" /\ writer = "free"
    /\ IF table = NoEntry
       THEN request' = [request EXCEPT ![r].at = "refused"] /\ UNCHANGED readers
       ELSE request' = [request EXCEPT ![r].at = "sending"] /\ readers' = readers \cup {r}
    /\ UNCHANGED <<installed, exposed, proxyQueued, table, writer, read>>
UpstreamAnswers(r) ==
    /\ request[r].at = "sending"
    /\ request' = [request EXCEPT ![r].at = "answered"]
    /\ readers' = readers \ {r}
    /\ UNCHANGED <<installed, exposed, proxyQueued, table, writer, read>>

Serve(r) == rewrite(r) \/ RoundTrip(r) \/ UpstreamAnswers(r)
==============================================================================
