---------------------------- MODULE IdentityProofs ----------------------------
(***************************************************************************)
(* Proofs about IdentityAccess, for every set of organizations and users   *)
(* and any number of edits and mishaps: an organization that is gone has   *)
(* left dex, no service proxy is installed before dex knows its client,    *)
(* and an outage of the SCIM API takes nobody out of a team.               *)
(***************************************************************************)
EXTENDS IdentityAccess, FiniteSetTheorems, TLAPS

Pass == [o : Orgs, spec : Specs, false : SUBSET Conditions, failed : BOOLEAN, at : Stages]
Organizations ==
    [state : {"live", "deleting", "gone", "absent"}, spec : Specs,
     scimAPI : {"nil", "Unknown", "True", "False"},
     ready : {"nil", "True", "False"}, false : SUBSET Conditions]
Dex == [connectors : SUBSET Orgs, clients : [Orgs -> {NoClient} \cup SUBSET Redirects],
        proxies : [Orgs -> {"none", "match", "differ"}]]

\* A pass works on an organization that is still there: nobody else lets go of it.  The
\* one that cleans up has read the configuration that the organization leaves with.
PassIsCurrent ==
    orgPass # Idle =>
       /\ org[orgPass.o].state \in {"live", "deleting"}
       /\ orgPass.at = "cleanup" => /\ org[orgPass.o].state = "deleting"
                                    /\ orgPass.spec = org[orgPass.o].spec

DexInv == TypeOK /\ PassIsCurrent /\ LeavesDex /\ ProxyHasClient

-----------------------------------------------------------------------------
(* The work queue. *)

IsQueue(q) == q \in Seq(Orgs) /\ IsInjective(q)

\* A finite set can be listed without repetition.
LEMMA ListOfSet ==
    ASSUME NEW S, IsFiniteSet(S)
    PROVE  /\ SetToSeq(S) \in [1..Cardinality(S) -> S] /\ IsInjective(SetToSeq(S))
           /\ Cardinality(S) \in Nat
  <1>1. Cardinality(S) \in Nat /\ ExistsBijection(1..Cardinality(S), S)
    BY FS_CardinalityType
  <1>2. PICK f \in Bijection(1..Cardinality(S), S) : TRUE
    BY <1>1 DEF ExistsBijection
  <1>3. f \in [1..Cardinality(S) -> S] /\ IsInjective(f)
    BY <1>2 DEF Bijection, Injection
  <1>4. QED
    BY <1>1, <1>3 DEF SetToSeq

\* Adding at the end what is not in the queue, and taking off the front, keep it a queue.
LEMMA QueueFacts ==
    ASSUME IsQueue(orgQueue), OrgsAssumption
    PROVE  /\ \A o \in Orgs : IsQueue(Enqueue(o))
           /\ IsQueue(EnqueueAll)
           /\ orgQueue # <<>> => IsQueue(Tail(orgQueue)) /\ Head(orgQueue) \in Orgs
  <1>1. ASSUME NEW o \in Orgs, o \notin ToSet(orgQueue)
        PROVE  IsQueue(Append(orgQueue, o))
    <2>1. \A i \in 1..Len(orgQueue) : orgQueue[i] # o
      BY <1>1 DEF ToSet, IsQueue
    <2>2. QED
      BY <2>1 DEF IsQueue, IsInjective
  <1>2. IsQueue(EnqueueAll)
    <2>1. PICK more : more = {o \in Orgs \ ToSet(orgQueue) : org[o].state \in {"live", "deleting"}}
      OBVIOUS
    <2>2. more \subseteq Orgs \ ToSet(orgQueue) /\ IsFiniteSet(more)
      BY <2>1, FS_Subset DEF OrgsAssumption
    <2>3. PICK q : q = SetToSeq(more)
      OBVIOUS
    <2>4. q \in [1..Cardinality(more) -> more] /\ IsInjective(q) /\ Cardinality(more) \in Nat
      BY <2>2, <2>3, ListOfSet
    <2>5. q \in Seq(Orgs) /\ \A i \in 1..Len(q) : q[i] \notin ToSet(orgQueue)
      BY <2>2, <2>4
    <2>6. \A i \in 1..Len(q), j \in 1..Len(orgQueue) : q[i] # orgQueue[j]
      BY <2>5 DEF ToSet, IsQueue
    <2>7. IsQueue(orgQueue \o q)
      <3>1. /\ orgQueue \o q \in Seq(Orgs) /\ Len(orgQueue \o q) = Len(orgQueue) + Len(q)
            /\ \A i \in 1..Len(orgQueue) : (orgQueue \o q)[i] = orgQueue[i]
            /\ \A i \in Len(orgQueue)+1..Len(orgQueue)+Len(q) : (orgQueue \o q)[i] = q[i - Len(orgQueue)]
        BY <2>5 DEF IsQueue
      <3>2. ASSUME NEW i \in 1..Len(orgQueue) + Len(q), NEW j \in 1..Len(orgQueue) + Len(q),
                   (orgQueue \o q)[i] = (orgQueue \o q)[j]
            PROVE  i = j
        <4>1. /\ \A a, b \in 1..Len(orgQueue) : orgQueue[a] = orgQueue[b] => a = b
              /\ \A a, b \in 1..Len(q) : q[a] = q[b] => a = b
              /\ Len(q) \in Nat /\ Len(orgQueue) \in Nat
          BY <2>4, <2>5 DEF IsQueue, IsInjective
        <4>2. CASE i <= Len(orgQueue) /\ j <= Len(orgQueue)
          BY <3>1, <3>2, <4>1, <4>2
        <4>3. CASE i > Len(orgQueue) /\ j > Len(orgQueue)
          <5>1. i - Len(orgQueue) \in 1..Len(q) /\ j - Len(orgQueue) \in 1..Len(q)
            BY <4>1, <4>3
          <5>2. q[i - Len(orgQueue)] = q[j - Len(orgQueue)]
            BY <3>1, <3>2, <4>1, <4>3
          <5>3. i - Len(orgQueue) = j - Len(orgQueue)
            BY <4>1, <5>1, <5>2
          <5>4. QED
            BY <4>1, <5>3
        <4>4. CASE i <= Len(orgQueue) /\ j > Len(orgQueue)
          BY <2>6, <3>1, <3>2, <4>1, <4>4
        <4>5. CASE i > Len(orgQueue) /\ j <= Len(orgQueue)
          BY <2>6, <3>1, <3>2, <4>1, <4>5
        <4>6. QED
          BY <4>1, <4>2, <4>3, <4>4, <4>5
      <3>3. QED
        BY <3>1, <3>2 DEF IsQueue, IsInjective
    <2>8. QED
      BY <2>1, <2>3, <2>7 DEF EnqueueAll
  <1>3. orgQueue # <<>> => IsQueue(Tail(orgQueue)) /\ Head(orgQueue) \in Orgs
    BY DEF IsQueue, IsInjective
  <1>4. QED
    BY <1>1, <1>2, <1>3 DEF Enqueue

-----------------------------------------------------------------------------
(* What a pass does to its record and to dex. *)

\* A stage follows a stage, and conditions stay conditions.
LEMMA PassFacts ==
    ASSUME orgPass \in Pass, NEW stage \in Stages, NEW c \in SUBSET Conditions
    PROVE  /\ Continue(stage, c) => /\ orgPass' \in Pass /\ orgPass'.o = orgPass.o
                                    /\ orgPass'.at = stage /\ orgPass'.spec = orgPass.spec
           /\ Fail(c) => /\ orgPass' \in Pass /\ orgPass'.o = orgPass.o /\ orgPass'.at = "status"
  BY DEF Pass, Continue, Fail, Stages

\* Who is in a stage runs a pass.
LEMMA InPass ==
    ASSUME OrgTypeOK, orgPass.at \in Stages
    PROVE  orgPass \in Pass /\ orgPass # Idle /\ orgPass.o \in Orgs /\ orgPass.spec \in Specs
  BY DEF OrgTypeOK, Pass, Idle, Stages

\* Of the connectors and clients, a change from d to e is confined to those of o; the
\* shared client gets and loses the redirect of o, and comes and goes only for its own
\* organization.
Confined(d, e, o) ==
    /\ e.proxies = d.proxies
    /\ e.connectors \subseteq d.connectors \cup {o}
    /\ \A q \in Orgs \ {o, Default} : e.clients[q] = d.clients[q]
    /\ o # Default => /\ d.clients[Default] = NoClient => e.clients[Default] = NoClient
                      /\ e.clients[Default] \subseteq d.clients[Default] \cup {o}
    /\ o = Default => e.clients[Default] \subseteq d.clients[Default] \cup {o, Custom} \cup NoClient

\* The entries of one organization: what EnsureOIDC adds to dex, up to wherever it gets,
\* is the connector of o, the client of o and the redirect of o to the shared client.
LEMMA DexStepsFacts ==
    ASSUME NEW d \in Dex, NEW o \in Orgs, NEW custom \in BOOLEAN, NEW n \in 0..3,
           n = 3 => o # Default /\ d.clients[Default] # NoClient
    PROVE  DexSteps(d, o, custom, n) \in Dex /\ Confined(d, DexSteps(d, o, custom, n), o)
  <1> USE OrgsAssumption DEF Confined
  <1>1. PICK d1 : d1 = reconcileDexConnector(d, o)
    OBVIOUS
  <1>2. d1 \in Dex /\ d1.connectors = d.connectors \cup {o} /\ d1.clients = d.clients /\ d1.proxies = d.proxies
    BY <1>1 DEF reconcileDexConnector, Dex
  <1>3. PICK c : c = OAuth2Client(o, custom, d1.clients[o])
    OBVIOUS
  <1>4. /\ c \in SUBSET Redirects
        /\ c \subseteq {o, Custom} \cup (IF o = Default THEN d.clients[o] ELSE {})
    BY <1>2, <1>3 DEF OAuth2Client, getRedirects, getRedirectForOrg, Redirects, NoClient, Dex
  <1>5. PICK d2 : d2 = [d1 EXCEPT !.clients[o] = c]
    OBVIOUS
  <1>6. /\ d2 \in Dex /\ d2.connectors = d.connectors \cup {o} /\ d2.proxies = d.proxies
        /\ d2.clients = [d.clients EXCEPT ![o] = c]
    BY <1>2, <1>4, <1>5 DEF Dex
  <1>7. d2 = reconcileOAuth2Client(d1, o, custom)
    BY <1>3, <1>5 DEF reconcileOAuth2Client
  <1>8. PICK d3 : d3 = appendRedirectsToDefaultConnector(d2, o)
    OBVIOUS
  <1>9. /\ d.clients \in [Orgs -> {NoClient} \cup SUBSET Redirects]
        /\ d2.clients[o] = c /\ \A q \in Orgs \ {o} : d2.clients[q] = d.clients[q]
    BY <1>6 DEF Dex
  <1>10. ASSUME n = 3
         PROVE  /\ d3 \in Dex /\ d3.connectors = d2.connectors /\ d3.proxies = d2.proxies
                /\ \A q \in Orgs \ {Default} : d3.clients[q] = d2.clients[q]
                /\ d3.clients[Default] = d.clients[Default] \cup {o}
    <2>1. d2.clients[Default] = d.clients[Default] /\ d.clients[Default] \in SUBSET Redirects
      BY <1>9, <1>10
    <2>2. d2.clients[Default] \cup {o} \in SUBSET Redirects
      BY <2>1 DEF Redirects
    <2>3. d3 = [d2 EXCEPT !.clients[Default] = d2.clients[Default] \cup {o}]
      BY <1>8 DEF appendRedirectsToDefaultConnector, getRedirectForOrg
    <2>4. QED
      BY <1>6, <2>1, <2>2, <2>3 DEF Dex
  <1>11. DexSteps(d, o, custom, n) = IF n = 0 THEN d ELSE IF n = 1 THEN d1 ELSE IF n = 2 THEN d2 ELSE d3
    BY <1>1, <1>7, <1>8 DEF DexSteps
  <1>12. CASE n = 0
    BY <1>11, <1>12
  <1>13. CASE n = 1
    BY <1>2, <1>11, <1>13
  <1>14. CASE n = 2
    BY <1>4, <1>6, <1>9, <1>11, <1>14
  <1>15. CASE n = 3
    BY <1>6, <1>9, <1>10, <1>11, <1>15
  <1>16. QED
    BY <1>12, <1>13, <1>14, <1>15

IsOut(d, o) == o \notin d.connectors /\ d.clients[o] = NoClient /\ o \notin d.clients[Default]

\* What EnsureDeleted takes out of dex, up to wherever it gets, are the same entries; if
\* it gets to the end, all of them.
LEMMA CleanedFacts ==
    ASSUME NEW d \in Dex, NEW o \in Orgs, NEW n \in 0..3, d.clients[Default] = NoClient => n = 0
    PROVE  /\ Cleaned(d, o, n) \in Dex /\ Confined(d, Cleaned(d, o, n), o)
           /\ n = 3 => IsOut(Cleaned(d, o, n), o)
  <1> USE OrgsAssumption DEF Confined, IsOut
  <1>0. /\ d.clients \in [Orgs -> {NoClient} \cup SUBSET Redirects]
        /\ n # 0 => d.clients[Default] \in SUBSET Redirects
        /\ o \notin NoClient
    BY DEF Dex, NoClient
  <1>1. PICK d1 : d1 = removeAuthRedirectFromDefaultConnector(d, o)
    OBVIOUS
  <1>2. ASSUME n # 0
        PROVE  /\ d1 \in Dex /\ d1.connectors = d.connectors /\ d1.proxies = d.proxies
               /\ \A q \in Orgs \ {Default} : d1.clients[q] = d.clients[q]
               /\ d1.clients[Default] = d.clients[Default] \ {o}
    <2>1. d.clients[Default] \ {o} \in SUBSET Redirects
      BY <1>0, <1>2
    <2>2. d1 = [d EXCEPT !.clients[Default] = d.clients[Default] \ {o}]
      BY <1>1 DEF removeAuthRedirectFromDefaultConnector, getRedirectForOrg
    <2>3. QED
      BY <2>1, <2>2 DEF Dex
  <1>3. PICK d2 : d2 = deleteDexConnector(d1, o)
    OBVIOUS
  <1>4. ASSUME n # 0
        PROVE  d2 \in Dex /\ d2.connectors = d.connectors \ {o} /\ d2.proxies = d.proxies /\ d2.clients = d1.clients
    BY <1>2, <1>3, <1>4 DEF deleteDexConnector, Dex
  <1>5. PICK d3 : d3 = deleteOAuth2Client(d2, o)
    OBVIOUS
  <1>6. ASSUME n # 0
        PROVE  /\ d3 \in Dex /\ d3.connectors = d2.connectors /\ d3.proxies = d2.proxies
               /\ d3.clients[o] = NoClient /\ \A q \in Orgs \ {o} : d3.clients[q] = d2.clients[q]
    BY <1>4, <1>5, <1>6 DEF deleteOAuth2Client, Dex
  <1>7. Cleaned(d, o, n) = IF n = 0 THEN d ELSE IF n = 1 THEN d1 ELSE IF n = 2 THEN d2 ELSE d3
    BY <1>1, <1>3, <1>5 DEF Cleaned
  <1>8. CASE n = 0
    BY <1>7, <1>8
  <1>9. CASE n = 1
    BY <1>2, <1>7, <1>9
  <1>10. CASE n = 2
    BY <1>2, <1>4, <1>7, <1>10
  <1>11. CASE n = 3
    <2>1. /\ d3.connectors = d.connectors \ {o} /\ d3.proxies = d.proxies /\ d3 \in Dex
          /\ d3.clients[o] = NoClient /\ \A q \in Orgs \ {o} : d3.clients[q] = d1.clients[q]
      BY <1>4, <1>6, <1>11
    <2>2. o # Default => d3.clients[Default] = d.clients[Default] \ {o}
      BY <1>2, <1>11, <2>1
    <2>3. \A q \in Orgs \ {o, Default} : d3.clients[q] = d.clients[q]
      BY <1>2, <1>11, <2>1
    <2>4. o \notin d3.clients[Default]
      BY <1>0, <2>1, <2>2
    <2>5. Cleaned(d, o, n) = d3
      BY <1>7, <1>11
    <2>6. CASE o = Default
      BY <1>11, <2>1, <2>3, <2>4, <2>5, <2>6
    <2>7. CASE o # Default
      BY <1>11, <2>1, <2>2, <2>3, <2>4, <2>5, <2>7
    <2>8. QED
      BY <2>6, <2>7
  <1>12. QED
    BY <1>8, <1>9, <1>10, <1>11

-----------------------------------------------------------------------------
(* How the parts of the invariant are kept. *)

Left(o) == org[o].state \in {"gone", "absent"} /\ org[o].spec.oidc

\* The part of the invariant that is about organizations.
OrgInv == OrgTypeOK /\ PassIsCurrent /\ LeavesDex /\ ProxyHasClient

\* The types with the names used here.
LEMMA OrgTypes ==
    OrgTypeOK <=>
       /\ org \in [Orgs -> Organizations] /\ IsQueue(orgQueue) /\ orgPass \in {Idle} \cup Pass
       /\ owned \in [Orgs -> 0..Len(GroupCondition)] /\ dex \in Dex
       /\ secret \in [Orgs -> {"none", "empty", "full"}] /\ cached \in [Orgs -> {"none", "empty", "full"}]
       /\ plugins \in SUBSET Orgs /\ proxyDef \in BOOLEAN /\ scim \in {"up", "down", "noGroup"}
  BY DEF OrgTypeOK, Organizations, IsQueue, Pass, Dex

\* Organizations stay out of dex if only the entries of o change and o, should it have
\* left, is out too.
LEMMA OthersStayOut ==
    ASSUME OrgTypeOK, LeavesDex, NEW o \in Orgs,
           NEW d, d = dex', Confined(dex, d, o),
           \A q \in Orgs \ {o} : Left(q)' => Left(q),
           Left(o)' => IsOut(d, o)
    PROVE  LeavesDex'
  <1> USE OrgsAssumption DEF Confined, IsOut
  <1>1. SUFFICES ASSUME NEW q \in Orgs, Left(q)'
                 PROVE  /\ q \notin dex'.connectors /\ dex'.clients[q] = NoClient
                        /\ q \notin dex'.clients[Default]
    BY DEF LeavesDex, Left, getRedirectForOrg
  <1>2. CASE q = o
    BY <1>1, <1>2
  <1>3. CASE q # o
    <2>1. Left(q)
      BY <1>1, <1>3
    <2>2. q \notin dex.connectors /\ dex.clients[q] = NoClient /\ q \notin dex.clients[Default]
      BY <2>1 DEF LeavesDex, Left, getRedirectForOrg
    <2>3. q \notin {Custom} /\ q \notin NoClient
      BY DEF Custom, NoClient
    <2>4. q \notin dex'.connectors /\ q \notin dex'.clients[Default]
      BY <1>3, <2>2, <2>3
    <2>5. dex'.clients[q] = NoClient
      BY <1>3, <2>2
    <2>6. QED
      BY <2>4, <2>5
  <1>4. QED
    BY <1>2, <1>3

\* A step that leaves connectors and clients alone and lets nobody go.
LEMMA NobodyLeaves ==
    ASSUME LeavesDex, dex'.connectors = dex.connectors, dex'.clients = dex.clients,
           \A q \in Orgs : Left(q)' => Left(q)
    PROVE  LeavesDex'
  BY DEF LeavesDex, Left

\* A step that changes no organization, and dex at most in the clients of service proxies,
\* which it does not delete.
LEMMA Quiet ==
    ASSUME OrgInv, org' = org, IsQueue(orgQueue'), orgPass' = orgPass \/ orgPass' = Idle,
           owned' \in [Orgs -> 0..Len(GroupCondition)], dex' \in Dex,
           dex'.connectors = dex.connectors, dex'.clients = dex.clients,
           \A o \in Orgs : dex.proxies[o] # "none" => dex'.proxies[o] # "none",
           secret' \in [Orgs -> {"none", "empty", "full"}], cached' \in [Orgs -> {"none", "empty", "full"}],
           plugins' \subseteq plugins, proxyDef' \in BOOLEAN, scim' \in {"up", "down", "noGroup"}
    PROVE  OrgInv'
  <1>1. OrgTypeOK'
    BY OrgTypes DEF OrgInv, OrgTypeOK, IsQueue, Dex
  <1>2. PassIsCurrent'
    BY DEF OrgInv, PassIsCurrent
  <1>3. \A q \in Orgs : Left(q)' => Left(q)
    BY DEF Left
  <1>4. LeavesDex'
    BY <1>3, NobodyLeaves DEF OrgInv
  <1>5. ProxyHasClient'
    <2>1. plugins \subseteq Orgs /\ \A o \in plugins : dex.proxies[o] # "none"
      BY DEF OrgInv, OrgTypeOK, ProxyHasClient
    <2>2. QED
      BY <2>1 DEF ProxyHasClient
  <1>6. QED
    BY <1>1, <1>2, <1>4, <1>5 DEF OrgInv

\* A pass goes on to a stage other than the cleanup: its organization is still there.
LEMMA GoesOn ==
    ASSUME OrgInv, orgPass \in Pass, orgPass # Idle, org' = org,
           orgPass' \in Pass, orgPass'.o = orgPass.o, orgPass'.at # "cleanup"
    PROVE  PassIsCurrent'
  BY DEF OrgInv, PassIsCurrent

-----------------------------------------------------------------------------
(* The stages of a pass. *)

\* The phase is chosen by the organization as it is.
LEMMA StartPassKeeps ==
    ASSUME OrgInv, NEW o \in Orgs, StartPass(o)
    PROVE  OrgInv'
  <1>1. /\ org \in [Orgs -> Organizations] /\ IsQueue(orgQueue)
        /\ org[o] \in Organizations /\ org[o].spec \in Specs /\ org[o].false \in SUBSET Conditions
        /\ org[o].state \in {"live", "deleting", "gone", "absent"}
    BY OrgTypes DEF OrgInv, Organizations
  <1>2. UNCHANGED <<org, owned, dex, secret, cached, plugins, proxyDef, scim>>
    BY DEF StartPass
  <1>3. IsQueue(orgQueue')
    BY <1>1, QueueFacts, OrgsAssumption DEF StartPass
  <1>4. CASE org[o].state \in {"gone", "absent"}
    <2>1. orgPass' = Idle
      BY <1>4 DEF StartPass
    <2>2. QED
      BY <1>2, <1>3, <2>1, Quiet DEF OrgInv, OrgTypeOK, Dex
  <1>5. CASE org[o].state \in {"live", "deleting"}
    <2>1. orgPass' = [o |-> o, spec |-> org[o].spec, false |-> org[o].false, failed |-> FALSE,
                      at |-> IF Live(o) THEN "foundation" ELSE "cleanup"]
      BY <1>5 DEF StartPass
    <2>2. orgPass' \in Pass /\ orgPass'.o = o /\ orgPass'.spec = org[o].spec
          /\ (orgPass'.at = "cleanup" => org[o].state = "deleting")
      BY <1>1, <1>5, <2>1 DEF Pass, Stages, Live
    <2>3. OrgTypeOK'
      BY <1>2, <1>3, <2>2, OrgTypes DEF OrgInv, OrgTypeOK, Pass, Dex, IsQueue
    <2>4. PassIsCurrent'
      BY <1>2, <1>5, <2>2 DEF PassIsCurrent
    <2>5. LeavesDex' /\ ProxyHasClient'
      BY <1>2 DEF OrgInv, LeavesDex, ProxyHasClient
    <2>6. QED
      BY <2>3, <2>4, <2>5 DEF OrgInv
  <1>6. QED
    BY <1>1, <1>4, <1>5

\* The stages that leave organizations and dex alone, other than for its new record.
LEMMA StageKeeps ==
    ASSUME OrgInv, orgPass \in Pass, orgPass # Idle,
           orgPass' \in Pass, orgPass'.o = orgPass.o, orgPass'.at # "cleanup",
           IsQueue(orgQueue'), owned' \in [Orgs -> 0..Len(GroupCondition)],
           UNCHANGED <<org, dex, secret, cached, plugins, proxyDef, scim>>
    PROVE  OrgInv'
  <1>1. OrgTypeOK'
    BY OrgTypes DEF OrgInv, OrgTypeOK, Pass, Dex, IsQueue
  <1>2. LeavesDex' /\ ProxyHasClient'
    BY DEF OrgInv, LeavesDex, ProxyHasClient
  <1>3. QED
    BY <1>1, <1>2, GoesOn DEF OrgInv

\* EnsureCreated makes the objects of an organization, or some of them.
LEMMA FoundationKeeps ==
    ASSUME OrgInv, EnsureFoundation
    PROVE  OrgInv'
  <1>1. orgPass \in Pass /\ orgPass # Idle /\ orgPass.spec \in Specs
    BY InPass DEF EnsureFoundation, At, Stages, OrgInv
  <1>2. PICK o \in Orgs : o = orgPass.o
    BY <1>1 DEF Pass
  <1>3. /\ Len(Groups(o)) = 4 /\ Len(GroupCondition) = 4
        /\ \A i \in 1..4 : GroupCondition[i] \in Conditions
    BY DEF Groups, GroupCondition, Conditions
  <1>4. PICK n \in 0..4 :
           /\ owned' = [owned EXCEPT ![o] = IF n > @ THEN n ELSE @]
           /\ IF n < 4
              THEN orgPass' = [orgPass EXCEPT !.at = "status", !.failed = TRUE,
                                 !.false = (@ \ {GroupCondition[i] : i \in 1..n})
                                              \cup {GroupCondition[n + 1]}]
              ELSE Continue(IF Snapshot.oidc THEN "dex" ELSE "serviceProxy",
                            {"namespace", "rbac", "teamRoles"})
    BY <1>2, <1>3 DEF EnsureFoundation, This
  <1>5. orgPass' \in Pass /\ orgPass'.o = orgPass.o /\ orgPass'.at # "cleanup"
    <2>1. CASE n < 4
      <3>1. PICK f \in SUBSET Conditions : f = (orgPass.false \ {GroupCondition[i] : i \in 1..n})
                                                  \cup {GroupCondition[n + 1]}
        <4>1. GroupCondition[n + 1] \in Conditions /\ orgPass.false \subseteq Conditions
          BY <1>1, <1>3, <2>1 DEF Pass
        <4>2. QED
          BY <4>1
      <3>2. orgPass' = [orgPass EXCEPT !.at = "status", !.failed = TRUE, !.false = f]
        BY <1>4, <2>1, <3>1
      <3>3. QED
        BY <1>1, <3>2 DEF Pass, Stages
    <2>2. CASE ~(n < 4)
      <3>1. PICK stage \in {"dex", "serviceProxy"} : Continue(stage, {"namespace", "rbac", "teamRoles"})
        BY <1>4, <2>2
      <3>2. {"namespace", "rbac", "teamRoles"} \in SUBSET Conditions /\ stage \in Stages
        BY DEF Conditions, Stages
      <3>3. QED
        BY <1>1, <3>1, <3>2, PassFacts
    <2>3. QED
      BY <2>1, <2>2
  <1>6. owned' \in [Orgs -> 0..Len(GroupCondition)]
    BY <1>3, <1>4, OrgTypes DEF OrgInv
  <1>7. IsQueue(orgQueue')
    <2>1. IsQueue(orgQueue)
      BY OrgTypes DEF OrgInv
    <2>2. orgQueue' = orgQueue \/ orgQueue' = Enqueue(o)
      BY <1>2 DEF EnsureFoundation, This
    <2>3. QED
      BY <2>1, <2>2, QueueFacts, OrgsAssumption
  <1>8. UNCHANGED <<org, dex, secret, cached, plugins, proxyDef, scim>>
    BY DEF EnsureFoundation
  <1>9. QED
    BY <1>1, <1>5, <1>6, <1>7, <1>8, StageKeeps

\* The admin Team fails, or there is no proxy to install.
LEMMA NoProxyKeeps ==
    ASSUME OrgInv, reconcileAdminTeam \/ reconcileServiceProxy
    PROVE  OrgInv'
  <1>1. orgPass \in Pass /\ orgPass # Idle
    BY InPass DEF reconcileAdminTeam, reconcileServiceProxy, At, Stages, OrgInv
  <1>2. orgPass' \in Pass /\ orgPass'.o = orgPass.o /\ orgPass'.at # "cleanup"
    <2>1. CASE reconcileAdminTeam
      <3>1. {"adminTeam"} \in SUBSET Conditions /\ "status" \in Stages
        BY DEF Conditions, Stages
      <3>2. QED
        BY <1>1, <2>1, <3>1, PassFacts DEF reconcileAdminTeam
    <2>2. CASE reconcileServiceProxy
      <3>1. PICK unread \in BOOLEAN :
               orgPass' = [orgPass EXCEPT !.at = "status",
                             !.false = (@ \ {"adminTeam"})
                                \cup (IF proxyDef /\ ~unread THEN {} ELSE {"serviceProxy"})]
        BY <2>2 DEF reconcileServiceProxy
      <3>2. PICK f \in SUBSET Conditions :
               f = (orgPass.false \ {"adminTeam"})
                      \cup (IF proxyDef /\ ~unread THEN {} ELSE {"serviceProxy"})
        BY <1>1 DEF Pass, Conditions
      <3>3. orgPass' = [orgPass EXCEPT !.at = "status", !.false = f]
        BY <3>1, <3>2
      <3>4. QED
        BY <1>1, <3>3 DEF Pass, Stages
    <2>3. QED
      BY <2>1, <2>2
  <1>3. UNCHANGED <<org, orgQueue, owned, dex, secret, cached, plugins, proxyDef, scim>>
    BY DEF reconcileAdminTeam, reconcileServiceProxy
  <1>4. QED
    BY <1>1, <1>2, <1>3, StageKeeps, OrgTypes DEF OrgInv

\* EnsureOIDC touches the entries of an organization that is still there.
LEMMA OIDCKeeps ==
    ASSUME OrgInv, EnsureOIDC
    PROVE  OrgInv'
  <1>1. orgPass \in Pass /\ orgPass # Idle /\ orgPass.spec \in Specs /\ dex \in Dex
    BY InPass, OrgTypes DEF EnsureOIDC, At, Stages, OrgInv
  <1>2. PICK o \in Orgs : o = orgPass.o
    BY <1>1 DEF Pass
  <1>3. PICK custom \in BOOLEAN : custom = orgPass.spec.custom
    BY <1>1 DEF Specs
  <1>4. PICK n \in 0..3 :
           /\ n = 3 => o # Default /\ dex.clients[Default] # NoClient
           /\ dex' = DexSteps(dex, o, custom, n)
           /\ Fail({"oidc"}) \/ Continue("serviceProxy", {"oidc"})
    BY <1>2, <1>3 DEF EnsureOIDC, This, Snapshot
  <1>5. UNCHANGED <<org, orgQueue, owned, secret, cached, plugins, proxyDef, scim>>
    BY DEF EnsureOIDC
  <1>6. orgPass' \in Pass /\ orgPass'.o = orgPass.o /\ orgPass'.at # "cleanup"
    <2>1. {"oidc"} \in SUBSET Conditions /\ "serviceProxy" \in Stages
      BY DEF Conditions, Stages
    <2>2. QED
      BY <1>1, <1>4, <2>1, PassFacts
  <1>d. PICK d : d = dex'
    OBVIOUS
  <1>7. d \in Dex /\ Confined(dex, d, o)
    BY <1>1, <1>4, <1>d, DexStepsFacts
  <1>8. \A q \in Orgs : Left(q)' <=> Left(q)
    BY <1>5 DEF Left
  <1>9. ~Left(o)
    BY <1>1, <1>2 DEF OrgInv, PassIsCurrent, Left
  <1>10. LeavesDex'
    BY <1>d, <1>7, <1>8, <1>9, OthersStayOut DEF OrgInv
  <1>11. PassIsCurrent'
    BY <1>1, <1>5, <1>6, GoesOn
  <1>12. OrgTypeOK' /\ ProxyHasClient'
    BY <1>5, <1>6, <1>d, <1>7, OrgTypes
    DEF OrgInv, OrgTypeOK, Pass, Dex, IsQueue, ProxyHasClient, Confined
  <1>13. QED
    BY <1>10, <1>11, <1>12 DEF OrgInv

\* The client of the service proxy is in dex before its Plugin is made; dex may know it
\* under another secret, but knows it.
LEMMA ServiceProxyKeeps ==
    ASSUME OrgInv, EnsureServiceProxy
    PROVE  OrgInv'
  <1>1. orgPass \in Pass /\ orgPass # Idle
    BY InPass DEF EnsureServiceProxy, At, Stages, OrgInv
  <1>2. PICK o \in Orgs : o = orgPass.o
    BY <1>1 DEF Pass
  <1>3. /\ dex \in Dex /\ secret \in [Orgs -> {"none", "empty", "full"}] /\ plugins \in SUBSET Orgs
        /\ IsQueue(orgQueue)
    BY OrgTypes DEF OrgInv
  <1>4. PICK stored \in {"none", "empty", "full"} : stored = getOrCreateOrgSecret(o)
    BY <1>3 DEF getOrCreateOrgSecret
  <1>5. PICK failsAt \in {"secret", "dex", "update", "plugin", "never"} :
           /\ IF failsAt \in {"secret", "dex"}
              THEN /\ secret' = [secret EXCEPT ![o] = IF failsAt = "dex" THEN stored ELSE @]
                   /\ UNCHANGED dex
              ELSE reconcileOAuth2ProxySecret(o, failsAt # "update")
           /\ IF failsAt = "never"
              THEN Continue("status", {"adminTeam", "serviceProxy"}) /\ plugins' = plugins \cup {o}
              ELSE /\ orgPass' = [orgPass EXCEPT !.at = "status", !.failed = TRUE,
                                    !.false = (@ \ {"adminTeam"}) \cup {"serviceProxy"}]
                   /\ UNCHANGED plugins
    BY <1>2, <1>4 DEF EnsureServiceProxy, This, reconcileServiceProxyPlugin
  <1>6. UNCHANGED <<org, owned, cached, proxyDef, scim>>
    BY DEF EnsureServiceProxy
  <1>7. orgPass' \in Pass /\ orgPass'.o = orgPass.o /\ orgPass'.at # "cleanup"
    <2>1. CASE failsAt = "never"
      <3>1. {"adminTeam", "serviceProxy"} \in SUBSET Conditions /\ "status" \in Stages
        BY DEF Conditions, Stages
      <3>2. QED
        BY <1>1, <1>5, <2>1, <3>1, PassFacts
    <2>2. CASE failsAt # "never"
      <3>1. PICK f \in SUBSET Conditions : f = (orgPass.false \ {"adminTeam"}) \cup {"serviceProxy"}
        BY <1>1 DEF Pass, Conditions
      <3>2. orgPass' = [orgPass EXCEPT !.at = "status", !.failed = TRUE, !.false = f]
        BY <1>5, <2>2, <3>1
      <3>3. QED
        BY <1>1, <3>2 DEF Pass, Stages
    <2>3. QED
      BY <2>1, <2>2
  <1>8. /\ secret' \in [Orgs -> {"none", "empty", "full"}]
        /\ dex' = dex \/ \E v \in {"match", "differ"} : dex' = [dex EXCEPT !.proxies[o] = v]
        /\ failsAt = "never" => \E v \in {"match", "differ"} : dex' = [dex EXCEPT !.proxies[o] = v]
    <2>1. CASE failsAt \in {"secret", "dex"}
      BY <1>3, <1>5, <2>1
    <2>2. CASE failsAt \notin {"secret", "dex"}
      <3>1. reconcileOAuth2ProxySecret(o, failsAt # "update")
        BY <1>5, <2>2
      <3>2. PICK new \in {"none", "empty", "full"} : secret' = [secret EXCEPT ![o] = new]
        BY <1>4, <3>1 DEF reconcileOAuth2ProxySecret, StoreSecret
      <3>3. \E v \in {"match", "differ"} : dex' = [dex EXCEPT !.proxies[o] = v]
        BY <3>1 DEF reconcileOAuth2ProxySecret
      <3>4. QED
        BY <1>3, <3>2, <3>3
    <2>3. QED
      BY <2>1, <2>2
  <1>9. /\ dex' \in Dex /\ dex'.connectors = dex.connectors /\ dex'.clients = dex.clients
        /\ \A q \in Orgs : dex.proxies[q] # "none" => dex'.proxies[q] # "none"
        /\ failsAt = "never" => dex'.proxies[o] # "none"
    <2>1. CASE dex' = dex /\ failsAt # "never"
      BY <1>3, <2>1
    <2>2. CASE \E v \in {"match", "differ"} : dex' = [dex EXCEPT !.proxies[o] = v]
      BY <1>3, <2>2 DEF Dex
    <2>3. QED
      BY <1>8, <2>1, <2>2
  <1>10. plugins' \in SUBSET Orgs /\ \A q \in plugins' : dex'.proxies[q] # "none"
    <2>1. \A q \in plugins : dex.proxies[q] # "none"
      BY DEF OrgInv, ProxyHasClient
    <2>2. QED
      BY <1>3, <1>5, <1>9, <2>1
  <1>11. IsQueue(orgQueue')
    <2>1. orgQueue' = orgQueue \/ orgQueue' = Enqueue(o)
      BY <1>2 DEF EnsureServiceProxy, This
    <2>2. QED
      BY <1>3, <2>1, QueueFacts, OrgsAssumption
  <1>12. OrgTypeOK'
    BY <1>6, <1>7, <1>8, <1>9, <1>10, <1>11, OrgTypes DEF OrgInv, OrgTypeOK, Pass, Dex, IsQueue
  <1>13. \A q \in Orgs : Left(q)' => Left(q)
    BY <1>6 DEF Left
  <1>14. LeavesDex'
    BY <1>9, <1>13, NobodyLeaves DEF OrgInv
  <1>15. PassIsCurrent'
    BY <1>1, <1>6, <1>7, GoesOn
  <1>16. QED
    BY <1>10, <1>12, <1>14, <1>15 DEF OrgInv, ProxyHasClient

\* The patch of the status ends the pass and changes neither the state nor the spec.
LEMMA SetStatusKeeps ==
    ASSUME OrgInv, setStatus
    PROVE  OrgInv'
  <1>1. orgPass \in Pass
    BY InPass DEF setStatus, At, Stages, OrgInv
  <1>2. PICK o \in Orgs : o = orgPass.o
    BY <1>1 DEF Pass
  <1>3. org \in [Orgs -> Organizations] /\ IsQueue(orgQueue)
    BY OrgTypes DEF OrgInv
  <1>4. /\ orgPass' = Idle /\ orgQueue' \in {orgQueue, Enqueue(o)}
        /\ UNCHANGED <<owned, dex, secret, cached, plugins, proxyDef, scim>>
    BY <1>2 DEF setStatus, This
  <1>5. IsQueue(orgQueue')
    BY <1>3, <1>4, QueueFacts, OrgsAssumption
  <1>6. org' = org \/ \E api \in {"Unknown", "True", "False"}, ready \in {"True", "False"} :
           org' = [org EXCEPT ![o].scimAPI = api, ![o].ready = ready, ![o].false = orgPass.false]
    <2>1. PICK api \in {"Unknown", "True", "False"} : api = checkSCIMAPIAvailability(Snapshot)
      BY DEF checkSCIMAPIAvailability
    <2>2. PICK ready \in {"True", "False"} : ready = calculateReadyCondition(api)
      BY DEF calculateReadyCondition
    <2>3. org' = org \/ org' = [org EXCEPT ![o].scimAPI = api, ![o].ready = ready, ![o].false = orgPass.false]
      BY <1>2, <2>1, <2>2 DEF setStatus, This
    <2>4. QED
      BY <2>3
  <1>7. /\ org' \in [Orgs -> Organizations]
        /\ \A q \in Orgs : org'[q].state = org[q].state /\ org'[q].spec = org[q].spec
    <2>1. CASE org' = org
      BY <1>3, <2>1
    <2>2. CASE \E api \in {"Unknown", "True", "False"}, ready \in {"True", "False"} :
             org' = [org EXCEPT ![o].scimAPI = api, ![o].ready = ready, ![o].false = orgPass.false]
      <3>1. PICK f \in SUBSET Conditions : f = orgPass.false
        BY <1>1 DEF Pass
      <3>2. PICK api \in {"Unknown", "True", "False"}, ready \in {"True", "False"} :
               org' = [org EXCEPT ![o].scimAPI = api, ![o].ready = ready, ![o].false = f]
        BY <2>2, <3>1
      <3>3. PICK org1 : org1 = [org EXCEPT ![o].scimAPI = api]
        OBVIOUS
      <3>4. PICK org2 : org2 = [org1 EXCEPT ![o].ready = ready]
        OBVIOUS
      <3>5. org' = [org2 EXCEPT ![o].false = f]
        BY <3>2, <3>3, <3>4
      <3>6. /\ org1 \in [Orgs -> Organizations]
            /\ \A q \in Orgs : org1[q].state = org[q].state /\ org1[q].spec = org[q].spec
        BY <1>3, <3>3 DEF Organizations
      <3>7. /\ org2 \in [Orgs -> Organizations]
            /\ \A q \in Orgs : org2[q].state = org1[q].state /\ org2[q].spec = org1[q].spec
        BY <3>4, <3>6 DEF Organizations
      <3>8. /\ org' \in [Orgs -> Organizations]
            /\ \A q \in Orgs : org'[q].state = org2[q].state /\ org'[q].spec = org2[q].spec
        BY <3>5, <3>7 DEF Organizations
      <3>9. QED
        BY <3>6, <3>7, <3>8
    <2>3. QED
      BY <1>6, <2>1, <2>2
  <1>8. OrgTypeOK'
    BY <1>4, <1>5, <1>7, OrgTypes DEF OrgInv, OrgTypeOK, Organizations, Dex, IsQueue
  <1>9. PassIsCurrent' /\ ProxyHasClient'
    BY <1>4 DEF OrgInv, PassIsCurrent, ProxyHasClient
  <1>10. \A q \in Orgs : Left(q)' => Left(q)
    BY <1>7 DEF Left
  <1>11. LeavesDex'
    BY <1>4, <1>10, NobodyLeaves DEF OrgInv
  <1>12. QED
    BY <1>8, <1>9, <1>11 DEF OrgInv

\* An organization with an OIDC configuration is let go only after all of its entries
\* are out of dex: the cleanup goes by the configuration the organization leaves with.
LEMMA DeletionKeeps ==
    ASSUME OrgInv, EnsureDeleted
    PROVE  OrgInv'
  <1>1. orgPass \in Pass /\ orgPass # Idle /\ orgPass.spec \in Specs
    BY InPass DEF EnsureDeleted, At, Stages, OrgInv
  <1>2. PICK o \in Orgs : o = orgPass.o
    BY <1>1 DEF Pass
  <1>3. org \in [Orgs -> Organizations] /\ IsQueue(orgQueue) /\ dex \in Dex
    BY OrgTypes DEF OrgInv
  <1>4. org[o].state = "deleting" /\ orgPass.spec = org[o].spec
    BY <1>1, <1>2 DEF EnsureDeleted, At, OrgInv, PassIsCurrent
  <1>5. PICK n \in 0..3, lost \in BOOLEAN :
           /\ n = 3 \/ org[o].spec.oidc
           /\ org[o].spec.oidc /\ dex.clients[Default] = NoClient => n = 0
           /\ dex' = IF org[o].spec.oidc THEN Cleaned(dex, o, n) ELSE dex
           /\ LetGo(o, n = 3 /\ ~lost)
    BY <1>2, <1>4 DEF EnsureDeleted, This, Snapshot
  <1>6. PICK ok \in BOOLEAN : ok = (n = 3 /\ ~lost)
    OBVIOUS
  <1>7. /\ orgPass' = Idle
        /\ org' = IF ok THEN [org EXCEPT ![o].state = "gone"] ELSE org
        /\ orgQueue' \in {orgQueue, Enqueue(o)}
        /\ UNCHANGED <<owned, secret, cached, plugins, proxyDef, scim>>
    BY <1>5, <1>6 DEF LetGo
  <1>8. IsQueue(orgQueue')
    BY <1>3, <1>7, QueueFacts, OrgsAssumption
  <1>9. /\ org' \in [Orgs -> Organizations] /\ org'[o].spec = org[o].spec
        /\ \A q \in Orgs \ {o} : org'[q] = org[q]
        /\ ~ok => org' = org
    BY <1>3, <1>7 DEF Organizations
  <1>d. PICK d : d = dex'
    OBVIOUS
  <1>10. d \in Dex /\ Confined(dex, d, o) /\ (ok /\ org[o].spec.oidc => IsOut(d, o))
    <2>1. CASE org[o].spec.oidc
      <3>1. d = Cleaned(dex, o, n) /\ (dex.clients[Default] = NoClient => n = 0)
        BY <1>d, <1>5, <2>1
      <3>2. QED
        BY <1>3, <1>6, <3>1, CleanedFacts
    <2>2. CASE ~org[o].spec.oidc
      BY <1>3, <1>d, <1>5, <2>2 DEF Confined
    <2>3. QED
      BY <2>1, <2>2
  <1>11. (\A q \in Orgs \ {o} : Left(q)' => Left(q)) /\ (Left(o)' => IsOut(d, o))
    BY <1>4, <1>9, <1>10 DEF Left
  <1>12. LeavesDex'
    BY <1>d, <1>10, <1>11, OthersStayOut DEF OrgInv
  <1>13. OrgTypeOK'
    BY <1>7, <1>8, <1>9, <1>d, <1>10, OrgTypes DEF OrgInv, OrgTypeOK, Organizations, Dex, IsQueue
  <1>14. PassIsCurrent' /\ ProxyHasClient'
    BY <1>7, <1>d, <1>10 DEF OrgInv, PassIsCurrent, ProxyHasClient, Confined
  <1>15. QED
    BY <1>12, <1>13, <1>14 DEF OrgInv

\* All that the controller does.
LEMMA ControllerKeeps ==
    ASSUME OrgInv, OrgController
    PROVE  OrgInv'
  BY StartPassKeeps, FoundationKeeps, NoProxyKeeps, OIDCKeeps, ServiceProxyKeeps, SetStatusKeeps,
     DeletionKeeps DEF OrgController

-----------------------------------------------------------------------------
(* Around the controller. *)

\* The caches, a restart, Secrets, the definition of the proxy and the SCIM API.
LEMMA SurroundingsKeep ==
    ASSUME OrgInv,
           \/ \E o \in Orgs : enqueueOrganizationForReferencedSecret(o) \/ DeleteSecret(o)
           \/ ResyncOrgs \/ RestartOrgs \/ ToggleProxyDef
           \/ \E s \in {"up", "down", "noGroup"} : ScimChanges(s)
    PROVE  OrgInv'
  <1>1. /\ IsQueue(orgQueue) /\ dex \in Dex /\ owned \in [Orgs -> 0..Len(GroupCondition)]
        /\ secret \in [Orgs -> {"none", "empty", "full"}] /\ cached \in [Orgs -> {"none", "empty", "full"}]
        /\ proxyDef \in BOOLEAN /\ scim \in {"up", "down", "noGroup"}
    BY OrgTypes DEF OrgInv
  <1>2. IsQueue(EnqueueAll) /\ \A o \in Orgs : IsQueue(Enqueue(o))
    BY <1>1, QueueFacts, OrgsAssumption
  <1>3. ASSUME NEW o \in Orgs, enqueueOrganizationForReferencedSecret(o)
        PROVE  OrgInv'
    <2>1. cached' \in [Orgs -> {"none", "empty", "full"}] /\ IsQueue(orgQueue')
      BY <1>1, <1>2, <1>3 DEF enqueueOrganizationForReferencedSecret
    <2>2. UNCHANGED <<org, orgPass, owned, dex, secret, plugins, proxyDef, scim>>
      BY <1>3 DEF enqueueOrganizationForReferencedSecret
    <2>3. QED
      BY <1>1, <2>1, <2>2, Quiet
  <1>4. ASSUME NEW o \in Orgs, DeleteSecret(o)
        PROVE  OrgInv'
    <2>1. secret' \in [Orgs -> {"none", "empty", "full"}] /\ IsQueue(orgQueue')
      BY <1>1, <1>2, <1>4 DEF DeleteSecret
    <2>2. UNCHANGED <<org, orgPass, owned, cached, plugins, proxyDef, scim>>
      BY <1>4 DEF DeleteSecret
    <2>3. PICK v \in {"none", "differ"} : /\ v = "none" <=> dex.proxies[o] = "none"
                                        /\ dex' = [dex EXCEPT !.proxies[o] = v]
      <3>1. PICK v : v = IF dex.proxies[o] = "none" THEN dex.proxies[o] ELSE "differ"
        OBVIOUS
      <3>2. dex' = [dex EXCEPT !.proxies[o] = v]
        BY <1>4, <3>1 DEF DeleteSecret
      <3>3. QED
        BY <3>1, <3>2
    <2>4. /\ dex' \in Dex /\ dex'.connectors = dex.connectors /\ dex'.clients = dex.clients
          /\ \A q \in Orgs : dex.proxies[q] # "none" => dex'.proxies[q] # "none"
      BY <1>1, <2>3 DEF Dex
    <2>5. QED
      BY <1>1, <2>1, <2>2, <2>4, Quiet
  <1>5. CASE ResyncOrgs
    BY <1>1, <1>2, <1>5, Quiet DEF ResyncOrgs
  <1>6. CASE RestartOrgs
    BY <1>1, <1>2, <1>6, Quiet DEF RestartOrgs
  <1>7. CASE ToggleProxyDef
    <2>1. proxyDef' \in BOOLEAN /\ IsQueue(orgQueue')
      BY <1>2, <1>7 DEF ToggleProxyDef
    <2>2. UNCHANGED <<org, orgPass, owned, dex, secret, cached, plugins, scim>>
      BY <1>7 DEF ToggleProxyDef
    <2>3. QED
      BY <1>1, <2>1, <2>2, Quiet
  <1>8. ASSUME NEW s \in {"up", "down", "noGroup"}, ScimChanges(s)
        PROVE  OrgInv'
    BY <1>1, <1>8, Quiet DEF ScimChanges
  <1>9. QED
    BY <1>3, <1>4, <1>5, <1>6, <1>7, <1>8

\* Users change an organization that is there and create one that is not; the garbage
\* collector takes the rest of one that is gone.
LEMMA OrganizationsChange ==
    ASSUME OrgInv, NEW o \in Orgs, IsQueue(orgQueue'), UNCHANGED <<orgPass, cached, proxyDef, scim>>,
           NEW new \in Organizations, org' = [org EXCEPT ![o] = new],
           orgPass # Idle /\ o = orgPass.o =>
              /\ new.state \in {"live", "deleting"}
              /\ org[o].state = "deleting" => new.state = "deleting" /\ new.spec = org[o].spec,
           new.state \in {"gone", "absent"} /\ new.spec.oidc => Left(o),
           owned' \in [Orgs -> 0..Len(GroupCondition)], secret' \in [Orgs -> {"none", "empty", "full"}],
           dex' \in Dex, dex'.connectors = dex.connectors, dex'.clients = dex.clients,
           \A q \in Orgs : dex.proxies[q] # "none" => dex'.proxies[q] # "none",
           plugins' \subseteq plugins
    PROVE  OrgInv'
  <1>1. /\ org \in [Orgs -> Organizations] /\ plugins \in SUBSET Orgs /\ orgPass \in {Idle} \cup Pass
    BY OrgTypes DEF OrgInv
  <1>2. org' \in [Orgs -> Organizations] /\ org'[o] = new /\ \A q \in Orgs \ {o} : org'[q] = org[q]
    BY <1>1
  <1>3. OrgTypeOK'
    BY <1>1, <1>2, OrgTypes DEF OrgInv, OrgTypeOK, Organizations, Dex, IsQueue
  <1>4. PassIsCurrent'
    <2>1. CASE orgPass = Idle
      BY <2>1 DEF PassIsCurrent
    <2>2. CASE orgPass # Idle
      <3>1. PICK q \in Orgs : q = orgPass.o
        BY <1>1, <2>2 DEF Pass
      <3>2. /\ org[q].state \in {"live", "deleting"}
            /\ orgPass.at = "cleanup" => org[q].state = "deleting" /\ orgPass.spec = org[q].spec
        BY <2>2, <3>1 DEF OrgInv, PassIsCurrent
      <3>3. CASE q = o
        BY <1>2, <2>2, <3>1, <3>2, <3>3 DEF PassIsCurrent
      <3>4. CASE q # o
        BY <1>2, <2>2, <3>1, <3>2, <3>4 DEF PassIsCurrent
      <3>5. QED
        BY <3>3, <3>4
    <2>3. QED
      BY <2>1, <2>2
  <1>5. \A q \in Orgs : Left(q)' => Left(q)
    BY <1>2 DEF Left
  <1>6. LeavesDex'
    BY <1>5, NobodyLeaves DEF OrgInv
  <1>7. ProxyHasClient'
    BY <1>1 DEF OrgInv, ProxyHasClient
  <1>8. QED
    BY <1>3, <1>4, <1>6, <1>7 DEF OrgInv

\* Users edit, delete and create organizations.
LEMMA UsersKeep ==
    ASSUME OrgInv, NEW o \in Orgs,
           DeleteOrg(o) \/ CreateOrg(o) \/ \E spec \in Specs : EditOrg(o, spec)
    PROVE  OrgInv'
  <1>1. /\ org \in [Orgs -> Organizations] /\ org[o] \in Organizations /\ IsQueue(orgQueue) /\ dex \in Dex
        /\ owned \in [Orgs -> 0..Len(GroupCondition)] /\ secret \in [Orgs -> {"none", "empty", "full"}]
    BY OrgTypes DEF OrgInv
  <1>2. IsQueue(orgQueue') /\ UNCHANGED <<orgPass, owned, dex, secret, cached, plugins, proxyDef, scim>>
    BY <1>1, QueueFacts, OrgsAssumption DEF EditOrg, DeleteOrg, CreateOrg
  <1>3. ASSUME NEW spec \in Specs, EditOrg(o, spec)
        PROVE  OrgInv'
    <2>1. PICK new : new = [org[o] EXCEPT !.spec = spec]
      OBVIOUS
    <2>2. new \in Organizations /\ new.state = org[o].state /\ org[o].state = "live"
      BY <1>1, <1>3, <2>1 DEF Organizations, EditOrg, Live
    <2>3. org' = [org EXCEPT ![o] = new]
      BY <1>3, <2>1 DEF EditOrg
    <2>4. QED
      BY <1>1, <1>2, <2>2, <2>3, OrganizationsChange
  <1>4. CASE DeleteOrg(o)
    <2>1. PICK new : new = [org[o] EXCEPT !.state = "deleting"]
      OBVIOUS
    <2>2. new \in Organizations /\ new.state = "deleting" /\ org[o].state = "live"
      BY <1>1, <1>4, <2>1 DEF Organizations, DeleteOrg, Live
    <2>3. org' = [org EXCEPT ![o] = new]
      BY <1>4, <2>1 DEF DeleteOrg
    <2>4. QED
      BY <1>1, <1>2, <2>2, <2>3, OrganizationsChange
  <1>5. CASE CreateOrg(o)
    <2>1. NewOrg \in Organizations /\ NewOrg.state = "live"
      BY DEF NewOrg, Organizations, Spec0, Specs
    <2>2. PICK new : new = NewOrg
      OBVIOUS
    <2>3. org' = [org EXCEPT ![o] = new] /\ org[o].state = "absent"
      BY <1>5, <2>2 DEF CreateOrg
    <2>4. ~(orgPass # Idle /\ o = orgPass.o)
      BY <2>3 DEF OrgInv, PassIsCurrent
    <2>5. QED
      BY <1>1, <1>2, <2>1, <2>2, <2>3, <2>4, OrganizationsChange
  <1>6. QED
    BY <1>3, <1>4, <1>5

\* The garbage collector.
LEMMA CollectionKeeps ==
    ASSUME OrgInv, NEW o \in Orgs, CollectOrg(o)
    PROVE  OrgInv'
  <1>1. /\ org \in [Orgs -> Organizations] /\ org[o] \in Organizations /\ IsQueue(orgQueue) /\ dex \in Dex
        /\ owned \in [Orgs -> 0..Len(GroupCondition)] /\ secret \in [Orgs -> {"none", "empty", "full"}]
        /\ Len(GroupCondition) = 4
    BY OrgTypes DEF OrgInv, GroupCondition
  <1>2. PICK new : new = [org[o] EXCEPT !.state = "absent"]
    OBVIOUS
  <1>3. /\ new \in Organizations /\ new.state = "absent" /\ new.spec = org[o].spec /\ org[o].state = "gone"
        /\ org' = [org EXCEPT ![o] = new]
    BY <1>1, <1>2 DEF Organizations, CollectOrg
  <1>4. UNCHANGED <<orgQueue, orgPass, cached, proxyDef, scim>> /\ plugins' \subseteq plugins
    BY DEF CollectOrg
  <1>5. /\ owned' \in [Orgs -> 0..Len(GroupCondition)] /\ secret' \in [Orgs -> {"none", "empty", "full"}]
    BY <1>1 DEF CollectOrg
  <1>6. PICK v \in {"none", "differ"} : /\ v = "none" <=> dex.proxies[o] = "none"
                                      /\ dex' = [dex EXCEPT !.proxies[o] = v]
    <2>1. PICK v : v = IF dex.proxies[o] = "none" THEN dex.proxies[o] ELSE "differ"
      OBVIOUS
    <2>2. dex' = [dex EXCEPT !.proxies[o] = v]
      BY <2>1 DEF CollectOrg
    <2>3. QED
      BY <2>1, <2>2
  <1>7. /\ dex' \in Dex /\ dex'.connectors = dex.connectors /\ dex'.clients = dex.clients
        /\ \A q \in Orgs : dex.proxies[q] # "none" => dex'.proxies[q] # "none"
    BY <1>1, <1>6 DEF Dex
  <1>8. ~(orgPass # Idle /\ o = orgPass.o)
    BY <1>3 DEF OrgInv, PassIsCurrent
  <1>9. new.spec.oidc => Left(o)
    BY <1>3 DEF Left
  <1>10. QED
    BY <1>1, <1>3, <1>4, <1>5, <1>7, <1>8, <1>9, OrganizationsChange

\* Steps that are not about organizations.
LEMMA OrgsUntouched ==
    ASSUME OrgInv, UNCHANGED orgVars
    PROVE  OrgInv'
  BY DEF OrgInv, orgVars, OrgTypeOK, PassIsCurrent, LeavesDex, ProxyHasClient

\* Every step keeps the part of the invariant that is about organizations.
LEMMA OrgStep == OrgInv /\ [Next]_vars => OrgInv'
  <1> SUFFICES ASSUME OrgInv, [Next]_vars
               PROVE  OrgInv'
    OBVIOUS
  <1> USE OrgsAssumption, TeamAssumption
  <1>1. CASE OrgSteps
    BY <1>1, ControllerKeeps, SurroundingsKeep DEF OrgSteps
  <1>2. CASE TeamSteps \/ UNCHANGED vars
    BY <1>2, OrgsUntouched DEF TeamSteps, vars
  <1>3. CASE Cluster
    BY <1>3, SurroundingsKeep, CollectionKeeps, OrgsUntouched DEF Cluster
  <1>4. CASE RestartOrgs
    BY <1>4, SurroundingsKeep
  <1>5. CASE Edit
    <2>1. org[TeamOrg].spec \in Specs
      BY OrgTypes DEF OrgInv, Organizations
    <2>2. /\ [org[TeamOrg].spec EXCEPT !.oidc = ~@] \in Specs
          /\ [org[TeamOrg].spec EXCEPT !.custom = ~@] \in Specs
          /\ [org[TeamOrg].spec EXCEPT !.scim = ~@] \in Specs
      BY <2>1 DEF Specs
    <2>3. CASE AuthEdit
      BY <2>2, <2>3, UsersKeep, SurroundingsKeep DEF AuthEdit
    <2>4. CASE ScimEdit
      BY <2>2, <2>4, UsersKeep, SurroundingsKeep DEF ScimEdit
    <2>5. CASE UNCHANGED orgVars
      BY <2>5, OrgsUntouched
    <2>6. QED
      BY <1>5, <2>3, <2>4, <2>5 DEF Edit
  <1>6. QED
    BY <1>1, <1>2, <1>3, <1>4, <1>5 DEF Next

-----------------------------------------------------------------------------
(* The team. *)

TeamRecord ==
    [exists : BOOLEAN, supportGroup : BOOLEAN, mapped : BOOLEAN, members : SUBSET Users,
     scimAccess : {"Unknown", "True", "False"}, allValid : {"Unknown", "True", "False"},
     ready : {"Unknown", "True", "False"}]

\* A pass ends with new members or with the old ones; the rest of the team, the access
\* of a support group included, is as the types say.
LEMMA FinishFacts ==
    ASSUME TeamTypeOK, NEW scimAccess \in {"Unknown", "True", "False"}, NEW members \in SUBSET Users,
           NEW valid \in {"Unknown", "True", "False"}, NEW failed, NEW fault, NEW again,
           NEW new, new = Conditions3(scimAccess, members, valid),
           Finish(new, failed, fault, again), access' \in SUBSET AccessKinds
    PROVE  TeamTypeOK' /\ team'.members \in {team.members, members}
  <1>1. team \in TeamRecord
    BY DEF TeamTypeOK, TeamRecord
  <1>2. PICK ready \in {"True", "False"} : ready = computeReadyCondition(scimAccess)
    BY DEF computeReadyCondition
  <1>3. new = [team EXCEPT !.scimAccess = scimAccess, !.members = members, !.allValid = valid, !.ready = ready]
    BY <1>2 DEF Conditions3
  <1>4. new \in TeamRecord /\ new.members = members
    BY <1>1, <1>2, <1>3 DEF TeamRecord
  <1>5. /\ team' \in {team, new} /\ teamQueued' \in BOOLEAN /\ timer' \in BOOLEAN
        /\ UNCHANGED <<group, accessSeen>>
    BY DEF Finish, TeamTypeOK
  <1>6. QED
    BY <1>1, <1>4, <1>5 DEF TeamTypeOK, TeamRecord

\* The access of a support group is made of its three kinds of objects.
LEMMA AccessFacts ==
    ASSUME TeamTypeOK
    PROVE  /\ \A n \in 0..3 : DeleteSeen(n) \in SUBSET AccessKinds /\ CreateOrPatch(n) \in SUBSET AccessKinds
           /\ CleanupOf(access) \in SUBSET AccessKinds
  <1>1. access \in SUBSET AccessKinds
    BY DEF TeamTypeOK
  <1>2. \A i \in 1..3 : AccessOrder[i] \in AccessKinds
    BY DEF AccessOrder, AccessKinds
  <1>3. \A n \in 0..3 : DeleteSeen(n) \in SUBSET AccessKinds
    BY <1>1 DEF DeleteSeen
  <1>4. \A n \in 0..3 : CreateOrPatch(n) \in SUBSET AccessKinds
    BY <1>1, <1>2 DEF CreateOrPatch
  <1>5. QED
    BY <1>1, <1>3, <1>4 DEF CleanupOf

\* A pass over the team: its members change only when the SCIM API has answered, and
\* then to what it says.
LEMMA TeamPassKeeps ==
    ASSUME TeamTypeOK, TeamPass
    PROVE  /\ TeamTypeOK'
           /\ team'.members # team.members =>
                 scim # "down" /\ team'.members = {u \in Users : group[u] = "active"}
  <1>1. /\ team.members \in SUBSET Users /\ team.allValid \in {"Unknown", "True", "False"}
        /\ team.scimAccess \in {"Unknown", "True", "False"}
    BY DEF TeamTypeOK
  <1>2. ASSUME NEW s \in {"Unknown", "True", "False"}, NEW failed, NEW fault,
               Finish(Same(s), failed, fault, FALSE), access' \in SUBSET AccessKinds
        PROVE  TeamTypeOK' /\ team'.members = team.members
    <2>1. PICK new : new = Conditions3(s, team.members, team.allValid)
      OBVIOUS
    <2>2. Finish(new, failed, fault, FALSE)
      BY <1>2, <2>1 DEF Same
    <2>3. QED
      BY <1>1, <1>2, <2>1, <2>2, FinishFacts
  <1>3. CASE CleanupFails
    <2>1. PICK n \in 0..2 : access' = DeleteSeen(n) /\ Finish(Same(team.scimAccess), TRUE, TRUE, FALSE)
      BY <1>3 DEF CleanupFails
    <2>2. access' \in SUBSET AccessKinds
      BY <2>1, AccessFacts
    <2>3. QED
      BY <1>1, <1>2, <2>1, <2>2
  <1>4. CASE EnsureCreatedEarly
    BY <1>1, <1>2, <1>4, AccessFacts DEF EnsureCreatedEarly
  <1>5. CASE EnsureCreatedUnanswered
    BY <1>1, <1>2, <1>5, AccessFacts DEF EnsureCreatedUnanswered
  <1>6. CASE EnsureCreated
    <2>0. PICK broken \in BOOLEAN, got \in SUBSET Listed, n \in 0..3 :
             /\ ~Answer(got, broken).failed
             /\ access' = IF team.supportGroup THEN CreateOrPatch(n) ELSE DeleteSeen(3)
             /\ Finish(Conditions3("True", getUsersFromSCIM(Answer(got, broken).users),
                                   membersValid(Answer(got, broken).users)),
                       n < 3, n < 3 \/ broken, TRUE)
      BY <1>6 DEF EnsureCreated
    <2>1. ~broken /\ scim # "down" /\ Answer(got, broken).users = Listed
      BY <2>0 DEF Answer, GetUsers
    <2>2. PICK members : members = {u \in Users : group[u] = "active"}
      OBVIOUS
    <2>3. getUsersFromSCIM(Listed) = members /\ members \in SUBSET Users
      BY <2>2 DEF getUsersFromSCIM, Listed
    <2>4. PICK valid \in {"True", "False"} : valid = membersValid(Listed)
      BY DEF membersValid
    <2>5. PICK new : new = Conditions3("True", members, valid)
      OBVIOUS
    <2>6. PICK failed, fault : failed = (n < 3) /\ fault = (n < 3 \/ broken)
      OBVIOUS
    <2>7. Finish(new, failed, fault, TRUE)
      BY <2>0, <2>1, <2>3, <2>4, <2>5, <2>6
    <2>8. access' \in SUBSET AccessKinds
      BY <2>0, AccessFacts
    <2>9. TeamTypeOK' /\ team'.members \in {team.members, members}
      BY <2>3, <2>5, <2>7, <2>8, FinishFacts
    <2>10. QED
      BY <2>1, <2>2, <2>9
  <1>7. QED
    BY <1>3, <1>4, <1>5, <1>6 DEF TeamPass

\* All other steps leave the members alone.
LEMMA TeamStep ==
    ASSUME TeamTypeOK, [Next]_vars
    PROVE  /\ TeamTypeOK'
           /\ team'.members # team.members =>
                 scim # "down" /\ team'.members = {u \in Users : group[u] = "active"}
  <1> USE DEF TeamTypeOK
  <1>1. CASE TeamPass
    BY <1>1, TeamPassKeeps
  <1>2. CASE TimerFires \/ ResyncTeam \/ AccessSeen
    BY <1>2 DEF TimerFires, ResyncTeam, AccessSeen
  <1>3. CASE CollectTeam
    BY <1>3 DEF CollectTeam
  <1>4. CASE OrganizationWatch
    <2>1. teamQueued' \in BOOLEAN
      BY <1>4 DEF OrganizationWatch
    <2>2. UNCHANGED <<team, timer, group, access, accessSeen>>
      BY <1>4 DEF OrganizationWatch
    <2>3. QED
      BY <2>1, <2>2
  <1>5. CASE TeamEdit
    <2>1. ASSUME NEW label \in BOOLEAN, NEW mapped \in BOOLEAN, EditTeam(label, mapped)
          PROVE  TeamTypeOK' /\ team'.members = team.members
      BY <2>1 DEF EditTeam
    <2>2. ASSUME NEW u \in Users, NEW entry \in Entries, EditGroup(u, entry)
          PROVE  TeamTypeOK' /\ team'.members = team.members
      BY <2>2 DEF EditGroup
    <2>3. QED
      BY <1>5, <2>1, <2>2 DEF TeamEdit
  <1>6. CASE UNCHANGED vars
    BY <1>6 DEF vars, teamVars
  <1>7. QED
    BY <1>1, <1>2, <1>3, <1>4, <1>5, <1>6 DEF Next, OrgSteps, TeamSteps, Cluster, Edit

-----------------------------------------------------------------------------
(* The invariant and what follows. *)

\* The bounded counters stay in their bounds.
LEMMA CountersStep ==
    ASSUME edits \in 0..MaxEdits, mishaps \in 0..MaxMishaps, [Next]_vars
    PROVE  edits' \in 0..MaxEdits /\ mishaps' \in 0..MaxMishaps
  <1> USE EditsAssumption, MishapsAssumption
  <1>1. ASSUME NEW b, Mishap(b)
        PROVE  mishaps' \in 0..MaxMishaps
    BY <1>1 DEF Mishap
  <1>2. ASSUME OrgController
        PROVE  mishaps' \in 0..MaxMishaps
    <2>1. CASE \E o \in Orgs : StartPass(o)
      BY <2>1 DEF StartPass
    <2>2. CASE EnsureFoundation
      BY <2>2, <1>1 DEF EnsureFoundation
    <2>3. CASE EnsureOIDC
      BY <2>3, <1>1 DEF EnsureOIDC
    <2>4. CASE reconcileAdminTeam \/ reconcileServiceProxy
      BY <2>4, <1>1 DEF reconcileAdminTeam, reconcileServiceProxy
    <2>5. CASE EnsureServiceProxy
      BY <2>5, <1>1 DEF EnsureServiceProxy
    <2>6. CASE setStatus
      BY <2>6, <1>1 DEF setStatus
    <2>7. CASE EnsureDeleted
      BY <2>7, <1>1 DEF EnsureDeleted
    <2>8. QED
      BY <1>2, <2>1, <2>2, <2>3, <2>4, <2>5, <2>6, <2>7 DEF OrgController
  <1>3. ASSUME TeamPass
        PROVE  mishaps' \in 0..MaxMishaps
    BY <1>3, <1>1 DEF TeamPass, CleanupFails, EnsureCreatedEarly, EnsureCreatedUnanswered, EnsureCreated, Finish
  <1>4. ASSUME RestartOrgs
        PROVE  mishaps' \in 0..MaxMishaps
    BY <1>4, <1>1 DEF RestartOrgs
  <1>5. ASSUME ResyncOrgs \/ TimerFires \/ ResyncTeam \/ AccessSeen \/ CollectTeam \/ UNCHANGED vars
        PROVE  mishaps' \in 0..MaxMishaps
    BY <1>5 DEF ResyncOrgs, TimerFires, ResyncTeam, AccessSeen, CollectTeam, vars
  <1>6. ASSUME \E o \in Orgs : enqueueOrganizationForReferencedSecret(o) \/ CollectOrg(o)
        PROVE  mishaps' \in 0..MaxMishaps
    BY <1>6 DEF enqueueOrganizationForReferencedSecret, CollectOrg
  <1>7. ASSUME AuthEdit \/ ScimEdit \/ TeamEdit
        PROVE  mishaps' \in 0..MaxMishaps
    BY <1>7 DEF AuthEdit, ScimEdit, TeamEdit, DeleteOrg, DeleteSecret, CreateOrg, EditOrg, ToggleProxyDef,
                ScimChanges, EditTeam, EditGroup
  <1>8. mishaps' \in 0..MaxMishaps
    BY <1>2, <1>3, <1>4, <1>5, <1>6, <1>7 DEF Next, OrgSteps, TeamSteps, Cluster, Edit
  <1>9. edits' = edits \/ (edits < MaxEdits /\ edits' = edits + 1)
    BY DEF Next, OrgSteps, TeamSteps, Cluster, Edit, vars
  <1>10. QED
    BY <1>8, <1>9

\* Every step keeps the invariant.
LEMMA DexStep == DexInv /\ [Next]_vars => DexInv'
  <1> SUFFICES ASSUME DexInv, [Next]_vars
               PROVE  DexInv'
    OBVIOUS
  <1>1. OrgInv /\ TeamTypeOK /\ edits \in 0..MaxEdits /\ mishaps \in 0..MaxMishaps
    BY DEF DexInv, TypeOK, OrgInv
  <1>2. OrgInv'
    BY <1>1, OrgStep
  <1>3. TeamTypeOK'
    BY <1>1, TeamStep
  <1>4. edits' \in 0..MaxEdits /\ mishaps' \in 0..MaxMishaps
    BY <1>1, CountersStep
  <1>5. QED
    BY <1>2, <1>3, <1>4 DEF DexInv, TypeOK, OrgInv

\* An organization starts with nothing in dex, but for a default organization that is
\* set up.
LEMMA DexStart ==
    ASSUME NEW spec \in Specs, NEW default \in BOOLEAN, OrgInit(spec, default)
    PROVE  OrgInv
  <1> USE OrgsAssumption
  <1>1. org = [o \in Orgs |-> IF o # Default THEN [NewOrg EXCEPT !.spec = spec]
                              ELSE [NewOrg EXCEPT !.scimAPI = "Unknown", !.ready = "True",
                                                  !.state = IF default THEN "live" ELSE "absent"]]
    BY DEF OrgInit
  <1>2. /\ NewOrg \in Organizations /\ NewOrg.state = "live"
        /\ [NewOrg EXCEPT !.spec = spec] \in Organizations
        /\ [NewOrg EXCEPT !.spec = spec].state = "live"
    BY DEF NewOrg, Organizations, Spec0, Specs
  <1>3. PICK st \in {"live", "absent"} : st = IF default THEN "live" ELSE "absent"
    OBVIOUS
  <1>4. PICK first : first = [NewOrg EXCEPT !.scimAPI = "Unknown", !.ready = "True", !.state = st]
    OBVIOUS
  <1>5. first \in Organizations /\ first.state = st
    BY <1>2, <1>4 DEF Organizations
  <1>6. /\ org \in [Orgs -> Organizations] /\ org[Default].state = st
        /\ \A o \in Orgs \ {Default} : org[o].state = "live"
    BY <1>1, <1>2, <1>3, <1>4, <1>5
  <1>7. IsQueue(orgQueue)
    <2>1. PICK more : more = Orgs \ {Default}
      OBVIOUS
    <2>2. IsFiniteSet(more) /\ more \subseteq Orgs
      BY <2>1, FS_Subset
    <2>3. PICK q : q = SetToSeq(more)
      OBVIOUS
    <2>4. q \in [1..Cardinality(more) -> more] /\ IsInjective(q) /\ Cardinality(more) \in Nat
      BY <2>2, <2>3, ListOfSet
    <2>5. q \in Seq(Orgs)
      BY <2>2, <2>4
    <2>6. orgQueue = q
      BY <2>1, <2>3 DEF OrgInit
    <2>7. QED
      BY <2>4, <2>5, <2>6 DEF IsQueue
  <1>8. /\ owned \in [Orgs -> 0..Len(GroupCondition)]
        /\ secret \in [Orgs -> {"none", "empty", "full"}] /\ cached = secret
        /\ plugins \in SUBSET Orgs /\ proxyDef \in BOOLEAN /\ scim \in {"up", "down", "noGroup"}
        /\ orgPass = Idle
    <2>1. \A o : Len(Groups(o)) = 4 /\ Len(GroupCondition) = 4
      BY DEF Groups, GroupCondition
    <2>2. owned \in [Orgs -> 0..4]
      BY <2>1 DEF OrgInit
    <2>3. QED
      BY <2>1, <2>2 DEF OrgInit
  <1>9. PICK clients : clients = [o \in Orgs |-> IF o = Default /\ default THEN getRedirects(o, TRUE) ELSE NoClient]
    OBVIOUS
  <1>10. clients \in [Orgs -> {NoClient} \cup SUBSET Redirects]
    BY <1>9 DEF getRedirects, getRedirectForOrg, Redirects
  <1>11. dex = [connectors |-> {o \in Orgs : o = Default /\ default}, clients |-> clients,
                proxies |-> [o \in Orgs |-> IF o = Default /\ default THEN "match" ELSE "none"]]
    BY <1>9 DEF OrgInit
  <1>12. dex \in Dex /\ dex.clients = clients /\ dex.connectors = {o \in Orgs : o = Default /\ default}
    BY <1>10, <1>11 DEF Dex
  <1>13. ProxyHasClient
    BY <1>11 DEF ProxyHasClient, OrgInit
  <1>14. LeavesDex
    <2>1. SUFFICES ASSUME NEW o \in Orgs, org[o].state \in {"gone", "absent"}
                   PROVE  o \notin dex.connectors /\ dex.clients[o] = NoClient /\ o \notin dex.clients[Default]
      BY DEF LeavesDex, getRedirectForOrg
    <2>2. o = Default /\ ~default
      BY <1>3, <1>6, <2>1
    <2>3. o \notin NoClient
      BY DEF NoClient
    <2>4. QED
      BY <1>9, <1>12, <2>2, <2>3
  <1>15. OrgTypeOK /\ PassIsCurrent
    BY <1>6, <1>7, <1>8, <1>12, OrgTypes DEF PassIsCurrent
  <1>16. QED
    BY <1>13, <1>14, <1>15 DEF OrgInv

\* The invariant holds initially.
LEMMA DexInit == Init => DexInv
  <1> SUFFICES ASSUME Init PROVE DexInv
    OBVIOUS
  <1>1. edits \in 0..MaxEdits /\ mishaps \in 0..MaxMishaps
    BY EditsAssumption, MishapsAssumption DEF Init
  <1>2. OrgInv
    <2>1. Spec0 \in Specs /\ [oidc |-> FALSE, custom |-> FALSE, scim |-> TRUE] \in Specs
      BY DEF Spec0, Specs
    <2>2. QED
      BY <2>1, DexStart DEF Init
  <1>3. TeamTypeOK
    <2>1. PICK exists \in BOOLEAN : TeamInit(exists)
      BY DEF Init
    <2>2. QED
      BY <2>1 DEF TeamInit, TeamTypeOK, NewTeam, Entries
  <1>4. QED
    BY <1>1, <1>2, <1>3 DEF DexInv, TypeOK, OrgInv

\* An organization that is gone has left dex if it had an OIDC configuration to the end,
\* and dex knows the client of every service proxy that is installed: whatever is edited
\* while a pass is under way, wherever calls fail, and across restarts, lost patches and
\* the end and return of the default organization.
THEOREM DexIsSafe == Spec => []DexSafe
  <1>1. DexInv => DexSafe
    BY DEF DexInv, DexSafe
  <1>2. QED
    BY <1>1, DexInit, DexStep, PTL DEF Spec

\* An outage of the SCIM API takes nobody out of a team (team_controller.go:118-196).
THEOREM OutagesKeepMembers == Spec => OutageKeepsMembers
  <1>1. DexInv => TeamTypeOK
    BY DEF DexInv, TypeOK
  <1>2. TeamTypeOK /\ [Next]_vars =>
           [team'.members # team.members =>
               scim # "down" /\ team'.members = {u \in Users : group[u] = "active"}]_vars
    BY TeamStep
  <1>3. QED
    BY <1>1, <1>2, DexInit, DexStep, PTL DEF Spec, OutageKeepsMembers
=============================================================================
