------------------------ MODULE TeamRoleBindingProofs ------------------------
(***************************************************************************)
(* Proofs about TeamRoleBinding, for every set of bindings, clusters and   *)
(* namespaces and every bound on edits and failing calls:                  *)
(*   TypeOK              without a further assumption;                     *)
(*   NoDanglingBindings  if no binding with namespaces shares the          *)
(*                       ClusterRole (RoleNotShared);                      *)
(*   NoOrphans and ImplementsManagedResource  without a further            *)
(*                       assumption: reads as outdated as MaxLag allows,   *)
(*                       restarts and failing patches included.            *)
(* RoleNotShared is needed: without it NoDanglingBindings is false (see    *)
(* the README, section 5).                                                 *)
(*                                                                         *)
(* The steps of a pass have many branches but only four effects (Effect),  *)
(* and the invariants are proved for the effects.                          *)
(***************************************************************************)
EXTENDS TeamRoleBinding, FiniteSetTheorems, TLAPS

-----------------------------------------------------------------------------
(* The propagation status. *)

\* Appending an entry that is not there keeps a list free of repetitions.
LEMMA AppendStatus ==
    ASSUME NEW s \in Seq(Clusters), IsInjective(s), NEW c \in Clusters, c \notin Range(s)
    PROVE  /\ Append(s, c) \in Seq(Clusters)
           /\ IsInjective(Append(s, c))
           /\ Range(Append(s, c)) = Range(s) \cup {c}
  <1> DEFINE t == Append(s, c)
  <1>1. /\ t \in Seq(Clusters) /\ Len(t) = Len(s) + 1 /\ t[Len(s) + 1] = c
        /\ \A i \in 1 .. Len(s) : t[i] = s[i]
        /\ DOMAIN s = 1 .. Len(s) /\ DOMAIN t = 1 .. Len(s) + 1 /\ Len(s) \in Nat
    OBVIOUS
  <1> HIDE DEF t
  <1>2. \A i \in 1 .. Len(s) : s[i] # c
    BY <1>1 DEF Range
  <1>3. IsInjective(t)
    BY <1>1, <1>2 DEF IsInjective
  <1>4. Range(t) = Range(s) \cup {c}
    BY <1>1 DEF Range
  <1>5. QED
    BY <1>1, <1>3, <1>4 DEF t

\* SetPropagationStatus adds one entry at most.
LEMMA SetOne ==
    ASSUME NEW s \in Seq(Clusters), IsInjective(s), NEW c \in Clusters
    PROVE  /\ SetPropagationStatus(s, c) \in Seq(Clusters)
           /\ IsInjective(SetPropagationStatus(s, c))
           /\ Range(SetPropagationStatus(s, c)) = Range(s) \cup {c}
  BY AppendStatus DEF SetPropagationStatus

\* RemovePropagationStatus takes out the entry of the cluster and no other.
LEMMA RemoveOne ==
    ASSUME NEW s \in Seq(Clusters), IsInjective(s), NEW c
    PROVE  /\ RemovePropagationStatus(s, c) \in Seq(Clusters)
           /\ IsInjective(RemovePropagationStatus(s, c))
           /\ Range(RemovePropagationStatus(s, c)) = Range(s) \ {c}
  <1>1. CASE c \notin Range(s)
    BY <1>1 DEF RemovePropagationStatus
  <1>2. CASE c \in Range(s)
    <2> DEFINE k == CHOOSE i \in DOMAIN s : s[i] = c
               a == SubSeq(s, 1, k - 1)
               z == SubSeq(s, k + 1, Len(s))
               t == a \o z
    <2>1. k \in 1 .. Len(s) /\ s[k] = c
      BY <1>2 DEF Range
    <2>2. RemovePropagationStatus(s, c) = t
      BY <1>2 DEF RemovePropagationStatus, RemoveAt
    <2> HIDE DEF k
    <2>3. /\ a \in Seq(Clusters) /\ Len(a) = k - 1
          /\ \A i \in 1 .. k - 1 : a[i] = s[i]
      BY <2>1
    <2>4. /\ z \in Seq(Clusters) /\ Len(z) = Len(s) - k
          /\ \A i \in 1 .. Len(s) - k : z[i] = s[i + k]
      BY <2>1
    <2> HIDE DEF a, z
    <2>5. /\ t \in Seq(Clusters) /\ Len(t) = Len(s) - 1
          /\ \A i \in 1 .. k - 1 : t[i] = s[i]
          /\ \A i \in k .. Len(s) - 1 : t[i] = s[i + 1]
      <3>0. t \in Seq(Clusters) /\ Len(t) = Len(a) + Len(z)
        BY <2>3, <2>4
      <3>1. t \in Seq(Clusters) /\ Len(t) = Len(s) - 1
        <4> HIDE DEF t
        <4> QED BY <3>0, <2>1, <2>3, <2>4
      <3>2. \A i \in 1 .. k - 1 : t[i] = a[i]
        BY <2>1, <2>3, <2>4
      <3>3. \A i \in 1 .. Len(s) - k : t[k - 1 + i] = z[i]
        BY <2>1, <2>3, <2>4
      <3>4. \A i \in k .. Len(s) - 1 : i - k + 1 \in 1 .. Len(s) - k /\ k - 1 + (i - k + 1) = i
        BY <2>1
      <3>5. \A i \in k .. Len(s) - 1 : t[i] = s[i + 1]
        <4> TAKE i \in k .. Len(s) - 1
        <4>1. t[i] = z[i - k + 1]
          BY <3>3, <3>4
        <4>2. z[i - k + 1] = s[(i - k + 1) + k] /\ (i - k + 1) + k = i + 1
          BY <2>1, <2>4, <3>4
        <4>3. QED
          BY <4>1, <4>2
      <3>6. QED
        BY <3>1, <3>2, <3>5, <2>3
    <2> HIDE DEF t
    <2>6. DOMAIN s = 1 .. Len(s) /\ DOMAIN t = 1 .. Len(s) - 1 /\ Len(s) \in Nat
      BY <2>5
    <2>7. \A i, j \in 1 .. Len(s) : s[i] = s[j] => i = j
      BY <2>6 DEF IsInjective
    <2>8. IsInjective(t)
      BY <2>1, <2>5, <2>6, <2>7 DEF IsInjective
    <2>9. \A i \in 1 .. Len(s) - 1 : t[i] \in Range(s) \ {c}
      <3> TAKE i \in 1 .. Len(s) - 1
      <3>1. PICK j \in 1 .. Len(s) : j # k /\ t[i] = s[j]
        <4>1. CASE i < k
          BY <4>1, <2>1, <2>5, <2>6
        <4>2. CASE i >= k
          <5>1. i + 1 \in 1 .. Len(s) /\ i + 1 # k /\ t[i] = s[i + 1]
            BY <4>2, <2>1, <2>5, <2>6
          <5>2. QED
            BY <5>1
        <4>3. QED
          BY <4>1, <4>2, <2>1
      <3>2. s[j] # c
        BY <3>1, <2>1, <2>7
      <3>3. QED
        BY <3>1, <3>2, <2>6 DEF Range
    <2>10. \A i \in 1 .. Len(s) : s[i] = c \/ \E j \in 1 .. Len(s) - 1 : t[j] = s[i]
      <3> SUFFICES ASSUME NEW i \in 1 .. Len(s), s[i] # c
                   PROVE  \E j \in 1 .. Len(s) - 1 : t[j] = s[i]
        OBVIOUS
      <3>1. CASE i < k
        BY <3>1, <2>1, <2>5, <2>6
      <3>2. CASE i > k
        <4>1. i - 1 \in k .. Len(s) - 1 /\ i - 1 \in 1 .. Len(s) - 1 /\ (i - 1) + 1 = i
          BY <3>2, <2>1, <2>6
        <4>2. t[i - 1] = s[(i - 1) + 1]
          BY <4>1, <2>5
        <4>3. QED
          BY <4>1, <4>2
      <3>3. QED
        BY <3>1, <3>2, <2>1, <2>6
    <2>11. Range(t) = Range(s) \ {c}
      BY <2>6, <2>9, <2>10 DEF Range
    <2>12. QED
      BY <2>2, <2>5, <2>8, <2>11 DEF t
  <1>3. QED
    BY <1>1, <1>2

\* SetAll adds entries and keeps the list free of repetitions.
LEMMA SetMany ==
    ASSUME NEW s \in Seq(Clusters), IsInjective(s), NEW cs \in SUBSET Clusters
    PROVE  /\ SetAll(s, cs) \in Seq(Clusters)
           /\ IsInjective(SetAll(s, cs))
           /\ Range(s) \subseteq Range(SetAll(s, cs))
  <1> DEFINE S == cs \ Range(s)
             n == Cardinality(S)
             f == SetToSeq(S)
             t == s \o f
  <1>1. IsFiniteSet(S) /\ n \in Nat
    BY BindingAssumption, FS_Subset, FS_CardinalityType
  <1>2. \E g \in [1 .. n -> S] : IsInjective(g)
    <2>1. PICK g : g \in Bijection(1 .. n, S)
      BY <1>1, FS_CardinalityType DEF ExistsBijection
    <2>2. QED
      BY <2>1 DEF Bijection, Injection, Surjection, IsInjective
  <1>3. f \in [1 .. n -> S] /\ IsInjective(f)
    BY <1>2 DEF SetToSeq
  <1> HIDE DEF f
  <1> HIDE DEF n, S
  <1>7. f \in Seq(Clusters) /\ Len(f) = n
    <2>1. S \subseteq Clusters
      BY DEF S
    <2>2. QED
      BY <1>1, <1>3, <2>1
  <1>8. /\ t \in Seq(Clusters) /\ Len(t) = Len(s) + n
        /\ \A i \in 1 .. Len(s) : t[i] = s[i]
        /\ \A i \in 1 .. n : t[Len(s) + i] = f[i]
    BY <1>1, <1>7
  <1> HIDE DEF t
  <1>9. DOMAIN s = 1 .. Len(s) /\ DOMAIN t = 1 .. Len(s) + n /\ DOMAIN f = 1 .. n /\ Len(s) \in Nat
    BY <1>1, <1>8, <1>3
  <1>10. \A i \in 1 .. Len(s) + n : i \in 1 .. Len(s) \/ \E j \in 1 .. n : i = Len(s) + j
    <2> TAKE i \in 1 .. Len(s) + n
    <2>1. CASE i > Len(s)
      <3>1. i - Len(s) \in 1 .. n /\ i = Len(s) + (i - Len(s))
        BY <1>1, <1>9, <2>1
      <3>2. QED
        BY <3>1
    <2>2. QED
      BY <2>1, <1>9
  <1>11. \A i \in 1 .. Len(s), j \in 1 .. n : s[i] # f[j]
    BY <1>3, <1>9 DEF S, Range
  <1>12. IsInjective(t)
    <2> SUFFICES ASSUME NEW i \in 1 .. Len(s) + n, NEW j \in 1 .. Len(s) + n, t[i] = t[j]
                 PROVE  i = j
      BY <1>9 DEF IsInjective
    <2>1. CASE i \in 1 .. Len(s) /\ j \in 1 .. Len(s)
      BY <2>1, <1>8, <1>9 DEF IsInjective
    <2>2. CASE i \in 1 .. Len(s) /\ j \notin 1 .. Len(s)
      BY <2>2, <1>8, <1>10, <1>11
    <2>3. CASE i \notin 1 .. Len(s) /\ j \in 1 .. Len(s)
      BY <2>3, <1>8, <1>10, <1>11
    <2>4. CASE i \notin 1 .. Len(s) /\ j \notin 1 .. Len(s)
      <3>1. PICK k \in 1 .. n : i = Len(s) + k
        BY <2>4, <1>10
      <3>2. PICK l \in 1 .. n : j = Len(s) + l
        BY <2>4, <1>10
      <3>3. f[k] = f[l]
        BY <3>1, <3>2, <1>8
      <3>4. QED
        BY <3>1, <3>2, <3>3, <1>3, <1>9 DEF IsInjective
    <2>5. QED
      BY <2>1, <2>2, <2>3, <2>4
  <1>14. Range(s) \subseteq Range(t)
    <2>1. \A i \in 1 .. Len(s) : i \in 1 .. Len(s) + n
      BY <1>1, <1>9
    <2>2. QED
      BY <1>8, <1>9, <2>1 DEF Range
  <1>15. SetAll(s, cs) = t
    BY DEF SetAll, t, f, S
  <1>16. QED
    BY <1>8, <1>12, <1>14, <1>15

-----------------------------------------------------------------------------
(* Versions and logs. *)

\* The changes that users and the controller make to a version.
LEMMA ChangedVersion ==
    ASSUME NEW b \in Bindings, NEW v \in VersionsOf(b)
    PROVE  /\ v \in Versions /\ v.status \in Seq(Clusters) /\ IsInjective(v.status)
           /\ \A st \in Stages : [v EXCEPT !.stage = st] \in VersionsOf(b)
           /\ \A s \in Selectors : [v EXCEPT !.sel = s] \in VersionsOf(b)
           /\ \A s \in Selectors, st \in Stages : [v EXCEPT !.stage = st, !.sel = s] \in VersionsOf(b)
           /\ \A n \in SUBSET Namespaces :
                (n = {} <=> b \notin Namespaced) => [v EXCEPT !.ns = n] \in VersionsOf(b)
           /\ \A status \in Seq(Clusters), st \in Stages :
                IsInjective(status) => [v EXCEPT !.status = status, !.stage = st] \in VersionsOf(b)
  BY BindingAssumption DEF VersionsOf, Versions

\* A binding that is not there is a version, too, and has no entries.
LEMMA AbsentVersion ==
    ASSUME NEW b \in Bindings
    PROVE  Absent(b) \in VersionsOf(b) /\ Absent(b).stage = "absent" /\ Absent(b).status = <<>>
  <1>1. (CHOOSE s \in Selectors : TRUE) \in Selectors
    BY BindingAssumption
  <1>2. <<>> \in Seq(Clusters) /\ IsInjective(<<>>)
    BY DEF IsInjective
  <1>3. QED
    BY <1>1, <1>2, BindingAssumption DEF Absent, VersionsOf, Versions, Stages

\* Appending a version leaves the older ones where they are.
LEMMA AppendLog ==
    ASSUME NEW S, NEW s \in Seq(S), NEW e \in S
    PROVE  /\ Append(s, e) \in Seq(S)
           /\ Len(Append(s, e)) = Len(s) + 1
           /\ Last(Append(s, e)) = e
  BY DEF Last

\* Delivering drops the oldest version.
LEMMA TailLog ==
    ASSUME NEW S, NEW s \in Seq(S), Len(s) > 1
    PROVE  /\ Tail(s) \in Seq(S)
           /\ Len(Tail(s)) = Len(s) - 1
           /\ Last(Tail(s)) = Last(s)
  BY DEF Last

\* The oldest and the newest version of a log.
LEMMA EndsOfLog ==
    ASSUME NEW S, NEW s \in Seq(S), Len(s) >= 1
    PROVE  /\ s[1] \in S /\ Last(s) \in S
           /\ Len(s) = 1 => Last(s) = s[1]
           /\ <<Last(s)>> \in Seq(S) /\ Len(<<Last(s)>>) = 1 /\ Last(<<Last(s)>>) = Last(s)
  BY DEF Last

\* The part of TypeOK about the logs.
LogOK ==
    /\ log \in [Bindings -> Seq(Versions)]
    /\ \A b \in Bindings :
        /\ Len(log[b]) \in 1 .. MaxLag + 2
        /\ log[b] \in Seq(VersionsOf(b))

\* The part of TypeOK about the pass.
PassOK ==
    \/ pass = Idle
    \/ pass \in Passes /\ IsInjective(pass.status) /\ pass.snap \in VersionsOf(pass.trb)

\* What a log holds.
LEMMA Logs ==
    ASSUME LogOK, NEW b \in Bindings
    PROVE  /\ Len(log[b]) \in Nat /\ Len(log[b]) >= 1
           /\ log[b][1] \in VersionsOf(b) /\ Server(b) \in VersionsOf(b)
           /\ Len(log[b]) = 1 => Server(b) = log[b][1]
  <1>1. log[b] \in Seq(VersionsOf(b)) /\ Len(log[b]) >= 1 /\ Len(log[b]) \in Nat
    BY BindingAssumption DEF LogOK
  <1>2. QED
    BY <1>1, EndsOfLog DEF Server

\* A write puts a version at the end of one log.
LEMMA WriteStep ==
    ASSUME LogOK, NEW b \in Bindings, NEW v \in VersionsOf(b), Write(b, v)
    PROVE  /\ LogOK'
           /\ Server(b)' = v
           /\ \A d \in Bindings \ {b} : log'[d] = log[d]
  <1>1. Append(log[b], v) \in Seq(Versions) /\ Append(log[b], v) \in Seq(VersionsOf(b))
        /\ Len(Append(log[b], v)) = Len(log[b]) + 1 /\ Last(Append(log[b], v)) = v
    <2>1. v \in Versions
      BY DEF VersionsOf
    <2>2. QED
      BY <2>1, AppendLog DEF LogOK
  <1>2. log' \in [Bindings -> Seq(Versions)] /\ log'[b] = Append(log[b], v)
        /\ \A d \in Bindings \ {b} : log'[d] = log[d]
    BY <1>1 DEF LogOK, Write
  <1>3. Len(log'[b]) \in 1 .. MaxLag + 2
    BY <1>1, <1>2, BindingAssumption DEF LogOK, Write
  <1>4. QED
    BY <1>1, <1>2, <1>3 DEF LogOK, Server, VersionsOf

\* Delivery changes what the cache holds and not what the server holds.
LEMMA DeliverStep ==
    ASSUME LogOK, NEW b \in Bindings, Deliver(b)
    PROVE  LogOK' /\ \A d \in Bindings : Server(d)' = Server(d)
  <1>1. Tail(log[b]) \in Seq(Versions) /\ Tail(log[b]) \in Seq(VersionsOf(b))
        /\ Len(Tail(log[b])) = Len(log[b]) - 1 /\ Last(Tail(log[b])) = Last(log[b])
    BY TailLog DEF LogOK, Deliver
  <1>2. log' \in [Bindings -> Seq(Versions)] /\ log'[b] = Tail(log[b])
        /\ \A d \in Bindings \ {b} : log'[d] = log[d]
    BY <1>1 DEF LogOK, Deliver
  <1>3. Len(log'[b]) \in 1 .. MaxLag + 2
    BY <1>1, <1>2, BindingAssumption DEF LogOK, Deliver
  <1>4. QED
    BY <1>1, <1>2, <1>3 DEF LogOK, Server, VersionsOf

\* A restart fills the cache from the server.
LEMMA RestartStep ==
    ASSUME LogOK, Restart
    PROVE  LogOK' /\ \A d \in Bindings : Server(d)' = Server(d)
  <1>1. \A d \in Bindings : /\ <<Server(d)>> \in Seq(Versions) /\ <<Server(d)>> \in Seq(VersionsOf(d))
                            /\ Len(<<Server(d)>>) = 1 /\ Last(<<Server(d)>>) = Server(d)
    BY EndsOfLog DEF LogOK, Server
  <1>2. \A d \in Bindings : log'[d] = <<Server(d)>>
    BY DEF Restart
  <1>3. log' \in [Bindings -> Seq(Versions)]
    BY <1>1 DEF Restart
  <1>4. \A d \in Bindings : /\ log'[d] \in Seq(VersionsOf(d))
                            /\ Len(log'[d]) \in 1 .. MaxLag + 2 /\ Last(log'[d]) = Server(d)
    <2> TAKE d \in Bindings
    <2>1. 1 \in 1 .. MaxLag + 2
      BY BindingAssumption
    <2>2. QED
      BY <1>1, <1>2, <2>1
  <1>5. LogOK'
    BY <1>3, <1>4 DEF LogOK, VersionsOf
  <1>6. QED
    BY <1>4, <1>5 DEF Server

-----------------------------------------------------------------------------
(* The pass. *)

Results == {"Success", "Pending", "Failed"}

\* Running: the worker is in a pass.
LEMMA Running ==
    ASSUME PassOK, pass.pc # "idle"
    PROVE  /\ pass # Idle /\ pass \in Passes /\ pass.trb \in Bindings
           /\ pass.snap \in VersionsOf(pass.trb)
           /\ pass.status \in Seq(Clusters) /\ IsInjective(pass.status)
           /\ pass.touched \subseteq Clusters /\ pass.list \subseteq Clusters
           /\ pass.todo \subseteq Clusters /\ pass.i \in Nat \ {0} /\ pass.result \in Results
  BY DEF PassOK, Passes, Idle, Results

\* No step of a pass but the last changes the binding and the version it is for.
SamePass ==
    /\ pass' \in Passes
    /\ pass'.trb = pass.trb
    /\ pass'.snap = pass.snap

\* A pass is decided.
LEMMA Decided ==
    ASSUME PassOK, pass.pc # "idle", NEW r \in Results, Decide(r)
    PROVE  /\ SamePass /\ PassOK'
           /\ pass'.pc = "patchStatus" /\ pass'.result = r /\ pass'.status = pass.status
           /\ pass'.touched = pass.touched
  <1>1. pass \in Passes
    BY Running
  <1>2. /\ SamePass
        /\ pass'.pc = "patchStatus" /\ pass'.result = r /\ pass'.status = pass.status
        /\ pass'.touched = pass.touched
    BY <1>1 DEF Decide, Passes, SamePass, Results
  <1>3. QED
    BY <1>2, Running DEF PassOK, SamePass, VersionsOf

\* A pass goes on, with another list of entries perhaps.
LEMMA GoesOn ==
    ASSUME PassOK, pass.pc # "idle", SamePass, IsInjective(pass'.status)
    PROVE  PassOK'
  BY Running DEF PassOK, SamePass, VersionsOf

\* The effects a step of a pass may have on the clusters and on its record: some
\* bindings of the binding at hand are taken away; the entry of a cluster that is
\* gone is dropped; a cluster is cleaned up and its entry is dropped; a cluster
\* gets the ClusterRole and bindings, and an entry.
Trims ==
    /\ roles' = roles
    /\ remote' \subseteq remote
    /\ \A x \in remote : x.trb # pass.trb => x \in remote'
    /\ Range(pass'.status) = Range(pass.status)

DropsGone(c) ==
    /\ health[c] = "gone"
    /\ roles' = roles /\ remote' = remote
    /\ Range(pass'.status) = Range(pass.status) \ {c}

Clears(c) ==
    /\ cleanupCluster(pass.trb, c)
    /\ Range(pass'.status) = Range(pass.status) \ {c}

Adds(c) ==
    LET there == IF health[c] = "gone" THEN {} ELSE {c}
    IN  /\ pass.pc = "doReconcile"
        /\ \/ roles' = roles /\ remote' = remote
           \/ /\ roles' = roles \cup there
              /\ remote \subseteq remote'
              /\ remote' \subseteq remote \cup rbacBindings(pass.trb, pass.snap, there)
        /\ Range(pass'.status) = Range(pass.status) \cup {c}

Effect ==
    /\ SamePass /\ PassOK'
    /\ \/ Trims
       \/ \E c \in Clusters : DropsGone(c) \/ Clears(c) \/ Adds(c)

\* Which version a pass works on, and what its success means.
InPhase ==
    pass.pc # "idle" =>
        /\ pass.snap.stage \in {"live", "deleting"}
        /\ pass.pc \in {"cleanupResources", "doReconcile"} => pass.snap.stage = "live"
        /\ pass.pc = "EnsureDeleted" => pass.snap.stage = "deleting"
        /\ pass.pc = "patchStatus" /\ pass.snap.stage = "deleting" /\ pass.result = "Success"
            => pass.status = <<>>

\* A round of cleanupResources.
LEMMA CleanupEffect ==
    ASSUME PassOK, cleanupResources
    PROVE  Effect /\ (InPhase => InPhase')
  <1>1. pass.pc = "cleanupResources" /\ pass.pc # "idle"
    BY DEF cleanupResources
  <1> DEFINE b == pass.trb
             c == pass.status[pass.i]
  <1>2. /\ pass \in Passes /\ b \in Bindings /\ pass.status \in Seq(Clusters) /\ IsInjective(pass.status)
        /\ pass.list \subseteq Clusters /\ pass.i \in Nat \ {0}
    BY <1>1, Running
  <1>3. pass.i <= Len(pass.status) => c \in Clusters
    BY <1>2
  <1>4. ASSUME NEW status \in Seq(Clusters), IsInjective(status), NEW touched \in SUBSET Clusters,
               pass' = [pass EXCEPT !.status = status, !.touched = touched, !.i = @ + 1]
        PROVE  SamePass /\ PassOK' /\ pass'.pc = "cleanupResources" /\ pass'.status = status
    <2> DEFINE next == pass.i + 1
    <2>0. next \in Nat \ {0}
      BY <1>2
    <2>h. pass' = [pass EXCEPT !.status = status, !.touched = touched, !.i = next]
      BY <1>4
    <2> HIDE DEF next
    <2>1. SamePass /\ pass'.pc = "cleanupResources" /\ pass'.status = status
      BY <1>1, <1>2, <2>0, <2>h DEF Passes, SamePass
    <2>2. QED
      BY <2>1, <1>1, <1>4, GoesOn
  <1>5. ASSUME SamePass, pass'.pc \in {"cleanupResources", "doReconcile", "patchStatus"}
        PROVE  InPhase => InPhase'
    BY <1>1, <1>5 DEF InPhase, SamePass
  <1>6. CASE pass.i > Len(pass.status) /\ CleanupDone /\ UNCHANGED <<roles, remote>>
    <2>1. /\ SamePass /\ PassOK' /\ pass'.status = pass.status
          /\ pass'.pc \in {"doReconcile", "patchStatus"}
      <3>1. CASE Decide("Success")
        BY <3>1, <1>1, Decided DEF Results
      <3>2. CASE pass' = [pass EXCEPT !.pc = "doReconcile", !.todo = pass.list]
        <4>1. SamePass /\ pass'.pc = "doReconcile" /\ pass'.status = pass.status
          BY <1>1, <1>2, <3>2 DEF Passes, SamePass
        <4>2. QED
          BY <4>1, <1>1, <1>2, GoesOn
      <3>3. QED
        BY <1>6, <3>1, <3>2 DEF CleanupDone
    <2>2. Trims
      BY <2>1, <1>6 DEF Trims
    <2>3. QED
      BY <2>1, <2>2, <1>5 DEF Effect
  <1>7. CASE /\ pass.i <= Len(pass.status) /\ health[c] = "gone"
             /\ pass' = [pass EXCEPT !.status = RemovePropagationStatus(@, c), !.i = @ + 1]
             /\ UNCHANGED <<roles, remote>>
    <2> DEFINE st == RemovePropagationStatus(pass.status, c)
    <2>1. st \in Seq(Clusters) /\ IsInjective(st) /\ Range(st) = Range(pass.status) \ {c}
      BY <1>2, RemoveOne
    <2>2. pass' = [pass EXCEPT !.status = st, !.touched = pass.touched, !.i = @ + 1]
      BY <1>2, <1>7 DEF Passes
    <2>3. SamePass /\ PassOK' /\ pass'.pc = "cleanupResources" /\ pass'.status = st
      BY <2>1, <2>2, <1>1, <1>4, Running
    <2>4. DropsGone(c)
      BY <2>1, <2>3, <1>7 DEF DropsGone
    <2>5. QED
      BY <2>3, <2>4, <1>3, <1>5, <1>7 DEF Effect
  <1>8. CASE /\ pass.i <= Len(pass.status)
             /\ pass' = [pass EXCEPT !.i = @ + 1, !.touched = @ \cup {c}]
             /\ UNCHANGED <<roles, remote>>
    <2>1. pass' = [pass EXCEPT !.status = pass.status, !.touched = pass.touched \cup {c}, !.i = @ + 1]
      BY <1>2, <1>8 DEF Passes
    <2>2. SamePass /\ PassOK' /\ pass'.pc = "cleanupResources" /\ pass'.status = pass.status
      <3>1. pass.touched \cup {c} \in SUBSET Clusters
        BY <1>1, <1>3, <1>8, Running
      <3>2. QED
        BY <2>1, <3>1, <1>2, <1>4
    <2>3. Trims
      BY <2>2, <1>8 DEF Trims
    <2>4. QED
      BY <2>2, <2>3, <1>5 DEF Effect
  <1>9. CASE /\ pass.i <= Len(pass.status)
             /\ cleanupCluster(b, c)
             /\ pass' = [pass EXCEPT !.status = RemovePropagationStatus(@, c), !.i = @ + 1]
    <2> DEFINE st == RemovePropagationStatus(pass.status, c)
    <2>1. st \in Seq(Clusters) /\ IsInjective(st) /\ Range(st) = Range(pass.status) \ {c}
      BY <1>2, RemoveOne
    <2>2. pass' = [pass EXCEPT !.status = st, !.touched = pass.touched, !.i = @ + 1]
      BY <1>2, <1>9 DEF Passes
    <2>3. SamePass /\ PassOK' /\ pass'.pc = "cleanupResources" /\ pass'.status = st
      BY <2>1, <2>2, <1>1, <1>4, Running
    <2>4. Clears(c)
      BY <2>1, <2>3, <1>9 DEF Clears
    <2>5. QED
      BY <2>3, <2>4, <1>3, <1>5, <1>9 DEF Effect
  <1>10. ASSUME Decide("Failed"), roles' = roles,
                \E gone \in SUBSET BindingsOn(b, c) : remote' = remote \ gone
         PROVE  Effect /\ (InPhase => InPhase')
    <2>1. SamePass /\ PassOK' /\ pass'.status = pass.status /\ pass'.pc = "patchStatus"
      BY <1>10, <1>1, Decided DEF Results
    <2>2. Trims
      BY <2>1, <1>10 DEF Trims, BindingsOn
    <2>3. QED
      BY <2>1, <2>2, <1>5 DEF Effect
  <1>11. CASE /\ pass.i <= Len(pass.status)
              /\ remote' = {x \in remote : x \in BindingsOn(b, c) => x.ns \in Targets(pass.snap)}
              /\ pass' = [pass EXCEPT !.i = @ + 1]
              /\ UNCHANGED roles
    <2>1. pass' = [pass EXCEPT !.status = pass.status, !.touched = pass.touched, !.i = @ + 1]
      BY <1>2, <1>11 DEF Passes
    <2>2. SamePass /\ PassOK' /\ pass'.pc = "cleanupResources" /\ pass'.status = pass.status
      BY <2>1, <1>1, <1>2, <1>4, Running
    <2>3. Trims
      BY <2>2, <1>11 DEF Trims, BindingsOn
    <2>4. QED
      BY <2>2, <2>3, <1>5 DEF Effect
  <1>12. QED
    BY <1>6, <1>7, <1>8, <1>9, <1>10, <1>11 DEF cleanupResources, cleanupClusterFails

\* A cluster of doReconcile.
LEMMA ReconcileEffect ==
    ASSUME PassOK, doReconcile
    PROVE  Effect /\ (InPhase => InPhase')
  <1>1. pass.pc = "doReconcile" /\ pass.pc # "idle"
    BY DEF doReconcile
  <1>2. /\ pass \in Passes /\ pass.status \in Seq(Clusters) /\ IsInjective(pass.status)
        /\ pass.todo \subseteq Clusters /\ pass.result \in Results
    BY <1>1, Running
  <1>3. CASE Decide(pass.result) /\ UNCHANGED <<roles, remote>>
    <2>1. SamePass /\ PassOK' /\ pass'.status = pass.status /\ pass'.pc = "patchStatus"
      BY <1>3, <1>1, <1>2, Decided
    <2>2. Trims
      BY <2>1, <1>3 DEF Trims
    <2>3. QED
      BY <1>1, <2>1, <2>2 DEF Effect, InPhase, SamePass
  <1>4. ASSUME NEW c \in pass.todo, NEW result \in Results,
               pass' = [pass EXCEPT !.todo = @ \ {c}, !.result = result,
                                    !.status = SetPropagationStatus(@, c), !.touched = @ \cup {c}],
               LET there == IF health[c] = "gone" THEN {} ELSE {c}
               IN  \/ roles' = roles /\ remote' = remote
                   \/ /\ roles' = roles \cup there
                      /\ \E some \in SUBSET rbacBindings(pass.trb, pass.snap, there) :
                            remote' = remote \cup some
        PROVE  Effect /\ (InPhase => InPhase')
    <2> DEFINE st == SetPropagationStatus(pass.status, c)
    <2>1. c \in Clusters /\ st \in Seq(Clusters) /\ IsInjective(st) /\ Range(st) = Range(pass.status) \cup {c}
      BY <1>2, SetOne
    <2> HIDE DEF st
    <2>2. pass' = [pass EXCEPT !.todo = @ \ {c}, !.result = result, !.status = st, !.touched = @ \cup {c}]
      BY <1>2, <1>4 DEF st, Passes
    <2>3. SamePass /\ pass'.pc = "doReconcile" /\ pass'.status = st
      BY <1>1, <1>2, <2>1, <2>2 DEF Passes, SamePass, Results
    <2>4. PassOK'
      BY <1>1, <2>1, <2>3, GoesOn
    <2>5. Adds(c)
      BY <1>1, <2>1, <2>3, <1>4 DEF Adds
    <2>6. QED
      BY <1>1, <2>1, <2>3, <2>4, <2>5 DEF Effect, InPhase, SamePass
  <1>5. QED
    <2>1. ASSUME NEW c \in pass.todo, NEW result \in Results,
                 pass' = [pass EXCEPT !.todo = @ \ {c}, !.result = result,
                                      !.status = SetPropagationStatus(@, c), !.touched = @ \cup {c}],
                 roles' = roles \cup (IF health[c] = "gone" THEN {} ELSE {c}),
                 remote' = remote \cup rbacBindings(pass.trb, pass.snap, IF health[c] = "gone" THEN {} ELSE {c})
          PROVE  Effect /\ (InPhase => InPhase')
      BY <2>1, <1>4
    <2>2. QED
      BY <1>2, <1>3, <1>4, <2>1 DEF doReconcile, Results

\* A cluster of EnsureDeleted.
LEMMA DeleteEffect ==
    ASSUME PassOK, EnsureDeleted
    PROVE  Effect /\ (InPhase => InPhase')
  <1>1. pass.pc = "EnsureDeleted" /\ pass.pc # "idle"
    BY DEF EnsureDeleted
  <1>2. /\ pass \in Passes /\ pass.status \in Seq(Clusters) /\ IsInjective(pass.status)
        /\ pass.todo \subseteq Clusters
    BY <1>1, Running
  <1>3. CASE /\ Decide(IF pass.status = <<>> THEN "Success" ELSE "Pending")
             /\ UNCHANGED <<roles, remote>>
    <2>1. /\ SamePass /\ PassOK' /\ pass'.status = pass.status /\ pass'.pc = "patchStatus"
          /\ pass'.result = "Success" => pass.status = <<>>
      BY <1>3, <1>1, <1>2, Decided DEF Results
    <2>2. Trims
      BY <2>1, <1>3 DEF Trims
    <2>3. QED
      BY <1>1, <2>1, <2>2 DEF Effect, InPhase, SamePass
  <1>4. ASSUME NEW c \in pass.todo, cleanupCluster(pass.trb, c),
               pass' = [pass EXCEPT !.todo = @ \ {c}, !.status = RemovePropagationStatus(@, c)]
        PROVE  Effect /\ (InPhase => InPhase')
    <2> DEFINE st == RemovePropagationStatus(pass.status, c)
    <2>1. c \in Clusters /\ st \in Seq(Clusters) /\ IsInjective(st) /\ Range(st) = Range(pass.status) \ {c}
      BY <1>2, RemoveOne
    <2> HIDE DEF st
    <2>2. pass' = [pass EXCEPT !.todo = @ \ {c}, !.status = st]
      BY <1>2, <1>4 DEF st, Passes
    <2>3. SamePass /\ pass'.pc = "EnsureDeleted" /\ pass'.status = st
      BY <1>1, <1>2, <2>1, <2>2 DEF Passes, SamePass
    <2>4. PassOK'
      BY <1>1, <2>1, <2>3, GoesOn
    <2>5. Clears(c)
      BY <2>1, <2>3, <1>4 DEF Clears
    <2>6. QED
      BY <1>1, <2>1, <2>3, <2>4, <2>5 DEF Effect, InPhase, SamePass
  <1>5. ASSUME NEW c \in pass.todo, cleanupClusterFails(pass.trb, c),
               pass' = [pass EXCEPT !.todo = @ \ {c}]
        PROVE  Effect /\ (InPhase => InPhase')
    <2>1. SamePass /\ pass'.pc = "EnsureDeleted" /\ pass'.status = pass.status
      BY <1>1, <1>2, <1>5 DEF Passes, SamePass
    <2>2. PassOK'
      BY <1>1, <1>2, <2>1, GoesOn
    <2>3. Trims
      BY <2>1, <1>5 DEF Trims, cleanupClusterFails, BindingsOn
    <2>4. QED
      BY <1>1, <2>1, <2>2, <2>3 DEF Effect, InPhase, SamePass
  <1>6. QED
    BY <1>3, <1>4, <1>5 DEF EnsureDeleted

\* A pass begins with the entries of the version it has read, or more.
LEMMA BeginStep ==
    ASSUME NEW b \in Bindings, NEW v \in VersionsOf(b),
           NEW pc \in {"cleanupResources", "EnsureDeleted", "patchStatus"},
           NEW touched \in SUBSET Clusters, NEW list \in SUBSET Clusters, NEW todo \in SUBSET Clusters,
           Begin(b, pc, v, touched, list, todo)
    PROVE  /\ PassOK' /\ pass' \in Passes
           /\ pass'.pc = pc /\ pass'.trb = b /\ pass'.snap = v
           /\ Range(v.status) \subseteq Range(pass'.status)
  <1>1. v \in Versions /\ v.status \in Seq(Clusters) /\ IsInjective(v.status)
    BY ChangedVersion
  <1> DEFINE st == SetAll(v.status, touched)
  <1>2. st \in Seq(Clusters) /\ IsInjective(st) /\ Range(v.status) \subseteq Range(st)
    BY <1>1, SetMany
  <1> HIDE DEF st
  <1>3. pass' = [pc |-> pc, trb |-> b, snap |-> v, status |-> st,
                 touched |-> touched, list |-> list, todo |-> todo, i |-> 1, result |-> "Success"]
    BY DEF Begin, st
  <1>4. pass' \in Passes /\ pass'.pc = pc /\ pass'.trb = b /\ pass'.snap = v /\ pass'.status = st
    BY <1>1, <1>2, <1>3 DEF Passes
  <1>5. QED
    BY <1>2, <1>4 DEF PassOK, VersionsOf

\* What the worker does with the version it takes from the cache: nothing; it
\* adds or removes the finalizer of the newest version; or it begins a pass.
Adopts(b) ==
    /\ pass' = pass /\ Len(log[b]) = 1
    /\ \/ Server(b).stage = "new" /\ Write(b, [Server(b) EXCEPT !.stage = "live"])
       \/ Server(b).stage = "deleted" /\ Write(b, Absent(b))

Begins(b) ==
    LET v == log[b][1]
    IN  /\ log' = log
        /\ pass' \in Passes /\ pass'.trb = b /\ pass'.snap = v
        /\ Range(v.status) \subseteq Range(pass'.status)
        /\ Len(log[b]) <= MaxLag + 1
        /\ \/ pass'.pc \in {"cleanupResources", "patchStatus"} /\ v.stage = "live"
           \/ pass'.pc = "EnsureDeleted" /\ v.stage = "deleting"

\* The worker takes a binding.
LEMMA TakeStep ==
    ASSUME TypeOK, NEW b \in Bindings, Reconcile(b)
    PROVE  /\ LogOK' /\ PassOK' /\ pass = Idle
           /\ \/ log' = log /\ pass' = pass
              \/ Adopts(b)
              \/ Begins(b)
  <1> DEFINE v == log[b][1]
  <1>1. LogOK /\ PassOK
    BY DEF TypeOK, LogOK, PassOK
  <1>2. pass = Idle
    BY <1>1 DEF Reconcile, PassOK, Passes
  <1>3. v \in VersionsOf(b) /\ (Len(log[b]) = 1 => v = Server(b))
    BY <1>1, Logs
  <1>4. /\ v.status \in Seq(Clusters) /\ IsInjective(v.status)
        /\ listClusters(v) \in SUBSET Clusters /\ NotReadyListed(v) \in SUBSET Clusters
    <2>1. v \in Versions
      BY <1>3 DEF VersionsOf
    <2>2. v.sel \in Clusters \cup {"labels"}
      BY <2>1 DEF Versions
    <2>3. QED
      BY <1>3, <2>2, ChangedVersion DEF TypeOK, listClusters, NotReadyListed
  <1>5. combineClusterLists(listClusters(v), SetAll(v.status, NotReadyListed(v))) \in SUBSET Clusters
    <2>1. SetAll(v.status, NotReadyListed(v)) \in Seq(Clusters)
      BY <1>4, SetMany
    <2>2. Range(SetAll(v.status, NotReadyListed(v))) \subseteq Clusters
      BY <2>1 DEF Range
    <2>3. QED
      BY <1>4, <2>2 DEF combineClusterLists
  <1>6. CASE log' = log /\ pass' = pass
    <2>1. LogOK'
      BY <1>1, <1>6 DEF LogOK
    <2>2. PassOK'
      BY <1>2, <1>6 DEF PassOK, Idle
    <2>3. QED
      BY <2>1, <2>2, <1>2, <1>6
  <1>7. CASE /\ v.stage = "new" /\ Len(log[b]) = 1 /\ pass' = pass
             /\ Write(b, [v EXCEPT !.stage = "live"])
    <2>1. [v EXCEPT !.stage = "live"] \in VersionsOf(b)
      BY <1>3, ChangedVersion DEF Stages
    <2>2. LogOK'
      BY <1>1, <1>7, <2>1, WriteStep
    <2>3. QED
      BY <1>1, <1>2, <1>3, <1>7, <2>2 DEF PassOK, Adopts, Idle
  <1>8. CASE v.stage = "deleted" /\ Len(log[b]) = 1 /\ pass' = pass /\ Write(b, Absent(b))
    <2>1. LogOK'
      BY <1>1, <1>8, AbsentVersion, WriteStep
    <2>2. QED
      BY <1>1, <1>2, <1>3, <1>8, <2>1 DEF PassOK, Adopts, Idle
  <1>9. ASSUME NEW pc \in {"cleanupResources", "EnsureDeleted", "patchStatus"},
               NEW touched \in SUBSET Clusters, NEW list \in SUBSET Clusters, NEW todo \in SUBSET Clusters,
               Begin(b, pc, v, touched, list, todo), log' = log,
               (pc = "EnsureDeleted" /\ v.stage = "deleting") \/ (pc # "EnsureDeleted" /\ v.stage = "live")
        PROVE  LogOK' /\ PassOK' /\ Begins(b)
    <2>1. /\ PassOK' /\ pass' \in Passes
          /\ pass'.pc = pc /\ pass'.trb = b /\ pass'.snap = v
          /\ Range(v.status) \subseteq Range(pass'.status)
      BY <1>3, <1>9, BeginStep
    <2>2. Len(log[b]) <= MaxLag + 1
      BY DEF Reconcile
    <2>3. LogOK'
      BY <1>1, <1>9 DEF LogOK, VersionsOf
    <2>4. QED
      BY <2>1, <2>2, <2>3, <1>9 DEF Begins
  <1>10. CASE v.stage = "live" /\ Begin(b, "patchStatus", v, {}, {}, {}) /\ log' = log
    BY <1>2, <1>9, <1>10
  <1>11. CASE v.stage = "live" /\ Begin(b, "cleanupResources", v, NotReadyListed(v), listClusters(v), {}) /\ log' = log
    BY <1>2, <1>4, <1>9, <1>11
  <1>12. CASE /\ v.stage = "deleting" /\ log' = log
              /\ Begin(b, "EnsureDeleted", v, NotReadyListed(v), listClusters(v),
                       combineClusterLists(listClusters(v), SetAll(v.status, NotReadyListed(v))))
    <2> DEFINE todo == combineClusterLists(listClusters(v), SetAll(v.status, NotReadyListed(v)))
    <2>1. todo \in SUBSET Clusters /\ Begin(b, "EnsureDeleted", v, NotReadyListed(v), listClusters(v), todo)
      BY <1>5, <1>12
    <2> HIDE DEF todo
    <2>2. QED
      BY <2>1, <1>2, <1>4, <1>9, <1>12
  <1>13. Len(log[b]) > 1 \/ Len(log[b]) = 1
    <2>1. Len(log[b]) \in Nat /\ Len(log[b]) >= 1
      BY <1>1, Logs
    <2>2. \A n \in Nat : n >= 1 => n > 1 \/ n = 1
      OBVIOUS
    <2>3. QED
      BY <2>1, <2>2
  <1>14. QED
    <2> USE <1>2
    <2>1. CASE v.stage = "absent" /\ UNCHANGED <<log, pass>>
      BY <2>1, <1>6
    <2>2. CASE /\ v.stage \in {"new", "deleted"}
               /\ IF Len(log[b]) > 1 THEN UNCHANGED log
                  ELSE Write(b, IF v.stage = "new" THEN [v EXCEPT !.stage = "live"] ELSE Absent(b))
               /\ UNCHANGED pass
      BY <2>2, <1>6, <1>7, <1>8, <1>13
    <2>3. QED
      BY <2>1, <2>2, <1>10, <1>11, <1>12 DEF Reconcile

\* What the status patch leaves of a list or of a condition is one of the two.
LEMMA MergedIsEither ==
    ASSUME NEW new, NEW old, NEW server, NEW touched
    PROVE  Merged(new, old, server, touched) \subseteq {new, server}
  BY DEF Merged

\* The status patch writes a version of the binding, or nothing.
LEMMA PatchStep ==
    ASSUME LogOK, PassOK, patchStatus
    PROVE  LogOK' /\ PassOK' /\ pass' = Idle
  <1>1. pass.pc # "idle" /\ pass' = Idle
    BY DEF patchStatus
  <1> DEFINE b == pass.trb
             s == Server(b)
  <1>2. b \in Bindings /\ pass.status \in Seq(Clusters) /\ IsInjective(pass.status)
    BY <1>1, Running
  <1>3. s \in VersionsOf(b)
    BY <1>2, Logs
  <1>4. s.status \in Seq(Clusters) /\ IsInjective(s.status) /\ s.stage \in Stages
    BY <1>3 DEF VersionsOf, Versions
  <1>5. ASSUME NEW status \in {pass.status, s.status}, NEW stage \in Stages,
               Write(b, [s EXCEPT !.status = status, !.stage = stage])
        PROVE  LogOK'
    <2>1. status \in Seq(Clusters) /\ IsInjective(status)
      BY <1>2, <1>4
    <2>2. [s EXCEPT !.status = status, !.stage = stage] \in VersionsOf(b)
      BY <1>2, <1>3, <2>1, ChangedVersion
    <2>3. QED
      BY <1>2, <1>5, <2>2, WriteStep
  <1>6. ASSUME UNCHANGED log PROVE LogOK'
    BY <1>6 DEF LogOK
  <1>7. LogOK'
    <2>1. Merged(pass.status, pass.snap.status, s.status, pass.touched # {}) \subseteq {pass.status, s.status}
      BY MergedIsEither
    <2>2. (IF pass.snap.stage = "live" THEN {s.stage}
           ELSE Merged(IF pass.result = "Success" THEN "deleted" ELSE "deleting",
                       pass.snap.stage, s.stage, TRUE)) \subseteq Stages
      <3>1. Merged("deleted", pass.snap.stage, s.stage, TRUE) \subseteq {"deleted", s.stage}
        BY DEF Merged
      <3>2. Merged("deleting", pass.snap.stage, s.stage, TRUE) \subseteq {"deleting", s.stage}
        BY DEF Merged
      <3>3. QED
        BY <3>1, <3>2, <1>4 DEF Stages
    <2>3. QED
      BY <1>5, <1>6, <2>1, <2>2 DEF patchStatus
  <1>8. QED
    BY <1>1, <1>7 DEF PassOK, Idle

-----------------------------------------------------------------------------
(* Type correctness. *)

\* The rest of TypeOK.
EnvOK ==
    /\ health \in [Clusters -> {"ready", "unready", "gone"}]
    /\ labelled \subseteq Clusters
    /\ refs \subseteq {"teamRole", "teams"}
    /\ queue \subseteq Bindings

ClustersOK == roles \subseteq Clusters /\ remote \subseteq Remote

CountersOK == edits \in 0 .. MaxEdits /\ faults \in 0 .. MaxFaults /\ crashes \in 0 .. MaxCrashes

LostOK == lost \subseteq Bindings \X Clusters

\* TypeOK and its parts.
LEMMA TypeParts == TypeOK <=> LogOK /\ PassOK /\ EnvOK /\ ClustersOK /\ CountersOK /\ LostOK
  BY DEF TypeOK, LogOK, PassOK, EnvOK, ClustersOK, CountersOK, LostOK

\* What a pass leaves unrecorded is about its binding and about clusters.
LEMMA Unrecorded ==
    ASSUME LogOK, PassOK
    PROVE  /\ CutShort \subseteq Bindings \X Clusters
           /\ pass.pc # "idle" => Overwritten(pass.trb) \subseteq Bindings \X Clusters
  <1>1. CASE pass = Idle
    BY <1>1 DEF CutShort, Idle
  <1>2. CASE pass # Idle
    <2>1. pass.trb \in Bindings /\ pass.status \in Seq(Clusters)
      BY <1>2 DEF PassOK, Passes
    <2>2. Range(pass.status) \subseteq Clusters
      BY <2>1 DEF Range
    <2>3. Recorded(Server(pass.trb)) \subseteq Clusters
      <3>1. Server(pass.trb).status \in Seq(Clusters)
        BY <2>1, Logs DEF VersionsOf, Versions
      <3>2. QED
        BY <3>1 DEF Recorded, Range
    <2>4. QED
      BY <1>2, <2>1, <2>2, <2>3 DEF CutShort, Overwritten
  <1>3. QED
    BY <1>1, <1>2

\* What is bound in clusters on behalf of a version is what Remote describes.
LEMMA WantedIsRemote ==
    ASSUME NEW b \in Bindings, NEW v \in VersionsOf(b), NEW cs \in SUBSET Clusters
    PROVE  rbacBindings(b, v, cs) \subseteq Remote
  <1>1. Targets(v) \subseteq Namespaces \cup {Everywhere}
    BY DEF Targets, VersionsOf, Versions
  <1>2. QED
    BY <1>1 DEF rbacBindings, Remote

\* The effect of a step of a pass keeps the clusters' types.
LEMMA EffectType ==
    ASSUME PassOK, pass.pc # "idle", ClustersOK, Effect
    PROVE  ClustersOK'
  <1>1. CASE Trims
    BY <1>1 DEF Trims, ClustersOK
  <1>2. ASSUME NEW c \in Clusters, DropsGone(c) \/ Clears(c)
        PROVE  ClustersOK'
    BY <1>2 DEF DropsGone, Clears, cleanupCluster, ClustersOK, Remote
  <1>3. ASSUME NEW c \in Clusters, Adds(c)
        PROVE  ClustersOK'
    <2> DEFINE there == IF health[c] = "gone" THEN {} ELSE {c}
    <2>1. rbacBindings(pass.trb, pass.snap, there) \subseteq Remote
      BY Running, WantedIsRemote
    <2>2. QED
      BY <1>3, <2>1 DEF Adds, ClustersOK, Remote
  <1>4. QED
    BY <1>1, <1>2, <1>3 DEF Effect

\* Every step keeps the variables in their types.
LEMMA TypeStep == TypeOK /\ [Next]_vars => TypeOK'
  <1> SUFFICES ASSUME TypeOK, [Next]_vars
               PROVE  TypeOK'
    OBVIOUS
  <1>t. LogOK /\ PassOK /\ EnvOK /\ ClustersOK /\ CountersOK /\ LostOK
    BY TypeParts
  <1>q. ASSUME LogOK', PassOK', EnvOK', ClustersOK', CountersOK', LostOK' PROVE TypeOK'
    BY <1>q DEF TypeOK, LogOK, PassOK, EnvOK, ClustersOK, CountersOK, LostOK
  <1>o. ASSUME UNCHANGED lost PROVE LostOK'
    BY <1>t, <1>o DEF LostOK
  <1>l. ASSUME UNCHANGED log PROVE LogOK'
    BY <1>t, <1>l DEF LogOK
  <1>p. ASSUME UNCHANGED pass PROVE PassOK'
    BY <1>t, <1>p DEF PassOK
  <1>r. ASSUME UNCHANGED <<roles, remote>> PROVE ClustersOK'
    BY <1>t, <1>r DEF ClustersOK
  <1>n. ASSUME ChangeSomething \/ edits' = edits,
               \/ faults' = faults
               \/ faults < MaxFaults /\ faults' = faults + 1,
               \/ crashes' = crashes
               \/ crashes < MaxCrashes /\ crashes' = crashes + 1
        PROVE  CountersOK'
    BY <1>t, <1>n, BindingAssumption DEF CountersOK, ChangeSomething
  <1>1. ASSUME NEW b \in Bindings, Create(b) \/ Edit(b) \/ Delete(b) PROVE TypeOK'
    <2>1. PICK v \in VersionsOf(b) : Write(b, v)
      <3>1. Server(b) \in VersionsOf(b) /\ Absent(b) \in VersionsOf(b)
        BY <1>t, Logs, AbsentVersion
      <3>2. CASE Create(b)
        BY <3>1, <3>2, ChangedVersion DEF Create, Stages
      <3>3. CASE Edit(b)
        BY <3>1, <3>3, ChangedVersion DEF Edit
      <3>4. CASE Delete(b)
        BY <3>1, <3>4, ChangedVersion DEF Delete, Stages
      <3>5. QED
        BY <1>1, <3>2, <3>3, <3>4
    <2>2. LogOK'
      BY <2>1, <1>t, WriteStep
    <2>3. /\ UNCHANGED <<health, labelled, refs, roles, remote, queue, pass, lost, faults, crashes>>
          /\ ChangeSomething \/ edits' = edits
      BY <1>1 DEF Create, Edit, Delete, env
    <2>4. EnvOK'
      BY <2>3, <1>t DEF EnvOK
    <2>5. QED
      BY <2>2, <2>3, <2>4, <1>p, <1>r, <1>n, <1>o, <1>q
  <1>2. ASSUME NEW b \in Bindings, Deliver(b) PROVE TypeOK'
    <2>1. LogOK'
      BY <1>2, <1>t, DeliverStep
    <2>2. EnvOK'
      BY <1>2, <1>t DEF Deliver, EnvOK, env
    <2>3. UNCHANGED <<roles, remote, pass, lost, edits, faults, crashes>>
      BY <1>2 DEF Deliver
    <2>4. QED
      BY <2>1, <2>2, <2>3, <1>p, <1>r, <1>n, <1>o, <1>q
  <1>3. ASSUME NEW b \in Bindings, Reconcile(b) PROVE TypeOK'
    <2>1. LogOK' /\ PassOK'
      BY <1>3, TakeStep
    <2>2. EnvOK'
      BY <1>3, <1>t DEF Reconcile, EnvOK, env
    <2>3. UNCHANGED <<roles, remote, lost, edits, faults, crashes>>
      BY <1>3 DEF Reconcile
    <2>4. QED
      BY <2>1, <2>2, <2>3, <1>r, <1>n, <1>o, <1>q
  <1>4. ASSUME NEW c \in Clusters, ClusterUnready(c) \/ ClusterReady(c) \/ ClusterGone(c) PROVE TypeOK'
    <2>0. Existing \subseteq Bindings
      BY DEF Existing
    <2>1. EnvOK'
      BY <1>4, <2>0, <1>t DEF ClusterUnready, ClusterReady, ClusterGone, EnvOK
    <2>2. ClustersOK'
      BY <1>4, <1>t DEF ClusterUnready, ClusterReady, ClusterGone, ClustersOK, Remote
    <2>3. UNCHANGED <<log, pass, lost, faults, crashes>> /\ (ChangeSomething \/ edits' = edits)
      BY <1>4 DEF ClusterUnready, ClusterReady, ClusterGone
    <2>4. QED
      BY <2>1, <2>2, <2>3, <1>l, <1>p, <1>n, <1>o, <1>q
  <1>5. CASE LabelsChange \/ enqueueTeamRoleBindingsFor \/ Resync
    <2>0. Existing \subseteq Bindings
      BY DEF Existing
    <2>1. EnvOK'
      BY <1>5, <2>0, <1>t DEF LabelsChange, enqueueTeamRoleBindingsFor, Resync, EnvOK, env
    <2>2. UNCHANGED <<log, roles, remote, pass, lost, faults, crashes>> /\ (ChangeSomething \/ edits' = edits)
      BY <1>5 DEF LabelsChange, enqueueTeamRoleBindingsFor, Resync
    <2>3. QED
      BY <2>1, <2>2, <1>l, <1>p, <1>r, <1>n, <1>o, <1>q
  <1>6. CASE Restart
    <2>1. LogOK'
      BY <1>6, <1>t, RestartStep
    <2>2. PassOK'
      BY <1>6 DEF Restart, PassOK, Idle
    <2>3. EnvOK'
      BY <1>6, <1>t DEF Restart, EnvOK, env
    <2>4. UNCHANGED <<roles, remote, edits, faults>> /\ crashes < MaxCrashes /\ crashes' = crashes + 1
      BY <1>6 DEF Restart
    <2>5. LostOK'
      BY <1>6, <1>t, Unrecorded DEF Restart, LostOK
    <2>6. QED
      BY <2>1, <2>2, <2>3, <2>4, <2>5, <1>r, <1>n, <1>q
  <1>7. CASE cleanupResources \/ doReconcile \/ EnsureDeleted
    <2>1. Effect
      BY <1>7, <1>t, CleanupEffect, ReconcileEffect, DeleteEffect
    <2>2. pass.pc # "idle"
      BY <1>7 DEF cleanupResources, doReconcile, EnsureDeleted
    <2>3. PassOK' /\ ClustersOK'
      BY <2>1, <2>2, <1>t, EffectType DEF Effect
    <2>4. EnvOK'
      BY <1>7, <1>t DEF cleanupResources, doReconcile, EnsureDeleted, EnvOK, env
    <2>5. /\ UNCHANGED <<log, lost, edits, crashes>>
          /\ \/ faults' = faults
             \/ faults < MaxFaults /\ faults' = faults + 1
      BY <1>7 DEF cleanupResources, doReconcile, EnsureDeleted, cleanupCluster, cleanupClusterFails,
                  CallWorks, CallFails
    <2>6. QED
      BY <2>3, <2>4, <2>5, <1>l, <1>n, <1>o, <1>q
  <1>8. CASE patchStatus
    <2>1. LogOK' /\ PassOK'
      BY <1>8, <1>t, PatchStep
    <2>2. EnvOK'
      <3>1. pass.trb \in Bindings
        BY <1>8, <1>t, Running DEF patchStatus
      <3>2. QED
        BY <1>8, <1>t, <3>1 DEF patchStatus, EnvOK, env
    <2>3. /\ UNCHANGED <<roles, remote, edits, faults>>
          /\ \/ crashes' = crashes
             \/ crashes < MaxCrashes /\ crashes' = crashes + 1
      BY <1>8 DEF patchStatus
    <2>4. LostOK'
      BY <1>8, <1>t, Unrecorded DEF patchStatus, LostOK
    <2>5. QED
      BY <2>1, <2>2, <2>3, <2>4, <1>r, <1>n, <1>q
  <1>9. CASE UNCHANGED vars
    <2>1. UNCHANGED <<log, health, labelled, refs, roles, remote, queue, pass, lost, edits, faults, crashes>>
      BY <1>9 DEF vars
    <2>2. EnvOK'
      BY <2>1, <1>t DEF EnvOK
    <2>3. QED
      BY <2>1, <2>2, <1>l, <1>p, <1>r, <1>n, <1>o, <1>q
  <1>10. QED
    BY <1>1, <1>2, <1>3, <1>4, <1>5, <1>6, <1>7, <1>8, <1>9 DEF Next, Step

\* The controller starts within its types.
LEMMA TypeInit == Init => TypeOK
  <1> SUFFICES ASSUME Init PROVE TypeOK
    OBVIOUS
  <1>1. LogOK
    <2>1. \A b \in Bindings : /\ <<Absent(b)>> \in Seq(Versions) /\ <<Absent(b)>> \in Seq(VersionsOf(b))
                              /\ Len(<<Absent(b)>>) = 1
      <3> TAKE b \in Bindings
      <3>1. Absent(b) \in VersionsOf(b) /\ Absent(b) \in Versions
        BY AbsentVersion DEF VersionsOf
      <3>2. QED
        BY <3>1
    <2>2. \A b \in Bindings : log[b] = <<Absent(b)>>
      BY DEF Init
    <2>3. log \in [Bindings -> Seq(Versions)]
      BY <2>1 DEF Init
    <2>4. 1 \in 1 .. MaxLag + 2
      BY BindingAssumption
    <2>5. QED
      BY <2>1, <2>2, <2>3, <2>4 DEF LogOK
  <1>2. PassOK /\ EnvOK /\ ClustersOK /\ LostOK
    BY DEF Init, PassOK, EnvOK, ClustersOK, LostOK
  <1>3. CountersOK
    BY BindingAssumption DEF Init, CountersOK
  <1>4. QED
    BY <1>1, <1>2, <1>3, TypeParts

\* The controller, its cache and the clusters keep to their types; in particular
\* the propagation status never has two entries of a cluster, whatever the number
\* of bindings, clusters and namespaces and however outdated the reads.
THEOREM BindingTypeCorrect == Spec => []TypeOK
  <1>1. QED
    BY TypeInit, TypeStep, PTL DEF Spec

-----------------------------------------------------------------------------
(* The shared ClusterRole. *)

\* isRoleReferenced does not see RoleBindings, so bindings with namespaces must
\* not share the ClusterRole with others.
RoleNotShared == \A d \in Namespaced : Bindings = {d}

\* A binding without namespaces is a ClusterRoleBinding in every cluster.
ScopeKept == \A x \in remote : x.trb \notin Namespaced => x.ns = Everywhere

\* A step of a pass leaves no binding without the ClusterRole.
LEMMA EffectDangling ==
    ASSUME RoleNotShared, PassOK, pass.pc # "idle", ClustersOK, ScopeKept, NoDanglingBindings, Effect
    PROVE  ScopeKept' /\ NoDanglingBindings'
  <1>1. CASE Trims
    BY <1>1 DEF Trims, ScopeKept, NoDanglingBindings
  <1>2. ASSUME NEW c \in Clusters, DropsGone(c)
        PROVE  ScopeKept' /\ NoDanglingBindings'
    BY <1>2 DEF DropsGone, ScopeKept, NoDanglingBindings
  <1>3. ASSUME NEW c \in Clusters, Clears(c)
        PROVE  ScopeKept' /\ NoDanglingBindings'
    <2>1. /\ remote' = remote \ BindingsOn(pass.trb, c)
          /\ roles' = IF isRoleReferenced(pass.trb, c) THEN roles ELSE roles \ {c}
      BY <1>3 DEF Clears, cleanupCluster
    <2>2. ASSUME NEW x \in remote', x.cluster = c
          PROVE  isRoleReferenced(pass.trb, c)
      <3>1. x \in remote /\ x.trb # pass.trb
        BY <2>1, <2>2 DEF BindingsOn
      <3>2. x.trb \in Bindings /\ pass.trb \in Bindings
        BY <3>1, Running DEF ClustersOK, Remote
      <3>3. x.trb \notin Namespaced
        BY <3>1, <3>2 DEF RoleNotShared
      <3>4. QED
        BY <2>2, <3>1, <3>3 DEF ScopeKept, isRoleReferenced
    <2>3. ScopeKept'
      BY <2>1 DEF ScopeKept
    <2>4. NoDanglingBindings'
      BY <2>1, <2>2 DEF NoDanglingBindings
    <2>5. QED
      BY <2>3, <2>4
  <1>4. ASSUME NEW c \in Clusters, Adds(c)
        PROVE  ScopeKept' /\ NoDanglingBindings'
    <2> DEFINE there == IF health[c] = "gone" THEN {} ELSE {c}
               wanted == rbacBindings(pass.trb, pass.snap, there)
    <2>1. \A x \in wanted : x.trb = pass.trb /\ x.cluster \in there /\ x.ns \in Targets(pass.snap)
      BY DEF rbacBindings
    <2>2. pass.trb \notin Namespaced => Targets(pass.snap) = {Everywhere}
      BY Running DEF VersionsOf, Targets
    <2> HIDE DEF wanted
    <2>3. remote' \subseteq remote \cup wanted /\ roles \subseteq roles'
          /\ (remote' # remote => roles' = roles \cup there)
      BY <1>4 DEF Adds, wanted
    <2>4. QED
      BY <2>1, <2>2, <2>3 DEF ScopeKept, NoDanglingBindings
  <1>5. QED
    BY <1>1, <1>2, <1>3, <1>4 DEF Effect

\* No step leaves a binding without the ClusterRole it refers to.
LEMMA DanglingStep ==
    ASSUME RoleNotShared, TypeOK, ScopeKept, NoDanglingBindings, [Next]_vars
    PROVE  ScopeKept' /\ NoDanglingBindings'
  <1>t. PassOK /\ ClustersOK
    BY TypeParts
  <1>1. CASE UNCHANGED <<roles, remote>>
    BY <1>1 DEF ScopeKept, NoDanglingBindings
  <1>2. ASSUME NEW b \in Bindings, Create(b) \/ Edit(b) \/ Delete(b) \/ Deliver(b) \/ Reconcile(b)
        PROVE  UNCHANGED <<roles, remote>>
    BY <1>2 DEF Create, Edit, Delete, Deliver, Reconcile
  <1>3. ASSUME NEW c \in Clusters, ClusterUnready(c) \/ ClusterReady(c)
        PROVE  UNCHANGED <<roles, remote>>
    BY <1>3 DEF ClusterUnready, ClusterReady
  <1>4. ASSUME NEW c \in Clusters, ClusterGone(c)
        PROVE  ScopeKept' /\ NoDanglingBindings'
    BY <1>4 DEF ClusterGone, ScopeKept, NoDanglingBindings
  <1>5. ASSUME LabelsChange \/ enqueueTeamRoleBindingsFor \/ Resync \/ Restart \/ patchStatus \/ UNCHANGED vars
        PROVE  UNCHANGED <<roles, remote>>
    BY <1>5 DEF LabelsChange, enqueueTeamRoleBindingsFor, Resync, Restart, patchStatus, vars
  <1>6. CASE cleanupResources \/ doReconcile \/ EnsureDeleted
    <2>1. Effect
      BY <1>6, <1>t, CleanupEffect, ReconcileEffect, DeleteEffect
    <2>2. pass.pc # "idle"
      BY <1>6 DEF cleanupResources, doReconcile, EnsureDeleted
    <2>3. QED
      BY <2>1, <2>2, <1>t, EffectDangling
  <1>7. QED
    BY <1>1, <1>2, <1>3, <1>4, <1>5, <1>6 DEF Next, Step

\* No binding in any cluster refers to a ClusterRole that is not there, for every
\* number of bindings that share it, however outdated the versions that passes
\* read, and whatever fails or restarts half way: as long as no binding with
\* namespaces shares the role.
THEOREM RoleOutlivesBindings ==
    ASSUME RoleNotShared
    PROVE  Spec => []NoDanglingBindings
  <1>1. Init => ScopeKept /\ NoDanglingBindings
    BY DEF Init, ScopeKept, NoDanglingBindings
  <1>2. TypeOK /\ (ScopeKept /\ NoDanglingBindings) /\ [Next]_vars => (ScopeKept /\ NoDanglingBindings)'
    BY DanglingStep
  <1>3. QED
    BY <1>1, <1>2, BindingTypeCorrect, PTL DEF Spec

-----------------------------------------------------------------------------
(* The order of versions. *)

\* What may come after a version with the finalizer: the cache may be behind, but
\* what it holds is never older than a stage that the server has left for good.
Follows(a, z) ==
    /\ a = "live" => z \in {"live", "deleting"}
    /\ a = "deleting" => z \in {"deleting", "deleted"}

Ordered ==
    \A b \in Bindings : \A i, j \in 1 .. Len(log[b]) :
        i <= j => Follows(log[b][i].stage, log[b][j].stage)

\* All that the cache and the server hold follows the version a pass has read.
PassOrder ==
    pass.pc # "idle" => \A j \in 1 .. Len(log[pass.trb]) : Follows(pass.snap.stage, log[pass.trb][j].stage)

\* A binding that has no finalizer has no entries.
NoEntries ==
    \A b \in Bindings : Server(b).stage \in {"absent", "new"} => Server(b).status = <<>>

OrderInv == InPhase /\ Ordered /\ PassOrder /\ NoEntries

\* The newest version is one of the log.
LEMMA NewestInLog ==
    ASSUME LogOK, NEW b \in Bindings
    PROVE  Len(log[b]) \in 1 .. Len(log[b]) /\ log[b][Len(log[b])] = Server(b)
  BY Logs DEF Server, Last

\* While a pass is under way its binding keeps the finalizer.
LEMMA Finalized ==
    ASSUME TypeOK, OrderInv, pass.pc # "idle"
    PROVE  /\ pass.trb \in Bindings
           /\ pass.snap.stage = "live" => Server(pass.trb).stage \in {"live", "deleting"}
           /\ pass.snap.stage = "deleting" => Server(pass.trb).stage \in {"deleting", "deleted"}
           /\ pass.snap.stage \in {"live", "deleting"}
  <1>1. LogOK /\ PassOK /\ pass.trb \in Bindings
    BY TypeParts, Running
  <1>2. Follows(pass.snap.stage, Server(pass.trb).stage)
    BY <1>1, NewestInLog DEF OrderInv, PassOrder
  <1>3. QED
    BY <1>1, <1>2 DEF OrderInv, InPhase, Follows

\* A write keeps the order if the new version follows all others.
LEMMA WriteOrder ==
    ASSUME LogOK, Ordered, NEW b \in Bindings, NEW v \in VersionsOf(b), Write(b, v),
           \A i \in 1 .. Len(log[b]) : Follows(log[b][i].stage, v.stage),
           Follows(v.stage, v.stage)
    PROVE  /\ Ordered'
           /\ \A j \in 1 .. Len(log'[b]) : log'[b][j] = v \/ (j \in 1 .. Len(log[b]) /\ log'[b][j] = log[b][j])
           /\ \A d \in Bindings \ {b} : log'[d] = log[d]
  <1> DEFINE l == log[b]
             n == Len(log[b])
  <1>1. l \in Seq(VersionsOf(b)) /\ n \in Nat
    BY Logs DEF LogOK
  <1>2. /\ log'[b] = Append(l, v) /\ \A d \in Bindings \ {b} : log'[d] = log[d]
    BY DEF LogOK, Write
  <1>3. /\ Len(log'[b]) = n + 1 /\ log'[b][n + 1] = v
        /\ \A i \in 1 .. n : log'[b][i] = l[i]
    BY <1>1, <1>2
  <1> DEFINE m == log'[b]
  <1>4. \A j \in 1 .. n + 1 : j = n + 1 \/ j \in 1 .. n
    BY <1>1
  <1>5. \A i, j \in 1 .. n : i <= j => Follows(l[i].stage, l[j].stage)
    BY DEF Ordered
  <1> HIDE DEF m, n, l
  <1>6. \A i, j \in 1 .. n + 1 : i <= j => Follows(m[i].stage, m[j].stage)
    <2> SUFFICES ASSUME NEW i \in 1 .. n + 1, NEW j \in 1 .. n + 1, i <= j
                 PROVE  Follows(m[i].stage, m[j].stage)
      OBVIOUS
    <2>1. CASE j = n + 1 /\ i = n + 1
      BY <2>1, <1>3 DEF m
    <2>2. CASE j = n + 1 /\ i \in 1 .. n
      <3>1. m[i] = l[i] /\ m[j] = v
        BY <2>2, <1>3 DEF m
      <3>2. Follows(l[i].stage, v.stage)
        BY <2>2 DEF l, n
      <3>3. QED
        BY <3>1, <3>2
    <2>3. CASE j \in 1 .. n
      <3>1. i \in 1 .. n
        BY <2>3, <1>1
      <3>2. m[i] = l[i] /\ m[j] = l[j]
        BY <2>3, <3>1, <1>3 DEF m
      <3>3. QED
        BY <2>3, <3>1, <3>2, <1>5
    <2>4. QED
      BY <2>1, <2>2, <2>3, <1>4
  <1>7. Ordered'
    <2> SUFFICES ASSUME NEW d \in Bindings
                 PROVE  \A i, j \in 1 .. Len(log'[d]) : i <= j => Follows(log'[d][i].stage, log'[d][j].stage)
      BY DEF Ordered
    <2>1. CASE d = b
      BY <2>1, <1>3, <1>6 DEF m
    <2>2. CASE d # b
      BY <2>2, <1>2 DEF Ordered
    <2>3. QED
      BY <2>1, <2>2
  <1>8. \A j \in 1 .. Len(log'[b]) : log'[b][j] = v \/ (j \in 1 .. Len(log[b]) /\ log'[b][j] = log[b][j])
    BY <1>3, <1>4 DEF n, l
  <1>9. QED
    BY <1>2, <1>7, <1>8

\* Users change the stage of a binding only so, and never its entries.
UserMove(a, z) ==
    \/ z = a
    \/ a \in {"absent", "new"} /\ z \in {"absent", "new"}
    \/ a = "live" /\ z = "deleting"

LEMMA UserStep ==
    ASSUME LogOK, NoEntries, NEW b \in Bindings, Create(b) \/ Edit(b) \/ Delete(b)
    PROVE  /\ Write(b, Server(b)') /\ Server(b)' \in VersionsOf(b)
           /\ Server(b)'.status = Server(b).status
           /\ \A d \in Bindings \ {b} : Server(d)' = Server(d)
           /\ UserMove(Server(b).stage, Server(b)'.stage)
  <1>1. Server(b) \in VersionsOf(b) /\ Absent(b) \in VersionsOf(b)
    BY Logs, AbsentVersion
  <1> DEFINE Goal(v) ==
            /\ v \in VersionsOf(b) /\ Write(b, v)
            /\ v.status = Server(b).status
            /\ UserMove(Server(b).stage, v.stage)
  <1>2. \E v : Goal(v)
    <2>1. CASE Create(b)
      <3>1. PICK s \in Selectors : Write(b, [Absent(b) EXCEPT !.stage = "new", !.sel = s])
        BY <2>1 DEF Create
      <3>2. [Absent(b) EXCEPT !.stage = "new", !.sel = s] \in VersionsOf(b)
        BY <1>1, ChangedVersion DEF Stages
      <3>3. /\ [Absent(b) EXCEPT !.stage = "new", !.sel = s].stage = "new"
            /\ [Absent(b) EXCEPT !.stage = "new", !.sel = s].status = <<>>
        BY <1>1, AbsentVersion DEF VersionsOf, Versions
      <3>4. Server(b).stage = "absent" /\ Server(b).status = <<>>
        BY <2>1 DEF Create, NoEntries
      <3>5. Goal([Absent(b) EXCEPT !.stage = "new", !.sel = s])
        BY <3>1, <3>2, <3>3, <3>4 DEF UserMove
      <3>6. QED
        BY <3>5
    <2>2. CASE Edit(b)
      <3>1. ASSUME NEW s \in Selectors, Write(b, [Server(b) EXCEPT !.sel = s])
            PROVE  \E v : Goal(v)
        <4>1. [Server(b) EXCEPT !.sel = s] \in VersionsOf(b)
          BY <1>1, ChangedVersion
        <4>2. /\ [Server(b) EXCEPT !.sel = s].stage = Server(b).stage
              /\ [Server(b) EXCEPT !.sel = s].status = Server(b).status
          BY <1>1 DEF VersionsOf, Versions
        <4>3. Goal([Server(b) EXCEPT !.sel = s])
          BY <3>1, <4>1, <4>2 DEF UserMove
        <4>4. QED
          BY <4>3
      <3>2. ASSUME NEW n \in SUBSET Namespaces, n = {} <=> b \notin Namespaced,
                   Write(b, [Server(b) EXCEPT !.ns = n])
            PROVE  \E v : Goal(v)
        <4>1. [Server(b) EXCEPT !.ns = n] \in VersionsOf(b)
          BY <1>1, <3>2, ChangedVersion
        <4>2. /\ [Server(b) EXCEPT !.ns = n].stage = Server(b).stage
              /\ [Server(b) EXCEPT !.ns = n].status = Server(b).status
          BY <1>1 DEF VersionsOf, Versions
        <4>3. Goal([Server(b) EXCEPT !.ns = n])
          BY <3>2, <4>1, <4>2 DEF UserMove
        <4>4. QED
          BY <4>3
      <3>3. QED
        BY <2>2, <3>1, <3>2 DEF Edit
    <2>3. CASE Delete(b)
      <3>1. CASE Server(b).stage = "new" /\ Write(b, Absent(b))
        <4>1. Server(b).status = <<>>
          BY <3>1 DEF NoEntries
        <4>2. Goal(Absent(b))
          BY <3>1, <4>1, AbsentVersion DEF UserMove
        <4>3. QED
          BY <4>2
      <3>2. CASE Server(b).stage = "live" /\ Write(b, [Server(b) EXCEPT !.stage = "deleting"])
        <4>1. [Server(b) EXCEPT !.stage = "deleting"] \in VersionsOf(b)
          BY <1>1, ChangedVersion DEF Stages
        <4>2. /\ [Server(b) EXCEPT !.stage = "deleting"].stage = "deleting"
              /\ [Server(b) EXCEPT !.stage = "deleting"].status = Server(b).status
          BY <1>1 DEF VersionsOf, Versions
        <4>3. Goal([Server(b) EXCEPT !.stage = "deleting"])
          BY <3>2, <4>1, <4>2 DEF UserMove
        <4>4. QED
          BY <4>3
      <3>3. QED
        BY <2>3, <3>1, <3>2 DEF Delete
    <2>4. QED
      BY <2>1, <2>2, <2>3
  <1>3. QED
    <2>1. PICK v : Goal(v)
      BY <1>2
    <2>2. Server(b)' = v /\ \A d \in Bindings \ {b} : log'[d] = log[d]
      BY <2>1, WriteStep
    <2>3. QED
      BY <2>1, <2>2 DEF Server

\* The status patch leaves the stage or goes back and forth between the stages of
\* a binding that is being deleted.
PatchMove(a, z) == z = a \/ (a \in {"deleting", "deleted"} /\ z \in {"deleting", "deleted"})

\* The status patch writes version v of its binding: the list of the pass or, if
\* it has not changed, that of the server; and the Deleted condition only with an
\* empty list.
PatchWrites(b, v) ==
    /\ v \in VersionsOf(b) /\ Write(b, v)
    /\ PatchMove(Server(b).stage, v.stage)
    /\ v.stage # Server(b).stage => pass.snap.stage = "deleting"

\* What the patch leaves in the server, written or as it was.
Patched(b, v) ==
    /\ v.status \in Merged(pass.status, pass.snap.status, Server(b).status, pass.touched # {})
    /\ v.stage \in {Server(b).stage, "deleting", "deleted"}
    /\ v.stage = "deleted" => Server(b).stage = "deleted" \/ pass.status = <<>>
    /\ lost' = (lost \cup Overwritten(b)) \ ({b} \X OnRecord(v))
    /\ crashes' = crashes

\* How a pass ends: its patch has been applied, or it has failed.
LEMMA PatchCases ==
    ASSUME TypeOK, OrderInv, patchStatus, NEW b \in Bindings, b = pass.trb
    PROVE  \/ /\ UNCHANGED log \/ PatchWrites(b, Server(b)')
              /\ Patched(b, Server(b)')
              /\ \A d \in Bindings \ {b} : Server(d)' = Server(d)
           \/ /\ UNCHANGED log
              /\ crashes' = crashes + 1
              /\ lost' = lost \cup CutShort
  <1> DEFINE s == Server(b)
  <1>t. LogOK /\ PassOK /\ pass.pc # "idle"
    BY TypeParts DEF patchStatus
  <1>1. s \in VersionsOf(b)
    BY <1>t, Logs
  <1>2. s.status \in Seq(Clusters) /\ IsInjective(s.status) /\ s.stage \in Stages
    BY <1>1 DEF VersionsOf, Versions
  <1>3. pass.status \in Seq(Clusters) /\ IsInjective(pass.status)
    BY <1>t, Running
  <1>4. /\ pass.snap.stage = "live" => s.stage \in {"live", "deleting"}
        /\ pass.snap.stage = "deleting" => s.stage \in {"deleting", "deleted"}
        /\ pass.snap.stage \in {"live", "deleting"}
        /\ pass.snap.stage = "deleting" /\ pass.result = "Success" => pass.status = <<>>
    <2>1. pass.pc = "patchStatus"
      BY DEF patchStatus
    <2>2. QED
      BY <1>t, <2>1, Finalized DEF OrderInv, InPhase
  <1>5. ASSUME NEW status, NEW stage,
               status \in Merged(pass.status, pass.snap.status, s.status, pass.touched # {}),
               stage \in IF pass.snap.stage = "live" THEN {s.stage}
                         ELSE Merged(IF pass.result = "Success" THEN "deleted" ELSE "deleting",
                                     pass.snap.stage, s.stage, TRUE),
               LET new == [s EXCEPT !.status = status, !.stage = stage]
               IN  /\ Write(b, new) \/ (new = s /\ UNCHANGED log)
                   /\ lost' = (lost \cup Overwritten(b)) \ ({b} \X OnRecord(new)),
               crashes' = crashes
        PROVE  /\ UNCHANGED log \/ PatchWrites(b, Server(b)')
               /\ Patched(b, Server(b)')
               /\ \A d \in Bindings \ {b} : Server(d)' = Server(d)
    <2> DEFINE new == [s EXCEPT !.status = status, !.stage = stage]
    <2>1. status \in {pass.status, s.status}
      BY <1>5 DEF Merged
    <2>2. /\ PatchMove(s.stage, stage)
          /\ stage # s.stage => pass.snap.stage = "deleting"
          /\ stage \in {s.stage, "deleting", "deleted"}
          /\ stage = "deleted" => s.stage = "deleted" \/ pass.status = <<>>
      BY <1>4, <1>5 DEF Merged, PatchMove
    <2>3. stage \in Stages
      BY <2>2, <1>2 DEF Stages
    <2>4. new \in VersionsOf(b)
      BY <1>1, <1>2, <1>3, <2>1, <2>3, ChangedVersion
    <2>5. new.stage = stage /\ new.status = status
      BY <1>1 DEF VersionsOf, Versions
    <2>6. /\ Write(b, new) \/ (new = s /\ UNCHANGED log)
          /\ lost' = (lost \cup Overwritten(b)) \ ({b} \X OnRecord(new))
      BY <1>5
    <2> HIDE DEF new
    <2>7. Server(b)' = new /\ \A d \in Bindings \ {b} : Server(d)' = Server(d)
      <3>1. CASE Write(b, new)
        BY <3>1, <1>t, <2>4, WriteStep DEF Server
      <3>2. CASE new = s /\ UNCHANGED log
        BY <3>2 DEF Server
      <3>3. QED
        BY <2>6, <3>1, <3>2
    <2>8. Patched(b, Server(b)')
      BY <1>5, <2>2, <2>5, <2>6, <2>7 DEF Patched
    <2>9. UNCHANGED log \/ PatchWrites(b, Server(b)')
      BY <2>2, <2>4, <2>5, <2>6, <2>7 DEF PatchWrites
    <2>10. QED
      BY <2>7, <2>8, <2>9
  <1>6. s.stage # "absent"
    BY <1>4
  <1>7. QED
    BY <1>5, <1>6 DEF patchStatus

\* The worker, users and deliveries keep the order of the versions.
LEMMA OrderStep ==
    ASSUME TypeOK, OrderInv, [Next]_vars
    PROVE  OrderInv'
  <1>t. LogOK /\ PassOK
    BY TypeParts
  <1>p. pass.pc # "idle" => pass.trb \in Bindings
    BY <1>t, Running
  <1>i. InPhase /\ Ordered /\ PassOrder /\ NoEntries
    BY DEF OrderInv
  <1>1. CASE UNCHANGED <<log, pass>>
    <2>1. \A b \in Bindings : Server(b)' = Server(b)
      BY <1>1 DEF Server
    <2>2. QED
      BY <1>1, <2>1, <1>i DEF OrderInv, InPhase, Ordered, PassOrder, NoEntries
  <1>2. ASSUME NEW b \in Bindings, Create(b) \/ Edit(b) \/ Delete(b) PROVE OrderInv'
    <2>1. /\ Write(b, Server(b)') /\ Server(b)' \in VersionsOf(b)
          /\ Server(b)'.status = Server(b).status
          /\ \A d \in Bindings \ {b} : Server(d)' = Server(d)
          /\ UserMove(Server(b).stage, Server(b)'.stage)
      BY <1>2, <1>t, <1>i, UserStep
    <2>2. pass' = pass
      BY <1>2 DEF Create, Edit, Delete
    <2>3. \A st : Follows(st, Server(b).stage) => Follows(st, Server(b)'.stage)
      BY <2>1 DEF UserMove, Follows
    <2>4. \A i \in 1 .. Len(log[b]) : Follows(log[b][i].stage, Server(b)'.stage)
      <3> TAKE i \in 1 .. Len(log[b])
      <3>1. i <= Len(log[b])
        BY <1>t, Logs
      <3>2. Follows(log[b][i].stage, Server(b).stage)
        BY <3>1, <1>t, <1>i, NewestInLog DEF Ordered
      <3>3. QED
        BY <3>2, <2>3
    <2>5. Follows(Server(b)'.stage, Server(b)'.stage)
      BY DEF Follows
    <2>6. /\ Ordered'
          /\ \A j \in 1 .. Len(log'[b]) :
                log'[b][j] = Server(b)' \/ (j \in 1 .. Len(log[b]) /\ log'[b][j] = log[b][j])
          /\ \A d \in Bindings \ {b} : log'[d] = log[d]
      BY <1>t, <1>i, <2>1, <2>4, <2>5, WriteOrder
    <2>7. PassOrder'
      <3> SUFFICES ASSUME pass.pc # "idle", NEW j \in 1 .. Len(log'[pass.trb])
                   PROVE  Follows(pass.snap.stage, log'[pass.trb][j].stage)
        BY <2>2 DEF PassOrder
      <3>1. CASE pass.trb # b
        BY <3>1, <2>6, <1>p, <1>i DEF PassOrder
      <3>2. CASE pass.trb = b
        <4>1. Follows(pass.snap.stage, Server(b).stage)
          BY <3>2, <1>t, <1>i, NewestInLog DEF PassOrder
        <4>2. QED
          BY <3>2, <4>1, <2>3, <2>6, <1>i DEF PassOrder
      <3>3. QED
        BY <3>1, <3>2
    <2>8. InPhase' /\ NoEntries'
      BY <2>1, <2>2, <1>i DEF InPhase, NoEntries, UserMove
    <2>9. QED
      BY <2>6, <2>7, <2>8 DEF OrderInv
  <1>3. ASSUME NEW b \in Bindings, Deliver(b) PROVE OrderInv'
    <2>1. /\ pass' = pass /\ \A d \in Bindings : Server(d)' = Server(d)
          /\ log'[b] = Tail(log[b]) /\ \A d \in Bindings \ {b} : log'[d] = log[d]
      BY <1>3, <1>t, DeliverStep DEF Deliver, LogOK
    <2>2. /\ Len(log'[b]) = Len(log[b]) - 1 /\ Len(log[b]) \in Nat
          /\ \A i \in 1 .. Len(log[b]) - 1 : log'[b][i] = log[b][i + 1]
      <3>1. log[b] \in Seq(VersionsOf(b)) /\ Len(log[b]) > 1
        BY <1>3, <1>t DEF Deliver, LogOK
      <3>2. QED
        BY <3>1, <2>1
    <2>3. \A i \in 1 .. Len(log[b]) - 1 : i + 1 \in 1 .. Len(log[b])
      BY <2>2
    <2>4. Ordered'
      <3> SUFFICES ASSUME NEW d \in Bindings, NEW i \in 1 .. Len(log'[d]), NEW j \in 1 .. Len(log'[d]), i <= j
                   PROVE  Follows(log'[d][i].stage, log'[d][j].stage)
        BY DEF Ordered
      <3>1. CASE d # b
        BY <3>1, <2>1, <1>i DEF Ordered
      <3>2. CASE d = b
        <4>1. i + 1 \in 1 .. Len(log[b]) /\ j + 1 \in 1 .. Len(log[b]) /\ i + 1 <= j + 1
          BY <3>2, <2>2, <2>3
        <4>2. log'[b][i] = log[b][i + 1] /\ log'[b][j] = log[b][j + 1]
          BY <3>2, <2>2
        <4>3. QED
          BY <3>2, <4>1, <4>2, <1>i DEF Ordered
      <3>3. QED
        BY <3>1, <3>2
    <2>5. PassOrder'
      <3> SUFFICES ASSUME pass.pc # "idle", NEW j \in 1 .. Len(log'[pass.trb])
                   PROVE  Follows(pass.snap.stage, log'[pass.trb][j].stage)
        BY <2>1 DEF PassOrder
      <3>1. CASE pass.trb # b
        BY <3>1, <2>1, <1>p, <1>i DEF PassOrder
      <3>2. CASE pass.trb = b
        <4>1. j + 1 \in 1 .. Len(log[b]) /\ log'[b][j] = log[b][j + 1]
          BY <3>2, <2>2, <2>3
        <4>2. QED
          BY <3>2, <4>1, <1>i DEF PassOrder
      <3>3. QED
        BY <3>1, <3>2
    <2>6. QED
      BY <2>1, <2>4, <2>5, <1>i DEF OrderInv, InPhase, NoEntries
  <1>4. ASSUME NEW b \in Bindings, Reconcile(b) PROVE OrderInv'
    <2>0. pass = Idle /\ pass.pc = "idle"
      BY <1>4, TakeStep DEF Idle
    <2>1. CASE Adopts(b)
      <3>1. Server(b) \in VersionsOf(b) /\ Len(log[b]) = 1 /\ log[b][1] = Server(b) /\ pass'.pc = "idle"
        BY <2>0, <2>1, <1>t, Logs DEF Adopts
      <3>2. PICK v \in VersionsOf(b) :
                /\ Write(b, v)
                /\ \/ Server(b).stage = "new" /\ v.stage = "live"
                   \/ Server(b).stage = "deleted" /\ v.stage = "absent" /\ v.status = <<>>
        <4>1. [Server(b) EXCEPT !.stage = "live"] \in VersionsOf(b)
          BY <3>1, ChangedVersion DEF Stages
        <4>2. [Server(b) EXCEPT !.stage = "live"].stage = "live"
          BY <3>1 DEF VersionsOf, Versions
        <4>3. QED
          BY <2>1, <4>1, <4>2, AbsentVersion DEF Adopts
      <3>3. \A i \in 1 .. Len(log[b]) : Follows(log[b][i].stage, v.stage)
        <4> TAKE i \in 1 .. Len(log[b])
        <4>1. i = 1
          BY <3>1
        <4>2. QED
          BY <4>1, <3>1, <3>2 DEF Follows
      <3>4. Follows(v.stage, v.stage)
        BY DEF Follows
      <3>5. Ordered'
        BY <1>t, <1>i, <3>2, <3>3, <3>4, WriteOrder
      <3>6. Server(b)' = v /\ \A d \in Bindings \ {b} : Server(d)' = Server(d)
        BY <1>t, <3>2, WriteStep DEF Server
      <3>7. NoEntries'
        BY <3>2, <3>6, <1>i DEF NoEntries
      <3>8. QED
        BY <3>1, <3>5, <3>7 DEF OrderInv, InPhase, PassOrder
    <2>2. CASE Begins(b)
      <3>1. log' = log /\ pass'.trb = b /\ pass'.snap = log[b][1] /\ 1 \in 1 .. Len(log[b])
            /\ \/ pass'.pc \in {"cleanupResources", "patchStatus"} /\ pass'.snap.stage = "live"
               \/ pass'.pc = "EnsureDeleted" /\ pass'.snap.stage = "deleting"
        BY <2>2, <1>t, Logs DEF Begins
      <3>2. InPhase'
        BY <3>1 DEF InPhase
      <3>3. PassOrder'
        <4> SUFFICES ASSUME NEW j \in 1 .. Len(log[b])
                     PROVE  Follows(log[b][1].stage, log[b][j].stage)
          BY <3>1 DEF PassOrder
        <4>1. 1 <= j
          BY <1>t, Logs
        <4>2. QED
          BY <3>1, <4>1, <1>i DEF Ordered
      <3>4. Ordered' /\ NoEntries'
        BY <3>1, <1>i DEF Ordered, NoEntries, Server
      <3>5. QED
        BY <3>2, <3>3, <3>4 DEF OrderInv
    <2>3. QED
      BY <1>1, <1>4, <2>1, <2>2, TakeStep
  <1>5. ASSUME NEW c \in Clusters, ClusterUnready(c) \/ ClusterReady(c) \/ ClusterGone(c) PROVE OrderInv'
    BY <1>1, <1>5 DEF ClusterUnready, ClusterReady, ClusterGone
  <1>6. CASE LabelsChange \/ enqueueTeamRoleBindingsFor \/ Resync \/ UNCHANGED vars
    BY <1>1, <1>6 DEF LabelsChange, enqueueTeamRoleBindingsFor, Resync, vars
  <1>7. CASE Restart
    <2>1. pass'.pc = "idle" /\ \A d \in Bindings : Server(d)' = Server(d)
      BY <1>7, <1>t, RestartStep DEF Restart, Idle
    <2>2. \A d \in Bindings : Len(log'[d]) = 1
      BY <1>7 DEF Restart
    <2>3. Ordered'
      <3> SUFFICES ASSUME NEW d \in Bindings, NEW i \in 1 .. Len(log'[d]), NEW j \in 1 .. Len(log'[d])
                   PROVE  Follows(log'[d][i].stage, log'[d][j].stage)
        BY DEF Ordered
      <3>0. Len(log'[d]) = 1 /\ \A k \in 1 .. 1 : k = 1
        BY <2>2
      <3>1. i = 1 /\ j = 1
        BY <3>0
      <3>2. QED
        BY <3>1 DEF Follows
    <2>4. QED
      BY <2>1, <2>3, <1>i DEF OrderInv, InPhase, PassOrder, NoEntries
  <1>8. CASE cleanupResources \/ doReconcile \/ EnsureDeleted
    <2>1. Effect /\ InPhase'
      BY <1>8, <1>t, <1>i, CleanupEffect, ReconcileEffect, DeleteEffect
    <2>2. log' = log /\ pass.pc # "idle" /\ pass'.trb = pass.trb /\ pass'.snap = pass.snap
      BY <1>8, <2>1 DEF cleanupResources, doReconcile, EnsureDeleted, Effect, SamePass
    <2>3. QED
      BY <2>1, <2>2, <1>i DEF OrderInv, Ordered, PassOrder, NoEntries, Server
  <1>9. CASE patchStatus
    <2>1. pass.pc # "idle" /\ pass'.pc = "idle"
      BY <1>9 DEF patchStatus, Idle
    <2>2. PICK b \in Bindings : b = pass.trb
      BY <2>1, <1>p
    <2>3. CASE UNCHANGED log
      BY <2>1, <2>3, <1>i DEF OrderInv, InPhase, Ordered, PassOrder, NoEntries, Server
    <2>4. CASE PatchWrites(b, Server(b)')
      <3> DEFINE v == Server(b)'
      <3>1. v \in VersionsOf(b) /\ Write(b, v) /\ PatchMove(Server(b).stage, v.stage)
        BY <2>4 DEF PatchWrites
      <3>2. \A i \in 1 .. Len(log[b]) : Follows(log[b][i].stage, v.stage)
        <4> TAKE i \in 1 .. Len(log[b])
        <4>1. i <= Len(log[b])
          BY <1>t, Logs
        <4>2. Follows(log[b][i].stage, Server(b).stage)
          BY <4>1, <1>t, <1>i, NewestInLog DEF Ordered
        <4>3. Follows(pass.snap.stage, log[b][i].stage)
          BY <2>1, <2>2, <1>i DEF PassOrder
        <4>4. v.stage # Server(b).stage => pass.snap.stage = "deleting"
          BY <2>2, <2>4 DEF PatchWrites
        <4>5. QED
          BY <3>1, <4>2, <4>3, <4>4 DEF PatchMove, Follows
      <3>3. Follows(v.stage, v.stage)
        BY DEF Follows
      <3>4. Ordered' /\ \A d \in Bindings \ {b} : log'[d] = log[d]
        BY <1>t, <1>i, <3>1, <3>2, <3>3, WriteOrder
      <3>5. Server(b).stage \in {"live", "deleting", "deleted"}
        BY <2>1, <2>2, Finalized
      <3>6. NoEntries'
        BY <3>1, <3>4, <3>5, <1>i DEF NoEntries, PatchMove, Server
      <3>7. QED
        BY <2>1, <3>4, <3>6 DEF OrderInv, InPhase, PassOrder
    <2>5. QED
      BY <1>9, <2>2, <2>3, <2>4, PatchCases
  <1>10. QED
    BY <1>2, <1>3, <1>4, <1>5, <1>6, <1>7, <1>8, <1>9 DEF Next, Step

\* At the start there is one version of each binding, and no pass.
LEMMA OrderInit == Init => OrderInv
  <1> SUFFICES ASSUME Init PROVE OrderInv
    OBVIOUS
  <1>1. pass.pc = "idle" /\ \A b \in Bindings : log[b] = <<Absent(b)>>
    BY DEF Init, Idle
  <1>2. Ordered
    <2> SUFFICES ASSUME NEW d \in Bindings, NEW i \in 1 .. Len(log[d]), NEW j \in 1 .. Len(log[d])
                 PROVE  Follows(log[d][i].stage, log[d][j].stage)
      BY DEF Ordered
    <2>a. log[d] = <<Absent(d)>> /\ Len(<<Absent(d)>>) = 1
      BY <1>1
    <2>0. Len(log[d]) = 1 /\ \A k \in 1 .. 1 : k = 1
      BY <2>a
    <2>1. i = 1 /\ j = 1
      BY <2>0
    <2>2. QED
      BY <2>1 DEF Follows
  <1>3. NoEntries
    BY <1>1, AbsentVersion DEF NoEntries, Server, Last
  <1>4. QED
    BY <1>1, <1>2, <1>3 DEF OrderInv, InPhase, PassOrder

-----------------------------------------------------------------------------
(* What is in the clusters is recorded, or the record has been lost. *)

\* A cluster is on record for a binding in the list of the pass while one is under
\* way, or in a newer list than the one the pass has read; without a pass in the
\* list of the server.  The list of a binding whose cleanup is complete does not
\* count.
Listed(b, c) ==
    /\ Server(b).stage # "deleted"
    /\ IF pass.pc # "idle" /\ pass.trb = b
       THEN c \in Range(pass.status) \/ c \in Recorded(Server(b)) \ Recorded(pass.snap)
       ELSE c \in Recorded(Server(b))

Known(b, c) == <<b, c>> \in lost \/ Listed(b, c)

\* A removed cluster is nobody's business.
NothingInGone ==
    /\ \A x \in remote : health[x.cluster] # "gone"
    /\ \A c \in roles : health[c] # "gone"

\* With a cache that is up to date, a pass has read the entries that the server has.
ReadIsCurrent ==
    MaxLag = 0 /\ pass.pc # "idle" => Server(pass.trb).status = pass.snap.status

\* Only a pass that is cut off or has read an outdated list loses a record.
NothingLost == MaxLag = 0 /\ crashes = 0 => lost = {}

\* What is in a cluster is known.
Covered ==
    /\ \A x \in remote : Known(x.trb, x.cluster)
    /\ \A c \in roles : \E b \in Bindings : Known(b, c)

RecordInv == NothingInGone /\ ReadIsCurrent /\ NothingLost /\ Covered

\* What is known stays known as long as the clusters get nothing new.
LEMMA KnownKept ==
    ASSUME TypeOK, Covered, remote' \subseteq remote, roles' \subseteq roles,
           \A b \in Bindings, c \in Clusters : Known(b, c) => Known(b, c)'
    PROVE  Covered'
  <1>1. (\A x \in remote : x.trb \in Bindings /\ x.cluster \in Clusters) /\ roles \subseteq Clusters
    BY TypeParts DEF ClustersOK, Remote
  <1>2. QED
    BY <1>1 DEF Covered

\* A step in which the pass and the clusters stay as they are keeps the record,
\* if no binding loses entries.
LEMMA QuietStep ==
    ASSUME TypeOK, RecordInv, UNCHANGED <<health, roles, remote, pass, lost, crashes>>,
           \A b \in Bindings :
              /\ Server(b)'.status = Server(b).status
              /\ UserMove(Server(b).stage, Server(b)'.stage)
    PROVE  RecordInv'
  <1>1. NothingInGone' /\ NothingLost'
    BY DEF RecordInv, NothingInGone, NothingLost
  <1>2. pass.pc # "idle" => pass.trb \in Bindings
    BY TypeParts, Running
  <1>3. ReadIsCurrent'
    BY <1>2 DEF RecordInv, ReadIsCurrent
  <1>4. \A b \in Bindings, c \in Clusters : Known(b, c) => Known(b, c)'
    BY DEF Known, Listed, Recorded, UserMove
  <1>5. Covered'
    BY <1>4, KnownKept DEF RecordInv
  <1>6. QED
    BY <1>1, <1>3, <1>5 DEF RecordInv

\* A step of a pass keeps what is in the clusters on record.
LEMMA EffectRecord ==
    ASSUME TypeOK, OrderInv, RecordInv, pass.pc # "idle", Effect,
           UNCHANGED <<log, health, lost, crashes>>
    PROVE  RecordInv'
  <1>1. PICK b \in Bindings : b = pass.trb
    BY TypeParts, Running
  <1>2. pass'.pc # "idle" /\ pass'.trb = b /\ pass'.snap = pass.snap
    BY <1>1 DEF Effect, SamePass, Passes
  <1>3. \A d \in Bindings : Server(d)' = Server(d)
    BY DEF Server
  <1>4. ReadIsCurrent' /\ NothingLost'
    BY <1>1, <1>2, <1>3 DEF RecordInv, ReadIsCurrent, NothingLost
  <1>5. /\ \A d \in Bindings \ {b} : \A c : Known(d, c) <=> Known(d, c)'
        /\ \A c : Known(b, c) => Known(b, c)' \/ c \in Range(pass.status) \ Range(pass'.status)
    BY <1>1, <1>2, <1>3 DEF Known, Listed, Recorded
  <1>6. (\A x \in remote : x.trb \in Bindings /\ x.cluster \in Clusters) /\ roles \subseteq Clusters
    BY TypeParts DEF ClustersOK, Remote
  <1>7. NothingInGone /\ Covered
    BY DEF RecordInv
  <1>8. CASE Trims
    <2>1. \A d \in Bindings, c \in Clusters : Known(d, c) => Known(d, c)'
      BY <1>5, <1>8 DEF Trims
    <2>2. NothingInGone' /\ Covered'
      BY <1>7, <1>8, <2>1, KnownKept DEF Trims, NothingInGone
    <2>3. QED
      BY <2>2, <1>4 DEF RecordInv
  <1>9. ASSUME NEW c \in Clusters, DropsGone(c) PROVE RecordInv'
    <2>1. (\A x \in remote : x.cluster # c) /\ c \notin roles /\ remote' = remote /\ roles' = roles
      BY <1>7, <1>9 DEF DropsGone, NothingInGone
    <2>2. \A d \in Bindings : \A e : e # c /\ Known(d, e) => Known(d, e)'
      BY <1>5, <1>9 DEF DropsGone
    <2>3. NothingInGone' /\ Covered'
      BY <1>6, <1>7, <2>1, <2>2 DEF NothingInGone, Covered
    <2>4. QED
      BY <2>3, <1>4 DEF RecordInv
  <1>10. ASSUME NEW c \in Clusters, Clears(c) PROVE RecordInv'
    <2>1. /\ remote' = remote \ BindingsOn(b, c)
          /\ roles' = IF isRoleReferenced(b, c) THEN roles ELSE roles \ {c}
      BY <1>1, <1>10 DEF Clears, cleanupCluster
    <2>2. \A d \in Bindings : \A e : Known(d, e) => Known(d, e)' \/ (d = b /\ e = c)
      BY <1>5, <1>10 DEF Clears
    <2>3. NothingInGone'
      BY <1>7, <2>1 DEF NothingInGone
    <2>4. ASSUME NEW x \in remote' PROVE Known(x.trb, x.cluster)'
      <3>1. x \in remote /\ ~(x.trb = b /\ x.cluster = c) /\ Known(x.trb, x.cluster)
        BY <1>7, <2>1, <2>4 DEF BindingsOn, Covered
      <3>2. QED
        BY <3>1, <2>2, <1>6
    <2>5. ASSUME NEW d \in roles' PROVE \E e \in Bindings : Known(e, d)'
      <3>1. CASE d # c
        <4>1. PICK e \in Bindings : Known(e, d)
          BY <1>7, <2>1, <2>5 DEF Covered
        <4>2. QED
          BY <4>1, <3>1, <2>2
      <3>2. CASE d = c
        <4>1. PICK x \in remote : x.cluster = c /\ x.trb # b
          BY <3>2, <2>1, <2>5 DEF isRoleReferenced
        <4>2. Known(x.trb, c)
          BY <4>1, <1>7 DEF Covered
        <4>3. QED
          BY <3>2, <4>1, <4>2, <1>6, <2>2
      <3>3. QED
        BY <3>1, <3>2
    <2>6. Covered'
      BY <2>4, <2>5 DEF Covered
    <2>7. QED
      BY <2>3, <2>6, <1>4 DEF RecordInv
  <1>11. ASSUME NEW c \in Clusters, Adds(c) PROVE RecordInv'
    <2> DEFINE there == IF health[c] = "gone" THEN {} ELSE {c}
               wanted == rbacBindings(b, pass.snap, there)
    <2>1. \A x \in wanted : x.trb = b /\ x.cluster \in there
      BY DEF rbacBindings
    <2> HIDE DEF wanted
    <2>2. remote' \subseteq remote \cup wanted /\ roles' \subseteq roles \cup there
      BY <1>1, <1>11 DEF Adds, wanted
    <2>3. \A d \in Bindings : \A e : Known(d, e) => Known(d, e)'
      BY <1>5, <1>11 DEF Adds
    <2>4. Known(b, c)'
      <3>1. pass.snap.stage = "live"
        BY <1>11 DEF Adds, OrderInv, InPhase
      <3>2. Server(b).stage # "deleted"
        BY <3>1, <1>1, Finalized
      <3>3. c \in Range(pass'.status)
        BY <1>11 DEF Adds
      <3>4. QED
        BY <3>2, <3>3, <1>2, <1>3 DEF Known, Listed
    <2>5. NothingInGone'
      BY <1>7, <2>1, <2>2 DEF NothingInGone
    <2>6. ASSUME NEW x \in remote' PROVE Known(x.trb, x.cluster)'
      <3>1. CASE x \in remote
        BY <3>1, <1>6, <1>7, <2>3 DEF Covered
      <3>2. CASE x \in wanted
        BY <3>2, <2>1, <2>4
      <3>3. QED
        BY <3>1, <3>2, <2>2
    <2>7. ASSUME NEW d \in roles' PROVE \E e \in Bindings : Known(e, d)'
      <3>1. CASE d \in roles
        <4>1. PICK e \in Bindings : Known(e, d)
          BY <1>7, <3>1 DEF Covered
        <4>2. QED
          BY <4>1, <2>3
      <3>2. CASE d = c
        BY <3>2, <2>4
      <3>3. QED
        BY <3>1, <3>2, <2>2
    <2>8. Covered'
      BY <2>6, <2>7 DEF Covered
    <2>9. QED
      BY <2>5, <2>8, <1>4 DEF RecordInv
  <1>12. QED
    BY <1>8, <1>9, <1>10, <1>11 DEF Effect

\* A pass begins with the entries of the version it has read, however old.
LEMMA TakeRecord ==
    ASSUME TypeOK, OrderInv, RecordInv, NEW b \in Bindings, Reconcile(b)
    PROVE  RecordInv'
  <1>1. LogOK
    BY TypeParts
  <1>2. UNCHANGED <<health, roles, remote, lost, crashes>>
    BY DEF Reconcile, env
  <1>3. pass = Idle /\ pass.pc = "idle"
    BY TakeStep DEF Idle
  <1>4. NothingInGone' /\ NothingLost'
    BY <1>2 DEF RecordInv, NothingInGone, NothingLost
  <1>5. CASE log' = log /\ pass' = pass
    <2>1. \A d \in Bindings : Server(d)' = Server(d)
      BY <1>5 DEF Server
    <2>2. QED
      BY <1>2, <1>5, <2>1, QuietStep DEF UserMove
  <1>6. CASE Adopts(b)
    <2>1. pass'.pc = "idle"
      BY <1>3, <1>6 DEF Adopts
    <2>2. Server(b) \in VersionsOf(b)
      BY <1>1, Logs
    <2>3. /\ \A d \in Bindings \ {b} : Server(d)' = Server(d)
          /\ \/ Server(b)'.stage = "live" /\ Server(b)'.status = Server(b).status
             \/ Server(b).stage = "deleted"
      <3>1. CASE Write(b, [Server(b) EXCEPT !.stage = "live"])
        <4>1. [Server(b) EXCEPT !.stage = "live"] \in VersionsOf(b)
          BY <2>2, ChangedVersion DEF Stages
        <4>2. /\ [Server(b) EXCEPT !.stage = "live"].stage = "live"
              /\ [Server(b) EXCEPT !.stage = "live"].status = Server(b).status
          BY <2>2 DEF VersionsOf, Versions
        <4>3. Server(b)' = [Server(b) EXCEPT !.stage = "live"] /\ \A d \in Bindings \ {b} : log'[d] = log[d]
          BY <1>1, <3>1, <4>1, WriteStep
        <4>4. QED
          BY <4>2, <4>3 DEF Server
      <3>2. CASE Server(b).stage = "deleted" /\ Write(b, Absent(b))
        BY <1>1, <3>2, AbsentVersion, WriteStep DEF Server
      <3>3. QED
        BY <1>6, <3>1, <3>2 DEF Adopts
    <2>4. \A d \in Bindings, c \in Clusters : Known(d, c) => Known(d, c)'
      BY <1>2, <1>3, <2>1, <2>3 DEF Known, Listed, Recorded
    <2>5. Covered'
      BY <1>2, <2>4, KnownKept DEF RecordInv
    <2>6. QED
      BY <1>4, <2>1, <2>5 DEF RecordInv, ReadIsCurrent
  <1>7. CASE Begins(b)
    <2>1. /\ \A d \in Bindings : Server(d)' = Server(d)
          /\ pass'.pc # "idle" /\ pass'.trb = b /\ pass'.snap = log[b][1]
          /\ Recorded(pass'.snap) \subseteq Range(pass'.status)
      BY <1>7 DEF Begins, Server, Recorded
    <2>2. ReadIsCurrent'
      <3> SUFFICES ASSUME MaxLag = 0 PROVE Server(b)'.status = pass'.snap.status
        BY <2>1 DEF ReadIsCurrent
      <3>1. Len(log[b]) \in Nat /\ Len(log[b]) >= 1 /\ Len(log[b]) <= 0 + 1
        BY <1>1, <1>7, Logs DEF Begins
      <3>2. \A n \in Nat : n >= 1 /\ n <= 0 + 1 => n = 1
        OBVIOUS
      <3>3. Server(b) = log[b][1]
        BY <1>1, <3>1, <3>2, Logs
      <3>4. QED
        BY <2>1, <3>3
    <2>3. \A d \in Bindings, c \in Clusters : Known(d, c) => Known(d, c)'
      BY <1>2, <1>3, <2>1 DEF Known, Listed
    <2>4. Covered'
      BY <1>2, <2>3, KnownKept DEF RecordInv
    <2>5. QED
      BY <1>4, <2>2, <2>4 DEF RecordInv
  <1>8. QED
    BY <1>5, <1>6, <1>7, TakeStep

\* A pass is over without its list being written: by a restart or a failing patch.
LEMMA CutShortRecord ==
    ASSUME TypeOK, OrderInv, RecordInv, pass'.pc = "idle", UNCHANGED <<health, roles, remote>>,
           crashes' = crashes + 1, lost' = lost \cup CutShort,
           \A d \in Bindings : Server(d)' = Server(d)
    PROVE  RecordInv'
  <1>1. NothingInGone' /\ ReadIsCurrent'
    BY DEF RecordInv, NothingInGone, ReadIsCurrent
  <1>2. NothingLost'
    <2>1. crashes' # 0
      BY TypeParts, BindingAssumption DEF CountersOK
    <2>2. QED
      BY <2>1 DEF NothingLost
  <1>3. \A d \in Bindings, c \in Clusters : Known(d, c) => Known(d, c)'
    <2>1. CASE pass = Idle
      <3>1. pass.pc = "idle"
        BY <2>1 DEF Idle
      <3>2. QED
        BY <3>1 DEF Known, Listed, Recorded
    <2>2. CASE pass # Idle
      <3>1. CutShort = {pass.trb} \X (Range(pass.status) \ Recorded(Server(pass.trb)))
        BY <2>2 DEF CutShort
      <3>2. QED
        BY <3>1 DEF Known, Listed, Recorded
    <2>3. QED
      BY <2>1, <2>2
  <1>4. QED
    BY <1>1, <1>2, <1>3, KnownKept DEF RecordInv

\* A pass ends with its entries written, or they are lost.
LEMMA PatchRecord ==
    ASSUME TypeOK, OrderInv, RecordInv, patchStatus
    PROVE  RecordInv'
  <1>1. /\ pass.pc # "idle" /\ pass'.pc = "idle"
        /\ UNCHANGED <<health, roles, remote>>
    BY DEF patchStatus, env, Idle
  <1>2. PICK b \in Bindings : b = pass.trb
    BY <1>1, TypeParts, Running
  <1>3. CASE /\ UNCHANGED log
             /\ crashes' = crashes + 1
             /\ lost' = lost \cup CutShort
    BY <1>1, <1>3, CutShortRecord DEF Server
  <1>4. CASE /\ Patched(b, Server(b)')
             /\ \A d \in Bindings \ {b} : Server(d)' = Server(d)
    <2> DEFINE v == Server(b)'
               s == Server(b)
    <2>1. /\ v.status \in Merged(pass.status, pass.snap.status, s.status, pass.touched # {})
          /\ v.stage = "deleted" => s.stage = "deleted" \/ pass.status = <<>>
          /\ lost' = (lost \cup Overwritten(b)) \ ({b} \X OnRecord(v))
          /\ crashes' = crashes
      BY <1>4 DEF Patched
    <2>2. NothingInGone' /\ ReadIsCurrent'
      BY <1>1 DEF RecordInv, NothingInGone, ReadIsCurrent
    <2>3. s.status = pass.snap.status => Overwritten(b) = {}
      BY DEF Overwritten
    <2>4. NothingLost'
      <3> SUFFICES ASSUME MaxLag = 0, crashes' = 0 PROVE lost' = {}
        BY DEF NothingLost
      <3>1. lost = {} /\ Overwritten(b) = {}
        BY <1>1, <1>2, <2>1, <2>3 DEF RecordInv, NothingLost, ReadIsCurrent
      <3>2. QED
        BY <2>1, <3>1
    <2>5. \A d \in Bindings \ {b}, c \in Clusters : Known(d, c) => Known(d, c)'
      BY <1>1, <1>2, <1>4, <2>1 DEF Known, Listed, Recorded
    <2>6. ASSUME NEW c \in Clusters, Known(b, c) PROVE Known(b, c)'
      <3>1. <<b, c>> \in lost \cup Overwritten(b) \/ c \in OnRecord(v)
        <4>1. CASE <<b, c>> \in lost
          BY <4>1
        <4>2. CASE Listed(b, c) /\ s.status # pass.snap.status
          BY <1>1, <1>2, <4>2 DEF Listed, Overwritten
        <4>3. CASE Listed(b, c) /\ s.status = pass.snap.status
          <5>1. c \in Range(pass.status) /\ s.stage # "deleted"
            BY <1>1, <1>2, <4>3 DEF Listed, Recorded
          <5>2. v.status = pass.status
            BY <4>3, <2>1 DEF Merged
          <5>3. v.stage # "deleted"
            <6>1. pass.status # <<>>
              BY <5>1 DEF Range
            <6>2. QED
              BY <5>1, <6>1, <2>1
          <5>4. QED
            BY <5>1, <5>2, <5>3 DEF OnRecord, Recorded
        <4>4. QED
          BY <2>6, <4>1, <4>2, <4>3 DEF Known
      <3>2. CASE c \in OnRecord(v)
        BY <3>2, <1>1 DEF OnRecord, Known, Listed, Recorded
      <3>3. CASE c \notin OnRecord(v)
        BY <3>1, <3>3, <2>1 DEF Known
      <3>4. QED
        BY <3>2, <3>3
    <2>7. Covered'
      BY <1>1, <2>5, <2>6, KnownKept DEF RecordInv
    <2>8. QED
      BY <2>2, <2>4, <2>7 DEF RecordInv
  <1>5. QED
    BY <1>2, <1>3, <1>4, PatchCases

\* Every step keeps what is in the clusters on record, or lost.
LEMMA RecordStep ==
    ASSUME TypeOK, OrderInv, RecordInv, [Next]_vars
    PROVE  RecordInv'
  <1>t. LogOK /\ PassOK /\ ClustersOK /\ EnvOK
    BY TypeParts
  <1>1. ASSUME NEW b \in Bindings, Create(b) \/ Edit(b) \/ Delete(b) PROVE RecordInv'
    <2>1. /\ Server(b)'.status = Server(b).status
          /\ \A d \in Bindings \ {b} : Server(d)' = Server(d)
          /\ UserMove(Server(b).stage, Server(b)'.stage)
      BY <1>1, <1>t, UserStep DEF OrderInv
    <2>2. UNCHANGED <<health, roles, remote, pass, lost, crashes>>
      BY <1>1 DEF Create, Edit, Delete, env
    <2>3. \A d \in Bindings : /\ Server(d)'.status = Server(d).status
                              /\ UserMove(Server(d).stage, Server(d)'.stage)
      BY <2>1 DEF UserMove
    <2>4. QED
      BY <2>2, <2>3, QuietStep
  <1>2. ASSUME NEW b \in Bindings, Deliver(b) PROVE RecordInv'
    <2>1. \A d \in Bindings : Server(d)' = Server(d)
      BY <1>2, <1>t, DeliverStep
    <2>2. UNCHANGED <<health, roles, remote, pass, lost, crashes>>
      BY <1>2 DEF Deliver, env
    <2>3. QED
      BY <2>1, <2>2, QuietStep DEF UserMove
  <1>3. ASSUME NEW b \in Bindings, Reconcile(b) PROVE RecordInv'
    BY <1>3, TakeRecord
  <1>4. ASSUME NEW c \in Clusters, ClusterUnready(c) \/ ClusterReady(c) \/ ClusterGone(c) PROVE RecordInv'
    <2>1. UNCHANGED <<log, pass, lost, crashes>>
      BY <1>4 DEF ClusterUnready, ClusterReady, ClusterGone
    <2>2. \A d \in Bindings : Server(d)' = Server(d)
      BY <2>1 DEF Server
    <2>3. ReadIsCurrent' /\ NothingLost'
      <3>1. pass.pc # "idle" => pass.trb \in Bindings
        BY <1>t, Running
      <3>2. QED
        BY <2>1, <2>2, <3>1 DEF RecordInv, ReadIsCurrent, NothingLost
    <2>4. remote' \subseteq remote /\ roles' \subseteq roles
      BY <1>4 DEF ClusterUnready, ClusterReady, ClusterGone
    <2>5. \A d \in Bindings, e \in Clusters : Known(d, e) => Known(d, e)'
      BY <2>1, <2>2 DEF Known, Listed, Recorded
    <2>6. Covered'
      BY <2>4, <2>5, KnownKept DEF RecordInv
    <2>7. NothingInGone'
      <3>1. /\ \A x \in remote : x.cluster \in Clusters
            /\ roles \subseteq Clusters
        BY <1>t DEF ClustersOK, Remote
      <3>2. CASE ClusterUnready(c) \/ ClusterReady(c)
        BY <3>1, <3>2, <1>t DEF ClusterUnready, ClusterReady, EnvOK, RecordInv, NothingInGone
      <3>3. CASE ClusterGone(c)
        BY <3>1, <3>3, <1>t DEF ClusterGone, EnvOK, RecordInv, NothingInGone
      <3>4. QED
        BY <1>4, <3>2, <3>3
    <2>8. QED
      BY <2>3, <2>6, <2>7 DEF RecordInv
  <1>5. CASE LabelsChange \/ enqueueTeamRoleBindingsFor \/ Resync \/ UNCHANGED vars
    <2>1. UNCHANGED <<log, health, roles, remote, pass, lost, crashes>>
      BY <1>5 DEF LabelsChange, enqueueTeamRoleBindingsFor, Resync, vars, env
    <2>2. \A d \in Bindings : Server(d)' = Server(d)
      BY <2>1 DEF Server
    <2>3. QED
      BY <2>1, <2>2, QuietStep DEF UserMove
  <1>6. CASE Restart
    <2>1. \A d \in Bindings : Server(d)' = Server(d)
      BY <1>6, <1>t, RestartStep
    <2>2. UNCHANGED <<health, roles, remote>> /\ pass'.pc = "idle" /\ crashes' = crashes + 1
          /\ lost' = lost \cup CutShort
      BY <1>6 DEF Restart, env, Idle
    <2>3. QED
      BY <2>1, <2>2, CutShortRecord
  <1>7. CASE cleanupResources \/ doReconcile \/ EnsureDeleted
    <2>1. Effect
      BY <1>7, <1>t, CleanupEffect, ReconcileEffect, DeleteEffect
    <2>2. pass.pc # "idle" /\ UNCHANGED <<log, health, lost, crashes>>
      BY <1>7 DEF cleanupResources, doReconcile, EnsureDeleted, env
    <2>3. QED
      BY <2>1, <2>2, EffectRecord
  <1>8. CASE patchStatus
    BY <1>8, PatchRecord
  <1>9. QED
    BY <1>1, <1>2, <1>3, <1>4, <1>5, <1>6, <1>7, <1>8 DEF Next, Step

\* At the start nothing is in the clusters and nothing is on record or lost.
LEMMA RecordInit == Init => RecordInv
  BY DEF Init, Idle, RecordInv, NothingInGone, ReadIsCurrent, NothingLost, Covered

\* Everything that is left in a cluster between two passes, bindings and
\* ClusterRoles, is recorded in the propagation status of a TeamRoleBinding, or a
\* pass that has read an outdated list or has been cut off has lost the record: for
\* every number of bindings, clusters and namespaces, all interleavings of edits,
\* removals of clusters, restarts and steps of a pass, however outdated the reads,
\* and every number of failing calls.  With reads that are up to date and without
\* restarts and failing patches nothing is lost.
THEOREM RecordIsComplete == Spec => []NoOrphans
  <1>1. TypeOK /\ OrderInv /\ RecordInv /\ [Next]_vars => OrderInv' /\ RecordInv'
    BY OrderStep, RecordStep
  <1>2. TypeOK /\ RecordInv => NoOrphans
    <2> SUFFICES ASSUME TypeOK, RecordInv PROVE NoOrphans
      OBVIOUS
    <2>1. pass = Idle => \A b \in Bindings, c \in Clusters : Known(b, c) => Tracked(b, c)
      BY DEF Known, Listed, Tracked, OnRecord, Idle
    <2>2. (\A x \in remote : x.trb \in Bindings /\ x.cluster \in Clusters) /\ roles \subseteq Clusters
      BY TypeParts DEF ClustersOK, Remote
    <2>3. QED
      BY <2>1, <2>2 DEF RecordInv, Covered, NothingLost, NoOrphans
  <1>3. Init => OrderInv /\ RecordInv
    BY OrderInit, RecordInit
  <1>4. QED
    BY <1>1, <1>2, <1>3, BindingTypeCorrect, PTL DEF Spec

-----------------------------------------------------------------------------
(* The contract of a managed resource. *)

PhaseOf(b) ==
    CASE Server(b).stage \in {"absent", "new"} -> "unmanaged"
      [] Server(b).stage = "live" -> "managed"
      [] OTHER -> "closing"

HeldBy(b) == {x \in remote : x.trb = b /\ <<b, x.cluster>> \notin lost}

\* The steps of the contract, seen from one binding.
Contract(b) ==
    \/ PhaseOf(b)' = PhaseOf(b) /\ HeldBy(b)' = HeldBy(b)
    \/ PhaseOf(b) = "unmanaged" /\ PhaseOf(b)' = "managed" /\ HeldBy(b)' = HeldBy(b)
    \/ PhaseOf(b) = "managed" /\ PhaseOf(b)' = "closing" /\ HeldBy(b)' = HeldBy(b)
    \/ PhaseOf(b) # "unmanaged" /\ PhaseOf(b)' = PhaseOf(b) /\ HeldBy(b)' \subseteq Remote
    \/ PhaseOf(b) = "closing" /\ PhaseOf(b)' = "unmanaged" /\ HeldBy(b) = {} /\ HeldBy(b)' = {}

\* Contract is the next-state relation of ManagedResource, or a stutter.
LEMMA ContractIsManaged ==
    ASSUME NEW b \in Bindings, Contract(b)
    PROVE  Managed(b)!Next \/ UNCHANGED Managed(b)!vars
  BY DEF Contract, PhaseOf, HeldBy, Managed!Next, Managed!Adopt, Managed!Close, Managed!Change,
         Managed!Release, Managed!vars

\* A binding that is not managed yet, or whose cleanup is complete, holds nothing.
LEMMA NothingHeld ==
    ASSUME TypeOK, OrderInv, RecordInv, NEW b \in Bindings,
           Server(b).stage \in {"absent", "new", "deleted"}
    PROVE  HeldBy(b) = {}
  <1>1. \A c : ~Listed(b, c)
    <2>1. CASE Server(b).stage = "deleted"
      BY <2>1 DEF Listed
    <2>2. CASE Server(b).stage \in {"absent", "new"}
      <3>1. Recorded(Server(b)) = {}
        BY <2>2 DEF OrderInv, NoEntries, Recorded, Range
      <3>2. pass.pc # "idle" => pass.trb # b
        BY <2>2, Finalized
      <3>3. QED
        BY <3>1, <3>2 DEF Listed
    <2>3. QED
      BY <2>1, <2>2
  <1>2. QED
    BY <1>1 DEF RecordInv, Covered, Known, HeldBy

\* A step that leaves the phase of a binding is one of the contract, and one that
\* takes it on is if it changes nothing in the clusters.
LEMMA ContractCases ==
    ASSUME TypeOK, TypeOK', OrderInv, OrderInv', RecordInv, RecordInv', NEW b \in Bindings,
           \/ PhaseOf(b)' = PhaseOf(b)
           \/ /\ UNCHANGED <<remote, lost>>
              /\ \/ PhaseOf(b) = "unmanaged" /\ PhaseOf(b)' = "managed"
                 \/ PhaseOf(b) = "managed" /\ PhaseOf(b)' = "closing"
                 \/ Server(b).stage = "deleted" /\ PhaseOf(b)' = "unmanaged"
    PROVE  Contract(b)
  <1>1. HeldBy(b)' \subseteq Remote
    BY DEF TypeOK, HeldBy
  <1>2. UNCHANGED <<remote, lost>> => HeldBy(b)' = HeldBy(b)
    BY DEF HeldBy
  <1>3. (PhaseOf(b) = "unmanaged" \/ Server(b).stage = "deleted") => HeldBy(b) = {}
    BY NothingHeld DEF PhaseOf
  <1>4. PhaseOf(b)' = "unmanaged" => HeldBy(b)' = {}
    <2> SUFFICES ASSUME PhaseOf(b)' = "unmanaged" PROVE HeldBy(b)' = {}
      OBVIOUS
    <2>1. Server(b)'.stage \in {"absent", "new"}
      BY DEF PhaseOf
    <2>2. Server(b)'.status = <<>>
      BY <2>1 DEF OrderInv, NoEntries
    <2>3. pass'.pc # "idle" => pass'.trb # b
      <3> SUFFICES ASSUME pass'.pc # "idle", pass'.trb = b PROVE FALSE
        OBVIOUS
      <3>0. LogOK'
        BY DEF TypeOK, LogOK
      <3>1. Len(log'[b]) >= 1 /\ Len(log'[b]) \in Nat
        BY <3>0, BindingAssumption DEF LogOK
      <3>2. Len(log'[b]) \in 1 .. Len(log'[b]) /\ log'[b][Len(log'[b])] = Server(b)'
        BY <3>1 DEF Server, Last
      <3>3. Follows(pass'.snap.stage, Server(b)'.stage) /\ pass'.snap.stage \in {"live", "deleting"}
        BY <3>2 DEF OrderInv, PassOrder, InPhase
      <3>4. QED
        BY <2>1, <3>3 DEF Follows
    <2>4. \A c : ~Listed(b, c)'
      BY <2>2, <2>3 DEF Listed, Recorded, Range
    <2>5. QED
      BY <2>4 DEF RecordInv, Covered, Known, HeldBy
  <1>5. Server(b).stage = "deleted" => PhaseOf(b) = "closing"
    BY DEF PhaseOf
  <1>6. QED
    BY <1>1, <1>2, <1>3, <1>4, <1>5 DEF Contract

\* Every step of the controller and of its surroundings is one of the contract.
LEMMA ContractStep ==
    ASSUME TypeOK, TypeOK', OrderInv, OrderInv', RecordInv, RecordInv', [Next]_vars,
           NEW b \in Bindings
    PROVE  Contract(b)
  <1>t. LogOK /\ PassOK
    BY TypeParts
  <1>1. ASSUME Server(b)' = Server(b) PROVE Contract(b)
    BY <1>1, ContractCases DEF PhaseOf
  <1>2. ASSUME NEW d \in Bindings, Create(d) \/ Edit(d) \/ Delete(d) PROVE Contract(b)
    <2>1. /\ \A e \in Bindings \ {d} : Server(e)' = Server(e)
          /\ UserMove(Server(d).stage, Server(d)'.stage)
      BY <1>2, <1>t, UserStep DEF OrderInv
    <2>2. UNCHANGED <<remote, lost>>
      BY <1>2 DEF Create, Edit, Delete
    <2>3. CASE b = d
      BY <2>1, <2>2, <2>3, ContractCases DEF UserMove, PhaseOf
    <2>4. QED
      BY <2>1, <2>3, <1>1
  <1>3. ASSUME NEW d \in Bindings, Deliver(d) PROVE Contract(b)
    BY <1>1, <1>3, <1>t, DeliverStep
  <1>4. ASSUME NEW d \in Bindings, Reconcile(d) PROVE Contract(b)
    <2>1. UNCHANGED <<remote, lost>>
      BY <1>4 DEF Reconcile
    <2>2. CASE log' = log
      BY <2>2, <1>1 DEF Server
    <2>3. CASE Adopts(d)
      <3>1. Server(d) \in VersionsOf(d)
        BY <1>t, Logs
      <3>2. PICK v \in VersionsOf(d) :
                /\ Write(d, v)
                /\ \/ Server(d).stage = "new" /\ v.stage = "live"
                   \/ Server(d).stage = "deleted" /\ v.stage = "absent"
        <4>1. [Server(d) EXCEPT !.stage = "live"] \in VersionsOf(d)
          BY <3>1, ChangedVersion DEF Stages
        <4>2. [Server(d) EXCEPT !.stage = "live"].stage = "live"
          BY <3>1 DEF VersionsOf, Versions
        <4>3. QED
          BY <2>3, <4>1, <4>2, AbsentVersion DEF Adopts
      <3>3. Server(d)' = v /\ \A e \in Bindings \ {d} : Server(e)' = Server(e)
        BY <1>t, <3>2, WriteStep DEF Server
      <3>4. CASE b = d
        BY <2>1, <3>2, <3>3, <3>4, ContractCases DEF PhaseOf
      <3>5. QED
        BY <3>3, <3>4, <1>1
    <2>4. QED
      BY <1>4, <2>2, <2>3, TakeStep DEF Begins
  <1>5. ASSUME NEW c \in Clusters, ClusterUnready(c) \/ ClusterReady(c) \/ ClusterGone(c) PROVE Contract(b)
    BY <1>1, <1>5 DEF ClusterUnready, ClusterReady, ClusterGone, Server
  <1>6. CASE LabelsChange \/ enqueueTeamRoleBindingsFor \/ Resync \/ UNCHANGED vars
    BY <1>1, <1>6 DEF LabelsChange, enqueueTeamRoleBindingsFor, Resync, vars, Server
  <1>7. CASE Restart
    BY <1>1, <1>7, <1>t, RestartStep
  <1>8. CASE cleanupResources \/ doReconcile \/ EnsureDeleted
    BY <1>1, <1>8 DEF cleanupResources, doReconcile, EnsureDeleted, Server
  <1>9. CASE patchStatus
    <2>1. pass.pc # "idle"
      BY <1>9 DEF patchStatus
    <2>2. PICK d \in Bindings : d = pass.trb
      BY <2>1, <1>t, Running
    <2>3. CASE UNCHANGED log
      BY <2>3, <1>1 DEF Server
    <2>4. CASE PatchWrites(d, Server(d)') /\ \A e \in Bindings \ {d} : Server(e)' = Server(e)
      <3>1. CASE b = d
        <4>1. PhaseOf(b)' = PhaseOf(b)
          BY <2>4, <3>1 DEF PatchWrites, PatchMove, PhaseOf
        <4>2. QED
          BY <4>1, ContractCases
      <3>2. QED
        BY <2>4, <3>1, <1>1
    <2>5. QED
      BY <1>9, <2>2, <2>3, <2>4, PatchCases
  <1>10. QED
    BY <1>2, <1>3, <1>4, <1>5, <1>6, <1>7, <1>8, <1>9 DEF Next, Step

\* Every TeamRoleBinding keeps the contract of a managed resource: what is bound in
\* a cluster on its behalf is covered by the finalizer, which goes last, unless the
\* record of it has been lost.  For every number of bindings, clusters and
\* namespaces, however outdated the reads, and wherever in a pass the operator dies.
THEOREM BindingsKeepContract == Spec => ImplementsManagedResource
  <1> DEFINE Kept == \A b \in Bindings : Managed(b)!Next \/ UNCHANGED Managed(b)!vars
  <1>1. Init => \A b \in Bindings : Managed(b)!Init
    <2> SUFFICES ASSUME Init, NEW b \in Bindings PROVE Managed(b)!Init
      OBVIOUS
    <2>1. Server(b).stage = "absent"
      <3>1. Server(b) = Absent(b)
        BY DEF Init, Server, Last
      <3>2. QED
        BY <3>1, AbsentVersion
    <2>2. {x \in remote : x.trb = b /\ <<b, x.cluster>> \notin lost} = {}
      BY DEF Init
    <2>3. QED
      BY <2>1, <2>2 DEF Managed!Init
  <1>2. TypeOK /\ OrderInv /\ RecordInv /\ [Next]_vars => OrderInv' /\ RecordInv'
    BY OrderStep, RecordStep
  <1>3. TypeOK /\ TypeOK' /\ OrderInv /\ OrderInv' /\ RecordInv /\ RecordInv' /\ [Next]_vars => Kept
    BY ContractStep, ContractIsManaged
  <1>4. Init => OrderInv /\ RecordInv
    BY OrderInit, RecordInit
  <1>5. Spec => [][Kept]_vars
    <2> HIDE DEF Kept
    <2>1. QED
      BY <1>2, <1>3, <1>4, BindingTypeCorrect, PTL DEF Spec
  <1>6. QED
    BY <1>1, <1>5, PTL DEF Spec, ImplementsManagedResource

=============================================================================
