------------------------- MODULE RemoteAccessProofs -------------------------
(* Proofs about the credentials of a remote cluster: for every validity of    *)
(* tokens, every threshold of renewal and every number of edits and mishaps,  *)
(* a token expires only when it could not be renewed for as long as it is     *)
(* renewed ahead of time.                                                     *)
EXTENDS RemoteAccess, TLAPS

\* What is left of the token, and the time for which nobody could renew it, are together
\* no less than the time for which it is due.
AgeIsLag == secret.exists /\ secret.gh.ttl # -1 => secret.gh.ttl + lag >= Due(secret.gh)

\* A version of the Secret with a token that is not due.
Renewed(s) == s.exists /\ s.gh.ttl > RenewAfter

\* A pass finds nothing to renew in the version it has read, which may be outdated: then
\* the token that has replaced it meanwhile is as it was issued, or not due either.
NotDue ==
    /\ running
    /\ Renewed(seen) \/ (clusterPass # NoPass /\ Renewed(clusterPass.secret))
    /\ secret.exists /\ secret.gh.ttl # -1
    => secret.gh.ttl >= Due(secret.gh)

\* The cache is behind only when there is something to deliver.
SeenIsCurrent == ~unseen => seen = secret

\* No pass survives the operator.
PassNeedsOperator == clusterPass # NoPass => running

CredInv ==
    /\ CredTypeOK /\ mishaps \in 0..MaxMishaps
    /\ AgeIsLag /\ NotDue /\ SeenIsCurrent /\ PassNeedsOperator

AccessInv == CredInv /\ KcTypeOK /\ ProxyTypeOK /\ edits \in 0..MaxEdits

-----------------------------------------------------------------------------
(* Facts about Secrets.                                                       *)

\* A Secret exists or is NoSecret.
LEMMA SecretCases ==
    ASSUME NEW s \in Secrets
    PROVE  /\ s.exists \in BOOLEAN
           /\ s.exists => s \in SecretObject
           /\ ~s.exists => s = NoSecret
  <1>1. CASE s = NoSecret
    <2>1. s.exists = FALSE
      BY <1>1 DEF NoSecret
    <2>2. QED
      BY <1>1, <2>1
  <1>2. CASE s \in SecretObject
    <2>1. s.exists = TRUE
      BY <1>2 DEF SecretObject
    <2>2. QED
      BY <1>2, <2>1
  <1>3. QED
    BY <1>1, <1>2 DEF Secrets

\* What is read of a Secret that exists.
LEMMA SecretFields ==
    ASSUME NEW s \in SecretObject
    PROVE  /\ s \in Secrets /\ s.exists = TRUE
           /\ s.gh \in Configs /\ s.gh.ttl \in -1..MaxTokenValidity /\ s.gh.ca \in {0, 1}
           /\ s.gh.life \in 0..MaxTokenValidity
           /\ s.ca \in {0, 1} /\ ConfigCA(s) \in {0, 1}
  BY DEF SecretObject, Secrets, Configs, ConfigCA, Uses

\* The validity of a token is a number, and so is the time for which it is due.
LEMMA TtlType ==
    ASSUME NEW s \in Secrets
    PROVE  s.exists => /\ s.gh.ttl \in -1..MaxTokenValidity /\ s.gh.ttl \in Int
                       /\ Due(s.gh) \in 0..RenewAfter /\ Due(s.gh) \in Nat
  <1>1. MaxTokenValidity \in Int /\ RenewAfter \in Nat
    BY TokenAssumption
  <1>2. SUFFICES ASSUME s.exists
                 PROVE  /\ s.gh.ttl \in -1..MaxTokenValidity /\ s.gh.ttl \in Int
                        /\ Due(s.gh) \in 0..RenewAfter /\ Due(s.gh) \in Nat
    OBVIOUS
  <1>3. s \in SecretObject
    BY <1>2, SecretCases
  <1>4. s.gh.ttl \in -1..MaxTokenValidity /\ s.gh.life \in 0..MaxTokenValidity
    BY <1>3, SecretFields
  <1>5. PICK n \in 0..MaxTokenValidity : n = s.gh.life
    BY <1>4
  <1>6. Due(s.gh) = IF n < RenewAfter THEN n ELSE RenewAfter
    BY <1>5 DEF Due
  <1>7. Due(s.gh) \in 0..RenewAfter /\ Due(s.gh) \in Nat
    BY <1>1, <1>6
  <1>8. QED
    BY <1>1, <1>4, <1>7

\* A token that is issued is not due for longer than it is valid.
LEMMA IssuedFacts ==
    ASSUME NEW v \in 1..MaxTokenValidity, NEW a \in {0, 1}
    PROVE  /\ Config(v, a) \in Configs
           /\ Config(v, a).ttl = v /\ v >= Due(Config(v, a))
  <1>1. MaxTokenValidity \in Nat /\ RenewAfter \in Nat
    BY TokenAssumption
  <1>2. PICK c : c = [ttl |-> v, ca |-> a, life |-> v]
    OBVIOUS
  <1>3. c \in Configs /\ c.ttl = v /\ c.life = v
    BY <1>1, <1>2 DEF Configs
  <1>4. v >= Due(c)
    BY <1>1, <1>3 DEF Due
  <1>5. QED
    BY <1>2, <1>3, <1>4 DEF Config

\* A Secret grows older.
LEMMA AgedFacts ==
    ASSUME NEW s \in Secrets
    PROVE  /\ AgedSecret(s) \in Secrets
           /\ AgedSecret(s).exists = s.exists
           /\ s.exists => /\ AgedSecret(s).gh.ttl = IF s.gh.ttl > 0 THEN s.gh.ttl - 1 ELSE s.gh.ttl
                          /\ Due(AgedSecret(s).gh) = Due(s.gh)
  <1>1. CASE s = NoSecret
    BY <1>1, SecretCases DEF AgedSecret, NoSecret
  <1>2. CASE s \in SecretObject
    <2>1. PICK c : c = s.gh
      OBVIOUS
    <2>2. /\ c \in Configs /\ c.ttl \in -1..MaxTokenValidity /\ c.ca \in {0, 1}
          /\ c.life \in 0..MaxTokenValidity
      BY <1>2, <2>1, SecretFields
    <2>3. PICK d : d = Aged(c)
      OBVIOUS
    <2>4. d \in Configs /\ d.ttl = (IF c.ttl > 0 THEN c.ttl - 1 ELSE c.ttl) /\ d.life = c.life
      BY <2>2, <2>3, TokenAssumption DEF Aged, Configs
    <2>5. AgedSecret(s) = [s EXCEPT !.gh = d]
      BY <1>2, <2>1, <2>3, SecretFields DEF AgedSecret
    <2>6. AgedSecret(s) \in SecretObject /\ AgedSecret(s).gh = d
      BY <1>2, <2>4, <2>5 DEF SecretObject
    <2>7. Due(d) = Due(c)
      BY <2>4 DEF Due
    <2>8. QED
      BY <1>2, <2>1, <2>4, <2>6, <2>7, SecretFields
  <1>3. QED
    BY <1>1, <1>2 DEF Secrets

\* The bound of mishaps.
LEMMA MishapBound ==
    ASSUME mishaps \in 0..MaxMishaps, NEW b, Mishap(b)
    PROVE  mishaps' \in 0..MaxMishaps
  BY MishapsAssumption DEF Mishap

-----------------------------------------------------------------------------
(* What keeps the invariant of the token.                                     *)

\* A write of the Secret, or none, while time stands still: the token stays, goes, or is
\* newly issued.
LEMMA TokenKept ==
    ASSUME CredInv, CredTypeOK', kind' = kind, running' = running, lag' = lag,
           seen' = seen,
           clusterPass' # NoPass => clusterPass # NoPass /\ clusterPass'.secret = clusterPass.secret,
           secret'.exists => \/ secret'.gh.ttl = -1 \/ secret'.gh.ttl >= Due(secret'.gh)
                             \/ secret.exists /\ secret'.gh = secret.gh
    PROVE  AgeIsLag' /\ NotDue'
  <1>2. secret \in Secrets /\ secret' \in Secrets /\ lag \in Nat
    BY TokenAssumption DEF CredInv, CredTypeOK
  <1>3. /\ secret'.exists => secret'.gh.ttl \in Int /\ Due(secret'.gh) \in Nat
        /\ secret.exists => secret.gh.ttl \in Int /\ Due(secret.gh) \in Nat
    BY <1>2, TtlType
  <1>4. AgeIsLag'
    BY <1>2, <1>3 DEF CredInv, AgeIsLag, Due
  <1>5. NotDue'
    <2> SUFFICES ASSUME running', secret'.exists, secret'.gh.ttl # -1,
                        Renewed(seen') \/ (clusterPass' # NoPass /\ Renewed(clusterPass'.secret))
                 PROVE  secret'.gh.ttl >= Due(secret'.gh)
      BY DEF NotDue, Renewed, Due
    <2>1. running /\ (Renewed(seen) \/ (clusterPass # NoPass /\ Renewed(clusterPass.secret)))
      BY DEF Renewed
    <2>2. QED
      BY <1>3, <2>1 DEF CredInv, NotDue
  <1>6. QED
    BY <1>4, <1>5

-----------------------------------------------------------------------------
(* The bootstrap controller.                                                  *)

\* A pass of the bootstrap controller: the kubeconfig it generates has a new token.
LEMMA BootstrapKeeps ==
    ASSUME CredInv, Bootstrap
    PROVE  CredInv'
  <1> USE TokenAssumption
  <1>1. CASE BootstrapNothing
    <2>1. CredTypeOK' /\ mishaps' \in 0..MaxMishaps /\ SeenIsCurrent' /\ PassNeedsOperator'
      BY <1>1 DEF BootstrapNothing, Idle, CredInv, CredTypeOK, SeenIsCurrent, PassNeedsOperator
    <2>2. QED
      BY <1>1, <2>1, TokenKept DEF BootstrapNothing, Idle, CredInv
  <1>2. CASE BootstrapGenerates
    <2>1. PICK fails \in BOOLEAN :
            /\ Mishap(fails)
            /\ secret' = IF ~fails /\ ~unseen THEN createKubeConfigKey(seen) ELSE secret
            /\ unseen' = (unseen \/ (~fails /\ ~unseen))
            /\ bootQueued' = ~(~fails /\ ~unseen)
      BY <1>2 DEF BootstrapGenerates
    <2>2. /\ kind = "oidc" /\ seen.exists /\ running
          /\ UNCHANGED <<kind, seen, cluster, remote, clusterQueue, clusterPass, running, lag>>
      BY <1>2 DEF BootstrapGenerates, Incomplete, Outdated, Idle
    <2>3. PICK s \in SecretObject : s = seen
      BY <2>2, SecretCases DEF CredInv, CredTypeOK
    <2>4. PICK t : t = createKubeConfigKey(s)
      OBVIOUS
    <2>5. t \in SecretObject /\ t.gh.ttl >= Due(t.gh)
      <3>1. PICK c : c = Config(BootstrapValidity, s.ca)
        OBVIOUS
      <3>2. s.ca \in {0, 1} /\ BootstrapValidity \in 1..MaxTokenValidity
        BY DEF SecretObject
      <3>3. c \in Configs /\ c.ttl >= Due(c)
        BY <3>1, <3>2, IssuedFacts
      <3>4. t = [s EXCEPT !.gh = c, !.generated = TRUE]
        BY <2>4, <3>1 DEF createKubeConfigKey
      <3>5. QED
        BY <3>3, <3>4 DEF SecretObject
    <2>6. secret' = t \/ secret' = secret
      BY <2>1, <2>3, <2>4
    <2>7. secret' \in Secrets
      BY <2>5, <2>6, SecretFields DEF CredInv, CredTypeOK
    <2>8. unseen' \in BOOLEAN /\ bootQueued' \in BOOLEAN
      BY <2>1
    <2>9. CredTypeOK' /\ mishaps' \in 0..MaxMishaps
      BY <2>1, <2>2, <2>7, <2>8, MishapBound DEF CredInv, CredTypeOK
    <2>10. SeenIsCurrent' /\ PassNeedsOperator'
      BY <2>1, <2>2 DEF CredInv, SeenIsCurrent, PassNeedsOperator
    <2>12. AgeIsLag' /\ NotDue'
      <3>1. secret'.exists => \/ secret'.gh.ttl = -1 \/ secret'.gh.ttl >= Due(secret'.gh)
                              \/ secret.exists /\ secret'.gh = secret.gh
        <4>1. CASE secret' = t
          BY <2>5, <4>1
        <4>2. CASE secret' = secret
          BY <4>2
        <4>3. QED
          BY <2>6, <4>1, <4>2
      <3>2. QED
        BY <2>2, <2>9, <3>1, TokenKept
    <2>13. QED
      BY <2>9, <2>10, <2>12 DEF CredInv
  <1>3. CASE BootstrapCluster
    <2>1. PICK early \in BOOLEAN, fails \in BOOLEAN :
            /\ Mishap(fails)
            /\ cluster' = createOrUpdateCluster
            /\ clusterQueue' = IF cluster.exists THEN clusterQueue ELSE "now"
            /\ secret' = IF ~early /\ ~fails /\ secret.exists THEN ensureOwnerReferences(secret)
                         ELSE secret
            /\ unseen' = (unseen \/ secret' # secret)
            /\ bootQueued' = ~(~early /\ ~fails /\ secret.exists)
      BY <1>3 DEF BootstrapCluster
    <2>2. UNCHANGED <<kind, seen, remote, clusterPass, running, lag>>
      BY <1>3 DEF BootstrapCluster, Idle
    <2>3. secret' \in Secrets /\ secret'.exists = secret.exists
          /\ (secret'.exists => secret'.gh = secret.gh)
      <3>1. CASE secret' = secret
        BY <3>1 DEF CredInv, CredTypeOK
      <3>2. CASE secret.exists /\ secret' = ensureOwnerReferences(secret)
        <4>1. PICK s \in SecretObject : s = secret
          BY <3>2, SecretCases DEF CredInv, CredTypeOK
        <4>2. PICK t : t = [s EXCEPT !.owner = TRUE]
          OBVIOUS
        <4>3. t \in SecretObject /\ t.gh = s.gh
          BY <4>2 DEF SecretObject
        <4>4. QED
          BY <3>2, <4>1, <4>2, <4>3, SecretFields DEF ensureOwnerReferences
      <3>3. QED
        BY <2>1, <3>1, <3>2
    <2>4. PICK c : c = cluster'
      OBVIOUS
    <2>5. c \in [ready : Conditions, valid : Conditions, payload : Conditions,
                 exists : BOOLEAN, exp : 0..MaxTokenValidity]
      BY <2>1, <2>4 DEF CredInv, CredTypeOK, createOrUpdateCluster
    <2>6. unseen' \in BOOLEAN /\ bootQueued' \in BOOLEAN
      BY <2>1
    <2>7. CredTypeOK' /\ mishaps' \in 0..MaxMishaps
      BY <2>1, <2>2, <2>3, <2>4, <2>5, <2>6, MishapBound DEF CredInv, CredTypeOK
    <2>8. SeenIsCurrent' /\ PassNeedsOperator'
      BY <2>1, <2>2 DEF CredInv, SeenIsCurrent, PassNeedsOperator
    <2>9. AgeIsLag' /\ NotDue'
      BY <2>2, <2>3, <2>7, TokenKept
    <2>10. QED
      BY <2>7, <2>8, <2>9 DEF CredInv
  <1>4. QED
    BY <1>1, <1>2, <1>3 DEF Bootstrap

-----------------------------------------------------------------------------
(* The Cluster controller.                                                    *)

\* A pass works on a Secret that exists until it writes the status.
LEMMA PassFacts ==
    ASSUME CredTypeOK, clusterPass.at \in {"oidcToken", "resources", "token", "status"}
    PROVE  /\ clusterPass # NoPass /\ clusterPass \in Passes
           /\ clusterPass.exp \in 0..MaxTokenValidity
           /\ clusterPass.at # "status" => Snapshot \in SecretObject
  <1>1. clusterPass # NoPass
    BY DEF NoPass
  <1>2. clusterPass \in Passes /\ (clusterPass.at # "status" => clusterPass.secret.exists)
    BY <1>1 DEF CredTypeOK
  <1>3. clusterPass.secret \in Secrets /\ clusterPass.exp \in 0..MaxTokenValidity
    BY <1>2 DEF Passes
  <1>4. QED
    BY <1>1, <1>2, <1>3, SecretCases DEF Snapshot

\* The pass that is started: what it has read of the token is what the cache shows.
LEMMA StartKeeps ==
    ASSUME CredInv, StartClusterPass
    PROVE  CredInv'
  <1> DEFINE bad == ~ValidateSecretForKubeConfig(seen)
  <1>1. PICK f : f = bad
    OBVIOUS
  <1>2. f \in BOOLEAN /\ (~f => seen.exists)
    BY <1>1 DEF ValidateSecretForKubeConfig
  <1>3. PICK p : p = [secret |-> seen, exp |-> cluster.exp, failed |-> f,
                      at |-> IF f THEN "status" ELSE IF kind = "oidc" THEN "oidcToken" ELSE "resources"]
    OBVIOUS
  <1>4. p \in Passes /\ (p.at # "status" => p.secret.exists) /\ p.secret = seen
    BY <1>2, <1>3 DEF CredInv, CredTypeOK, Passes
  <1>5. clusterPass' = p /\ running /\ clusterQueue' = "none"
        /\ UNCHANGED <<kind, secret, seen, unseen, cluster, remote, bootQueued, running, lag, mishaps>>
    BY <1>1, <1>3 DEF StartClusterPass
  <1>6. CredTypeOK'
    BY <1>4, <1>5 DEF CredInv, CredTypeOK
  <1>7. AgeIsLag' /\ SeenIsCurrent' /\ PassNeedsOperator'
    BY <1>5 DEF CredInv, AgeIsLag, Due, SeenIsCurrent, PassNeedsOperator
  <1>8. NotDue'
    BY <1>4, <1>5 DEF CredInv, NotDue, Renewed, Due
  <1>9. QED
    BY <1>5, <1>6, <1>7, <1>8 DEF CredInv

\* A pass that goes on with the Secret it has read.
LEMMA PassGoesOn ==
    ASSUME CredTypeOK, clusterPass.at \in {"oidcToken", "resources", "token"},
           NEW next \in {"resources", "token", "status"}, NEW exp \in 0..MaxTokenValidity
    PROVE  LET p == [clusterPass EXCEPT !.at = next, !.exp = exp]
               q == [clusterPass EXCEPT !.at = "status", !.failed = TRUE]
               r == [clusterPass EXCEPT !.at = next]
           IN  \A x \in {p, q, r} : /\ x \in Passes /\ x # NoPass
                                    /\ x.at # "status" => x.secret.exists
                                    /\ x.secret = clusterPass.secret
  <1>1. PICK cp \in Passes : cp = clusterPass
    BY PassFacts
  <1>2. cp.secret.exists
    BY <1>1, PassFacts, SecretFields DEF Snapshot
  <1>3. PICK p : p = [cp EXCEPT !.at = next, !.exp = exp]
    OBVIOUS
  <1>4. PICK q : q = [cp EXCEPT !.at = "status", !.failed = TRUE]
    OBVIOUS
  <1>5. PICK r : r = [cp EXCEPT !.at = next]
    OBVIOUS
  <1>6. p \in Passes /\ p.at = next /\ p.secret = cp.secret
    BY <1>3 DEF Passes
  <1>7. q \in Passes /\ q.at = "status" /\ q.secret = cp.secret
    BY <1>4 DEF Passes
  <1>8. r \in Passes /\ r.at = next /\ r.secret = cp.secret
    BY <1>5 DEF Passes
  <1>9. \A x \in {p, q, r} : x # NoPass
    BY <1>6, <1>7, <1>8 DEF NoPass
  <1>10. QED
    BY <1>1, <1>2, <1>3, <1>4, <1>5, <1>6, <1>7, <1>8, <1>9

\* A pass that looks for a token to renew.  If there is none the version it has read has
\* one that is not due, and by NotDue the one that is stored now has as much left as it
\* is due for, so that the count may start from the beginning.
LEMMA TokenKeeps ==
    ASSUME CredInv, running, clusterPass.at \in {"oidcToken", "token"},
           NEW next \in {"resources", "status"}, reconcileServiceAccountToken(next),
           UNCHANGED <<cluster, remote>>, Quiet
    PROVE  CredInv'
  <1> DEFINE asked == GenerateTokenRequest(Snapshot, clusterPass.exp)
             refused == asked /\ ~createTokenRequest(Snapshot)
             conf == GenerateNewClientKubeConfig(Snapshot, MaxTokenValidity)
  <1>1. PICK fails \in BOOLEAN :
          LET ok == ~fails /\ ~refused /\ (asked => secret.exists)
          IN  /\ Mishap(fails /\ ~refused) /\ (fails => asked)
              /\ secret' = IF ok /\ asked
                           THEN [secret EXCEPT !.gh = conf, !.generated = @ \/ kind = "oidc"]
                           ELSE secret
              /\ unseen' = (unseen \/ (ok /\ asked))
              /\ lag' = IF ok THEN 0 ELSE lag
              /\ IF ok THEN clusterPass' = [clusterPass EXCEPT
                              !.at = next, !.exp = IF asked THEN MaxTokenValidity ELSE @]
                 ELSE Failed
    BY DEF reconcileServiceAccountToken
  <1>2. PICK a : a = asked
    OBVIOUS
  <1>3. PICK ok : ok = (~fails /\ ~refused /\ (asked => secret.exists))
    OBVIOUS
  <1>4. ok \in BOOLEAN /\ a \in BOOLEAN /\ (ok /\ a => secret.exists)
    BY <1>2, <1>3 DEF GenerateTokenRequest
  <1>5. PICK e : e = IF a THEN MaxTokenValidity ELSE clusterPass.exp
    OBVIOUS
  <1>6. /\ secret' = IF ok /\ a THEN [secret EXCEPT !.gh = conf, !.generated = @ \/ kind = "oidc"]
                     ELSE secret
        /\ unseen' = (unseen \/ (ok /\ a))
        /\ lag' = IF ok THEN 0 ELSE lag
        /\ ok => clusterPass' = [clusterPass EXCEPT !.at = next, !.exp = e]
        /\ ~ok => clusterPass' = [clusterPass EXCEPT !.at = "status", !.failed = TRUE]
        /\ mishaps' \in 0..MaxMishaps
    <2>1. mishaps' \in 0..MaxMishaps
      BY <1>1, MishapBound DEF CredInv
    <2>2. QED
      BY <1>1, <1>2, <1>3, <1>5, <2>1 DEF Failed
  <1>7. PICK s \in SecretObject : s = Snapshot
    BY PassFacts DEF CredInv
  <1>8. ~a => Renewed(s)
    BY <1>2, <1>7, SecretFields DEF GenerateTokenRequest, shouldSkipTokenRenewal, Uses, Renewed
  <1>9. PICK c : c = conf
    OBVIOUS
  <1>10. c \in Configs /\ c.ttl >= Due(c)
    <2>1. /\ ConfigCA(s) \in {0, 1}
          /\ MaxTokenValidity \in 1..MaxTokenValidity
      <3>1. ConfigCA(s) \in {0, 1}
        BY SecretFields
      <3>2. MaxTokenValidity \in 1..MaxTokenValidity
        BY TokenAssumption
      <3>3. QED
        BY <3>1, <3>2
    <2>2. c = Config(MaxTokenValidity, ConfigCA(s))
      BY <1>7, <1>9 DEF GenerateNewClientKubeConfig
    <2>3. QED
      BY <2>1, <2>2, IssuedFacts
  <1>11. /\ secret' \in Secrets
         /\ ok /\ a => secret'.gh.ttl >= Due(secret'.gh)
         /\ ~(ok /\ a) => secret' = secret
    <2>1. CASE ok /\ a
      <3>1. PICK o \in SecretObject : o = secret
        BY <1>4, <2>1, SecretCases DEF CredInv, CredTypeOK
      <3>2. PICK t : t = [o EXCEPT !.gh = c, !.generated = @ \/ kind = "oidc"]
        OBVIOUS
      <3>3. t \in SecretObject /\ t.gh = c
        BY <1>10, <3>2 DEF SecretObject
      <3>4. QED
        BY <1>6, <1>9, <1>10, <2>1, <3>1, <3>2, <3>3, SecretFields
    <2>2. CASE ~(ok /\ a)
      BY <1>6, <2>2 DEF CredInv, CredTypeOK
    <2>3. QED
      BY <2>1, <2>2
  <1>12. e \in 0..MaxTokenValidity
    BY <1>4, <1>5, PassFacts, TokenAssumption DEF CredInv
  <1>13. /\ clusterPass' \in Passes /\ (clusterPass'.at # "status" => clusterPass'.secret.exists)
         /\ clusterPass'.secret = clusterPass.secret /\ clusterPass # NoPass
    <2>1. clusterPass' \in {[clusterPass EXCEPT !.at = next, !.exp = e],
                            [clusterPass EXCEPT !.at = "status", !.failed = TRUE],
                            [clusterPass EXCEPT !.at = next]}
      BY <1>4, <1>6
    <2>2. CredTypeOK /\ next \in {"resources", "token", "status"}
          /\ clusterPass.at \in {"oidcToken", "resources", "token"}
      BY DEF CredInv
    <2>3. \A x \in {[clusterPass EXCEPT !.at = next, !.exp = e],
                    [clusterPass EXCEPT !.at = "status", !.failed = TRUE],
                    [clusterPass EXCEPT !.at = next]} :
             /\ x \in Passes /\ x # NoPass
             /\ x.at # "status" => x.secret.exists
             /\ x.secret = clusterPass.secret
      BY <1>12, <2>2, PassGoesOn
    <2>4. clusterPass # NoPass
      BY <2>2, PassFacts
    <2>5. QED
      BY <2>1, <2>3, <2>4
  <1>14. UNCHANGED <<kind, seen, bootQueued, clusterQueue, running, cluster, remote>>
    BY DEF Quiet
  <1>15. unseen' \in BOOLEAN /\ lag' \in 0..RenewAfter
    BY <1>4, <1>6, TokenAssumption DEF CredInv, CredTypeOK
  <1>16. CredTypeOK'
    BY <1>11, <1>13, <1>14, <1>15 DEF CredInv, CredTypeOK
  <1>17. SeenIsCurrent' /\ PassNeedsOperator'
    BY <1>4, <1>6, <1>14 DEF CredInv, SeenIsCurrent, PassNeedsOperator
  <1>19. CASE ~ok
    BY <1>6, <1>11, <1>13, <1>14, <1>16, <1>17, <1>19, TokenKept DEF CredInv
  <1>20. CASE ok
    <2>1. secret'.exists /\ secret'.gh.ttl # -1 => secret'.gh.ttl >= Due(secret'.gh)
      <3>1. CASE a
        BY <1>11, <1>20, <3>1
      <3>2. CASE ~a
        BY <1>7, <1>8, <1>11, <1>13, <3>2 DEF CredInv, NotDue, Snapshot
      <3>3. QED
        BY <1>4, <3>1, <3>2
    <2>2. secret'.exists => secret'.gh.ttl \in Int /\ Due(secret'.gh) \in Nat
      BY <1>11, TtlType
    <2>3. AgeIsLag'
      BY <1>6, <1>20, <2>1, <2>2 DEF AgeIsLag, Due
    <2>4. NotDue'
      BY <2>1 DEF NotDue, Due
    <2>5. QED
      BY <1>6, <1>16, <1>17, <2>3, <2>4 DEF CredInv
  <1>21. QED
    BY <1>4, <1>19, <1>20

\* A pass of the Cluster controller.
LEMMA ClusterKeeps ==
    ASSUME CredInv, ClusterController
    PROVE  CredInv'
  <1>1. CASE StartClusterPass
    BY <1>1, StartKeeps
  <1>2. CASE OIDCToken
    <2>1. /\ running /\ clusterPass.at \in {"oidcToken", "token"}
          /\ reconcileServiceAccountToken("resources") /\ UNCHANGED <<cluster, remote>> /\ Quiet
      BY <1>2 DEF OIDCToken
    <2>2. QED
      BY <2>1, TokenKeeps
  <1>3. CASE EnsureToken
    <2>1. /\ running /\ clusterPass.at \in {"oidcToken", "token"}
          /\ reconcileServiceAccountToken("status") /\ UNCHANGED <<cluster, remote>> /\ Quiet
      BY <1>3 DEF EnsureToken
    <2>2. QED
      BY <2>1, TokenKeeps
  <1>4. CASE EnsureRemoteResources
    <2>1. PICK fails \in BOOLEAN :
            /\ Mishap(fails /\ Works(Snapshot))
            /\ IF fails THEN Failed /\ UNCHANGED remote
               ELSE /\ Goto("token")
                    /\ remote' = IF kind = "oidc" THEN reconcileNamespaceInRemoteCluster(remote)
                                 ELSE reconcileServiceAccountInRemoteCluster(
                                        reconcileNamespaceInRemoteCluster(
                                          reconcileClusterRoleBindingInRemoteCluster(remote)))
      BY <1>4 DEF EnsureRemoteResources
    <2>2. /\ clusterPass.at \in {"oidcToken", "resources", "token"}
          /\ UNCHANGED <<kind, secret, seen, unseen, cluster, bootQueued, clusterQueue, running, lag>>
      BY <1>4 DEF EnsureRemoteResources, Quiet
    <2>3. /\ clusterPass' \in Passes /\ (clusterPass'.at # "status" => clusterPass'.secret.exists)
          /\ clusterPass'.secret = clusterPass.secret /\ clusterPass # NoPass
      <3>1. clusterPass' \in {[clusterPass EXCEPT !.at = "token", !.exp = 0],
                              [clusterPass EXCEPT !.at = "status", !.failed = TRUE],
                              [clusterPass EXCEPT !.at = "token"]}
        BY <2>1 DEF Failed, Goto
      <3>2. 0 \in 0..MaxTokenValidity
        BY TokenAssumption
      <3>3. QED
        BY <2>2, <3>1, <3>2, PassGoesOn, PassFacts DEF CredInv
    <2>4. PICK r : r = remote'
      OBVIOUS
    <2>5. r \in [up : BOOLEAN, managed : BOOLEAN, ca : {0, 1},
                 nodes : SUBSET [ready : BOOLEAN, worker : BOOLEAN]]
      BY <2>1, <2>4 DEF CredInv, CredTypeOK, reconcileNamespaceInRemoteCluster,
            reconcileServiceAccountInRemoteCluster, reconcileClusterRoleBindingInRemoteCluster
    <2>6. CredTypeOK' /\ mishaps' \in 0..MaxMishaps
      BY <2>1, <2>2, <2>3, <2>4, <2>5, MishapBound DEF CredInv, CredTypeOK
    <2>7. QED
      BY <2>2, <2>3, <2>6, TokenKept DEF CredInv, SeenIsCurrent, PassNeedsOperator
  <1>5. CASE SetClusterStatus
    <2>1. PICK lost \in BOOLEAN :
            /\ Mishap(lost)
            /\ cluster' = IF lost THEN cluster ELSE setConditions
            /\ clusterQueue' = IF cluster' # cluster THEN "now"
                               ELSE IF clusterPass.failed \/ lost THEN "retry" ELSE clusterQueue
      BY <1>5 DEF SetClusterStatus
    <2>2. /\ clusterPass.at = "status" /\ clusterPass' = NoPass
          /\ bootQueued' = (bootQueued \/ cluster' # cluster)
          /\ UNCHANGED <<kind, secret, seen, unseen, remote, running, lag>>
      BY <1>5 DEF SetClusterStatus
    <2>3. PICK c : c = setConditions
      OBVIOUS
    <2>4. c \in [ready : Conditions, valid : Conditions, payload : Conditions,
                 exists : BOOLEAN, exp : 0..MaxTokenValidity]
      <3>1. PICK x, y, z : x = Cond(reconcileKubeConfigValid) /\ y = Cond(reconcileReadyStatus)
                           /\ z = Cond(PayloadSchedulable)
        OBVIOUS
      <3>2. x \in Conditions /\ y \in Conditions /\ z \in Conditions
        BY <3>1 DEF Cond, Conditions
      <3>3. PICK e \in 0..MaxTokenValidity : e = clusterPass.exp
        BY <2>2, PassFacts DEF CredInv
      <3>4. c = [cluster EXCEPT !.valid = x, !.ready = y, !.payload = z, !.exp = e]
        BY <2>3, <3>1, <3>3 DEF setConditions
      <3>5. QED
        BY <3>2, <3>4 DEF CredInv, CredTypeOK
    <2>5. CredTypeOK' /\ mishaps' \in 0..MaxMishaps
      BY <2>1, <2>2, <2>3, <2>4, MishapBound DEF CredInv, CredTypeOK
    <2>6. QED
      BY <2>2, <2>5, TokenKept DEF CredInv, SeenIsCurrent, PassNeedsOperator
  <1>6. QED
    BY <1>1, <1>2, <1>3, <1>4, <1>5 DEF ClusterController

-----------------------------------------------------------------------------
(* Caches, restarts, time.                                                    *)

\* The version that is delivered shows its own token.
LEMMA DeliverKeeps ==
    ASSUME CredInv, DeliverSecret
    PROVE  CredInv'
  <1>1. CredTypeOK' /\ mishaps' \in 0..MaxMishaps /\ SeenIsCurrent' /\ PassNeedsOperator' /\ AgeIsLag'
    BY DEF DeliverSecret, CredInv, CredTypeOK, SeenIsCurrent, PassNeedsOperator, AgeIsLag, Due
  <1>2. NotDue'
    <2>1. UNCHANGED <<kind, secret, clusterPass, running>> /\ seen' = secret /\ running
      BY DEF DeliverSecret
    <2>2. Renewed(secret) => secret.gh.ttl >= Due(secret.gh)
      BY TtlType, TokenAssumption DEF CredInv, CredTypeOK, Renewed
    <2>3. QED
      BY <2>1, <2>2 DEF CredInv, NotDue, Renewed, Due
  <1>3. QED
    BY <1>1, <1>2 DEF CredInv

\* The operator stops and is started.
LEMMA RestartKeeps ==
    ASSUME CredInv, StopOperator \/ StartOperator
    PROVE  CredInv'
  <1>1. CASE StopOperator
    <2>1. mishaps' \in 0..MaxMishaps
      BY <1>1, MishapBound DEF StopOperator, CredInv
    <2>2. CredTypeOK' /\ SeenIsCurrent' /\ PassNeedsOperator' /\ AgeIsLag' /\ NotDue'
      BY <1>1 DEF StopOperator, CredInv, CredTypeOK, SeenIsCurrent, PassNeedsOperator, AgeIsLag,
                  NotDue, Due
    <2>3. QED
      BY <2>1, <2>2 DEF CredInv
  <1>2. CASE StartOperator
    <2>1. CredTypeOK' /\ mishaps' \in 0..MaxMishaps /\ SeenIsCurrent' /\ PassNeedsOperator' /\ AgeIsLag'
      BY <1>2 DEF StartOperator, CredInv, CredTypeOK, SeenIsCurrent, PassNeedsOperator, AgeIsLag, Due
    <2>2. NotDue'
      <3>1. UNCHANGED <<kind, secret, clusterPass>> /\ seen' = secret /\ clusterPass = NoPass
        BY <1>2 DEF StartOperator, CredInv, PassNeedsOperator
      <3>2. Renewed(secret) => secret.gh.ttl >= Due(secret.gh)
        BY TtlType, TokenAssumption DEF CredInv, CredTypeOK, Renewed
      <3>3. QED
        BY <3>1, <3>2 DEF CredInv, NotDue, Renewed, Due
    <2>3. QED
      BY <2>1, <2>2 DEF CredInv
  <1>3. QED
    BY <1>1, <1>2

\* Time passes: what the token loses the lag gains, and a lag that is no longer counted
\* is enough by itself.
LEMMA TimeKeeps ==
    ASSUME CredInv, TimePasses
    PROVE  CredInv'
  <1>1. /\ secret' = AgedSecret(secret) /\ seen' = AgedSecret(seen)
        /\ cluster' = [cluster EXCEPT !.exp = IF @ > 0 THEN @ - 1 ELSE 0]
        /\ clusterQueue' \in {"none", "now"} /\ bootQueued' = secret.exists
        /\ lag' = IF lag = RenewAfter THEN lag ELSE lag + 1
        /\ UNCHANGED <<kind, unseen, remote, clusterPass, running, mishaps>>
        /\ ~running \/ (clusterPass = NoPass /\ ~unseen)
    BY DEF TimePasses, Settled
  <1>2. /\ secret \in Secrets /\ seen \in Secrets /\ lag \in 0..RenewAfter
        /\ RenewAfter \in Nat /\ MaxTokenValidity \in Nat
    BY <1>1, TokenAssumption DEF CredInv, CredTypeOK
  <1>3. PICK s \in Secrets, t \in Secrets : s = secret' /\ t = seen'
    BY <1>1, <1>2, AgedFacts
  <1>4. /\ s.exists = secret.exists /\ t.exists = seen.exists /\ secret.exists \in BOOLEAN
        /\ s.exists => s.gh.ttl = IF secret.gh.ttl > 0 THEN secret.gh.ttl - 1 ELSE secret.gh.ttl
        /\ s.exists => Due(s.gh) = Due(secret.gh)
        /\ t.exists => t.gh.ttl = IF seen.gh.ttl > 0 THEN seen.gh.ttl - 1 ELSE seen.gh.ttl
    BY <1>1, <1>2, <1>3, AgedFacts, SecretCases
  <1>5. PICK c : c = cluster'
    OBVIOUS
  <1>6. c \in [ready : Conditions, valid : Conditions, payload : Conditions,
               exists : BOOLEAN, exp : 0..MaxTokenValidity]
    BY <1>1, <1>2, <1>5 DEF CredInv, CredTypeOK
  <1>7. CredTypeOK'
    BY <1>1, <1>2, <1>3, <1>4, <1>5, <1>6 DEF CredInv, CredTypeOK
  <1>8. SeenIsCurrent' /\ PassNeedsOperator'
    BY <1>1 DEF CredInv, SeenIsCurrent, PassNeedsOperator
  <1>9. secret.exists => /\ secret.gh.ttl \in -1..MaxTokenValidity /\ secret.gh.ttl \in Int
                         /\ Due(secret.gh) \in 0..RenewAfter
    BY <1>2, TtlType
  <1>10. AgeIsLag'
    <2> SUFFICES ASSUME s.exists, s.gh.ttl # -1
                 PROVE  s.gh.ttl + lag' >= Due(s.gh)
      BY <1>3 DEF AgeIsLag, Due
    <2>0. PICK due \in 0..RenewAfter : due = Due(secret.gh) /\ due = Due(s.gh)
      BY <1>4, <1>9
    <2>1. secret.exists /\ secret.gh.ttl \in 0..MaxTokenValidity /\ secret.gh.ttl + lag >= due
      BY <1>2, <1>4, <1>9, <2>0 DEF CredInv, AgeIsLag
    <2>2. PICK n \in 0..MaxTokenValidity : n = secret.gh.ttl
      BY <2>1
    <2>3. n + lag >= due /\ s.gh.ttl = IF n > 0 THEN n - 1 ELSE n
      BY <1>4, <2>1, <2>2
    <2>4. CASE n > 0
      BY <1>1, <1>2, <2>0, <2>3, <2>4
    <2>5. CASE n = 0
      BY <1>1, <1>2, <2>0, <2>3, <2>5
    <2>6. QED
      BY <1>2, <2>0, <2>4, <2>5
  <1>11. NotDue'
    <2> SUFFICES ASSUME running', s.exists,
                        Renewed(t) \/ (clusterPass' # NoPass /\ Renewed(clusterPass'.secret))
                 PROVE  s.gh.ttl >= Due(s.gh)
      BY <1>2, <1>3 DEF NotDue, Renewed, Due
    <2>1. running /\ clusterPass' = NoPass /\ seen = secret
      BY <1>1 DEF CredInv, SeenIsCurrent
    <2>2. t = s /\ s.gh.ttl > RenewAfter
      BY <1>1, <1>3, <2>1 DEF Renewed
    <2>3. s.gh.ttl \in Int /\ Due(s.gh) \in 0..RenewAfter
      BY TtlType
    <2>4. QED
      BY <1>2, <2>2, <2>3
  <1>12. QED
    BY <1>1, <1>7, <1>8, <1>10, <1>11 DEF CredInv

-----------------------------------------------------------------------------
(* Users and the remote cluster.                                              *)

\* Changes in the remote cluster.
LEMMA RemoteKeeps ==
    ASSUME CredInv, RemoteChanges
    PROVE  CredInv'
  <1>1. UNCHANGED <<kind, secret, seen, unseen, cluster, bootQueued, clusterQueue, clusterPass,
                    running, lag, mishaps>>
    BY DEF RemoteChanges
  <1>2. PICK r : r = remote'
    OBVIOUS
  <1>3. \A b \in BOOLEAN : Worker(b) \in [ready : BOOLEAN, worker : BOOLEAN]
    BY DEF Worker
  <1>4. [ready |-> TRUE, worker |-> FALSE] \in [ready : BOOLEAN, worker : BOOLEAN]
    OBVIOUS
  <1>5. r \in [up : BOOLEAN, managed : BOOLEAN, ca : {0, 1},
               nodes : SUBSET [ready : BOOLEAN, worker : BOOLEAN]]
    <2>1. CASE r = [remote EXCEPT !.up = ~@]
      BY <2>1 DEF CredInv, CredTypeOK
    <2>2. CASE r = [remote EXCEPT !.managed = FALSE]
      BY <2>2 DEF CredInv, CredTypeOK
    <2>3. CASE \E nodes \in {{}, {Worker(FALSE)}, {Worker(FALSE), Worker(TRUE)},
                             {Worker(FALSE), [ready |-> TRUE, worker |-> FALSE]}} :
                  r = [remote EXCEPT !.nodes = nodes]
      <3>1. PICK nodes : /\ nodes \in {{}, {Worker(FALSE)}, {Worker(FALSE), Worker(TRUE)},
                                        {Worker(FALSE), [ready |-> TRUE, worker |-> FALSE]}}
                         /\ r = [remote EXCEPT !.nodes = nodes]
        BY <2>3
      <3>2. nodes \in SUBSET [ready : BOOLEAN, worker : BOOLEAN]
        BY <1>3, <1>4, <3>1
      <3>3. QED
        BY <3>1, <3>2 DEF CredInv, CredTypeOK
    <2>4. QED
      BY <1>2, <2>1, <2>2, <2>3 DEF RemoteChanges
  <1>6. CredTypeOK'
    BY <1>1, <1>2, <1>5 DEF CredInv, CredTypeOK
  <1>7. QED
    BY <1>1, <1>6, TokenKept DEF CredInv, SeenIsCurrent, PassNeedsOperator

\* A user changes the Secret, and its token stays or goes.
LEMMA UserKeeps ==
    ASSUME CredInv, NEW new \in Secrets, NEW ca \in {0, 1}, UserChanges(new, ca),
           new.exists => new.gh.ttl = -1 \/ new.gh = secret.gh
    PROVE  CredInv'
  <1>1. /\ secret.exists /\ secret' = new /\ unseen' = TRUE
        /\ remote' = [remote EXCEPT !.ca = ca]
        /\ UNCHANGED <<kind, seen, cluster, bootQueued, clusterQueue, clusterPass, running,
                       lag, mishaps>>
    BY DEF UserChanges
  <1>2. PICK r : r = remote'
    OBVIOUS
  <1>3. r \in [up : BOOLEAN, managed : BOOLEAN, ca : {0, 1},
               nodes : SUBSET [ready : BOOLEAN, worker : BOOLEAN]]
    BY <1>1, <1>2 DEF CredInv, CredTypeOK
  <1>4. CredTypeOK'
    BY <1>1, <1>2, <1>3 DEF CredInv, CredTypeOK
  <1>5. AgeIsLag' /\ NotDue'
    BY <1>1, <1>4, TokenKept
  <1>6. QED
    BY <1>1, <1>4, <1>5 DEF CredInv, SeenIsCurrent, PassNeedsOperator

\* What users do to a Secret: the playbook and a new CA, a kubeconfig that expires, the
\* Secret deleted.
LEMMA UsersKeep ==
    ASSUME CredInv, FollowPlaybook \/ KubeConfigExpires \/ RotateCA \/ DeleteSecret
    PROVE  CredInv'
  <1>1. PICK rca \in {0, 1} : rca = remote.ca
    BY DEF CredInv, CredTypeOK
  <1>2. secret.exists
    BY DEF FollowPlaybook, KubeConfigExpires, RotateCA, DeleteSecret, UserChanges
  <1>3. PICK s \in SecretObject : s = secret
    BY <1>2, SecretCases DEF CredInv, CredTypeOK
  <1>4. NoConfig \in Configs /\ NoConfig.ttl = -1
    BY TokenAssumption DEF NoConfig, Configs
  <1>5. CASE FollowPlaybook
    <2>1. PICK new : new = [s EXCEPT !.user = "valid", !.gh = NoConfig]
      OBVIOUS
    <2>2. new \in SecretObject /\ new.gh = NoConfig
      BY <1>4, <2>1 DEF SecretObject
    <2>3. UserChanges(new, rca) /\ new \in Secrets
      BY <1>1, <1>3, <1>5, <2>1, <2>2, SecretFields DEF FollowPlaybook
    <2>4. QED
      BY <1>4, <2>2, <2>3, UserKeeps
  <1>6. CASE KubeConfigExpires
    <2>1. PICK new : new = [s EXCEPT !.user = "expired"]
      OBVIOUS
    <2>2. new \in SecretObject /\ new.gh = s.gh
      BY <2>1 DEF SecretObject
    <2>3. UserChanges(new, rca) /\ new \in Secrets
      BY <1>1, <1>3, <1>6, <2>1, <2>2, SecretFields DEF KubeConfigExpires
    <2>4. QED
      BY <1>3, <2>2, <2>3, UserKeeps
  <1>7. CASE RotateCA
    <2>1. PICK new : new = [s EXCEPT !.ca = 1 - @]
      OBVIOUS
    <2>2. new \in SecretObject /\ new.gh = s.gh
      <3>1. s.ca \in {0, 1}
        BY DEF SecretObject
      <3>2. PICK x \in {0, 1} : x = 1 - s.ca
        BY <3>1
      <3>3. new = [s EXCEPT !.ca = x]
        BY <2>1, <3>2
      <3>4. QED
        BY <3>3 DEF SecretObject
    <2>3. PICK ca \in {0, 1} : ca = 1 - rca
      OBVIOUS
    <2>4. UserChanges(new, ca) /\ new \in Secrets
      BY <1>1, <1>3, <1>7, <2>1, <2>2, <2>3, SecretFields DEF RotateCA
    <2>5. QED
      BY <1>3, <2>2, <2>4, UserKeeps
  <1>8. CASE DeleteSecret
    <2>1. PICK new \in Secrets : new = NoSecret
      BY DEF Secrets
    <2>2. UserChanges(new, rca) /\ ~new.exists
      BY <1>1, <1>8, <2>1 DEF DeleteSecret, NoSecret
    <2>3. QED
      BY <2>2, UserKeeps
  <1>9. QED
    BY <1>5, <1>6, <1>7, <1>8

\* The command line: its token is new.
LEMMA CommandKeeps ==
    ASSUME CredInv, BootstrapCommand
    PROVE  CredInv'
  <1>1. PICK ignored \in BOOLEAN :
          LET new == IF isClusterAlreadyBootstraped
                     THEN [NewSecret EXCEPT !.user = "none",
                                            !.gh = Config(CommandValidity, remote.ca)]
                     ELSE [NewSecret EXCEPT !.user = "token"]
              ok == /\ secret.exists = isClusterAlreadyBootstraped
                    /\ validateSecretGreenHouseType(new) \/ ignored
          IN  /\ secret' = IF ok THEN new ELSE secret
              /\ unseen' = (unseen \/ ok)
    BY DEF BootstrapCommand, createOrUpdateClusterObject
  <1>2. /\ kind = "kubeconfig" /\ remote' = [remote EXCEPT !.managed = TRUE]
        /\ UNCHANGED <<kind, seen, cluster, bootQueued, clusterQueue, clusterPass, running, lag,
                       mishaps>>
    BY DEF BootstrapCommand, createOrUpdateClusterObject
  <1>3. NoConfig \in Configs /\ NoConfig.ttl = -1
    BY TokenAssumption DEF NoConfig, Configs
  <1>4. PICK n \in SecretObject : n = NewSecret /\ n.gh = NoConfig
    <2>1. NewSecret \in SecretObject
      BY <1>3 DEF NewSecret, SecretObject
    <2>2. NewSecret.gh = NoConfig
      BY DEF NewSecret
    <2>3. QED
      BY <2>1, <2>2
  <1>5. PICK c : c = Config(CommandValidity, remote.ca)
    OBVIOUS
  <1>6. c \in Configs /\ c.ttl >= Due(c)
    <2>1. remote.ca \in {0, 1} /\ CommandValidity \in 1..MaxTokenValidity
      BY TokenAssumption DEF CredInv, CredTypeOK
    <2>2. QED
      BY <1>5, <2>1, IssuedFacts
  <1>7. PICK u, v : u = [n EXCEPT !.user = "none", !.gh = c] /\ v = [n EXCEPT !.user = "token"]
    OBVIOUS
  <1>8. u \in SecretObject /\ u.gh = c /\ v \in SecretObject /\ v.gh = NoConfig
    BY <1>4, <1>6, <1>7 DEF SecretObject
  <1>9. secret' \in {u, v, secret} /\ unseen' \in BOOLEAN /\ (secret' # secret => unseen')
        /\ (~unseen' => ~unseen)
    BY <1>1, <1>4, <1>5, <1>7 DEF CredInv, CredTypeOK
  <1>10. PICK r : r = remote'
    OBVIOUS
  <1>11. r \in [up : BOOLEAN, managed : BOOLEAN, ca : {0, 1},
                nodes : SUBSET [ready : BOOLEAN, worker : BOOLEAN]]
    BY <1>2, <1>10 DEF CredInv, CredTypeOK
  <1>12. secret' \in Secrets
    BY <1>8, <1>9, SecretFields DEF CredInv, CredTypeOK
  <1>13. CredTypeOK'
    BY <1>2, <1>9, <1>10, <1>11, <1>12 DEF CredInv, CredTypeOK
  <1>14. secret'.exists => \/ secret'.gh.ttl = -1 \/ secret'.gh.ttl >= Due(secret'.gh)
                           \/ secret.exists /\ secret'.gh = secret.gh
    <2>1. CASE secret' = u
      BY <1>6, <1>8, <2>1
    <2>2. CASE secret' = v
      BY <1>3, <1>8, <2>2
    <2>3. QED
      BY <1>9, <2>1, <2>2
  <1>15. AgeIsLag' /\ NotDue'
    BY <1>2, <1>13, <1>14, TokenKept
  <1>16. QED
    BY <1>2, <1>9, <1>13, <1>15 DEF CredInv, SeenIsCurrent, PassNeedsOperator

-----------------------------------------------------------------------------
(* What lives on the credentials.                                             *)

\* Who watches is told, and nothing else happens to it.
LEMMA WatchesKeep ==
    ASSUME KcTypeOK, ProxyTypeOK, Watches
    PROVE  KcTypeOK' /\ ProxyTypeOK'
  <1>1. kcQueued' \in BOOLEAN /\ proxyQueued' \in BOOLEAN
    BY DEF Watches, clusterSecretToCluster, proxyWatch
  <1>2. UNCHANGED <<watched, kubeconfig, oidc>>
        /\ UNCHANGED <<installed, exposed, table, writer, read, readers, request>>
    BY DEF Watches, clusterSecretToCluster, proxyWatch
  <1>3. KcTypeOK'
    BY <1>1, <1>2 DEF KcTypeOK
  <1>4. ProxyTypeOK'
    BY <1>1, <1>2 DEF ProxyTypeOK
  <1>5. QED
    BY <1>3, <1>4

\* A pass of the ClusterKubeconfig controller.
LEMMA KubeconfigKeeps ==
    ASSUME CredTypeOK, KcTypeOK, mishaps \in 0..MaxMishaps, ReconcileKubeconfig
    PROVE  KcTypeOK' /\ mishaps' \in 0..MaxMishaps
  <1> DEFINE KC == [exists : BOOLEAN, ca : -1..1, client : {"none", "org", "own"},
                    failed : Conditions, ready : Conditions]
  <1>1. UNCHANGED <<watched, oidc>>
    BY DEF ReconcileKubeconfig
  <1>2. CASE ~cluster.exists
    BY <1>1, <1>2 DEF ReconcileKubeconfig, KcTypeOK
  <1>3. CASE cluster.exists
    <2>1. PICK early \in BOOLEAN, fails \in BOOLEAN, lost \in BOOLEAN :
             LET k == [kubeconfig EXCEPT !.exists = TRUE]
                 stops == Missing(seen)
                 failed == ~stops /\ (early \/ fails)
                 spec == IF stops \/ failed THEN k ELSE Filled(k, seen)
                 status == PatchStatus([spec EXCEPT !.failed = Cond(stops \/ failed)])
             IN  /\ early => ~kubeconfig.exists
                 /\ fails /\ lost => FALSE
                 /\ Mishap(fails \/ lost)
                 /\ kubeconfig' = IF lost THEN spec
                                  ELSE [spec EXCEPT !.failed = status.failed, !.ready = status.ready]
                 /\ kcQueued' = (failed \/ (spec # kubeconfig /\ kubeconfig.exists))
      BY <1>3 DEF ReconcileKubeconfig
    <2>2. PICK k : k = [kubeconfig EXCEPT !.exists = TRUE]
      OBVIOUS
    <2>3. k \in KC
      BY <2>2 DEF KcTypeOK
    <2>4. PICK stops : stops = Missing(seen)
      OBVIOUS
    <2>5. PICK failed : failed = (~stops /\ (early \/ fails))
      OBVIOUS
    <2>6. PICK spec : spec = IF stops \/ failed THEN k ELSE Filled(k, seen)
      OBVIOUS
    <2>7. spec \in KC
      <3>1. CASE stops \/ failed
        BY <2>3, <2>6, <3>1
      <3>2. CASE ~(stops \/ failed)
        <4>1. seen.exists /\ getOIDCInfo # "error"
          BY <2>4, <3>2 DEF Missing
        <4>2. PICK ca \in -1..1 : ca = seen.gh.ca
          <5>1. PICK o \in SecretObject : o = seen
            BY <4>1, SecretCases DEF CredTypeOK
          <5>2. o.gh.ca \in {0, 1}
            BY SecretFields
          <5>3. QED
            BY <5>1, <5>2
        <4>3. PICK client \in {"none", "org", "own"} : client = getOIDCInfo
          BY <4>1 DEF getOIDCInfo
        <4>4. spec = [k EXCEPT !.ca = ca, !.client = client]
          BY <2>6, <3>2, <4>2, <4>3 DEF Filled
        <4>5. QED
          BY <2>3, <4>4
      <3>3. QED
        BY <3>1, <3>2
    <2>8. PICK cond \in Conditions : cond = Cond(stops \/ failed)
      BY DEF Cond, Conditions
    <2>9. PICK m : m = [spec EXCEPT !.failed = cond]
      OBVIOUS
    <2>10. m \in KC
      BY <2>7, <2>8, <2>9
    <2>11. PICK status : status = PatchStatus(m)
      OBVIOUS
    <2>12. status \in KC
      <3>1. PICK x \in Conditions : x = Cond(m.ca # -1 /\ m.client # "none" /\ m.failed # "True")
        BY DEF Cond, Conditions
      <3>2. PICK new : new = [m EXCEPT !.ready = x]
        OBVIOUS
      <3>3. new \in KC
        BY <2>10, <3>1, <3>2
      <3>4. status = kubeconfig \/ status = new
        BY <2>11, <3>1, <3>2 DEF PatchStatus, calculateKubeconfigStatus
      <3>5. QED
        BY <3>3, <3>4 DEF KcTypeOK
    <2>13. status.failed \in Conditions /\ status.ready \in Conditions
      BY <2>12
    <2>14. PICK z : z = [spec EXCEPT !.failed = status.failed, !.ready = status.ready]
      OBVIOUS
    <2>15. z \in KC
      BY <2>7, <2>13, <2>14
    <2>16. kubeconfig' = spec \/ kubeconfig' = z
      BY <2>1, <2>2, <2>4, <2>5, <2>6, <2>8, <2>9, <2>11, <2>14
    <2>17. kcQueued' \in BOOLEAN
      BY <2>1
    <2>18. mishaps' \in 0..MaxMishaps
      BY <2>1, MishapBound
    <2>19. QED
      BY <1>1, <2>7, <2>15, <2>16, <2>17, <2>18 DEF KcTypeOK
  <1>4. QED
    BY <1>2, <1>3

\* A pass of the controller in the proxy.
LEMMA ProxyKeeps ==
    ASSUME CredTypeOK, ProxyTypeOK, mishaps \in 0..MaxMishaps,
           ProxyReconcile \/ (ProxyStart /\ UNCHANGED mishaps)
    PROVE  ProxyTypeOK' /\ mishaps' \in 0..MaxMishaps
  <1>1. CASE ProxyStart /\ UNCHANGED mishaps
    BY <1>1 DEF ProxyStart, ProxyTypeOK, CredTypeOK
  <1>2. CASE ProxyReconcile
    <2>1. PICK fails \in BOOLEAN :
            /\ Mishap(fails)
            /\ proxyQueued' = (proxyQueued \/ fails)
            /\ table' = IF fails THEN table
                        ELSE IF ~read.exists THEN NoEntry
                        ELSE [transport |-> read, routes |-> pluginsForCluster]
      BY <1>2 DEF ProxyReconcile
    <2>2. mishaps' \in 0..MaxMishaps
      BY <2>1, MishapBound
    <2>3. PICK t : t = table'
      OBVIOUS
    <2>4. t \in [transport : Secrets, routes : SUBSET Services]
      <3>1. NoEntry \in [transport : Secrets, routes : SUBSET Services]
        BY DEF NoEntry, Secrets
      <3>2. PICK rs \in SUBSET Services : rs = pluginsForCluster
        BY DEF pluginsForCluster
      <3>3. [transport |-> read, routes |-> rs] \in [transport : Secrets, routes : SUBSET Services]
        BY DEF ProxyTypeOK
      <3>4. QED
        BY <2>1, <2>3, <3>1, <3>2, <3>3 DEF ProxyTypeOK
    <2>5. proxyQueued' \in BOOLEAN
      BY <2>1
    <2>6. writer' = "free" /\ read' \in Secrets /\ UNCHANGED <<installed, exposed, readers, request>>
      BY <1>2 DEF ProxyReconcile, Secrets
    <2>7. QED
      BY <2>2, <2>3, <2>4, <2>5, <2>6 DEF ProxyTypeOK
  <1>3. QED
    BY <1>1, <1>2

\* A request arrives, is served, and services come and go.
LEMMA RequestsKeep ==
    ASSUME ProxyTypeOK, NEW r \in Requests, NEW s \in Services,
           Serve(r) \/ Arrive(r, s) \/ (\E new \in {"none", "live", "deleting"} : Expose(s, new))
    PROVE  ProxyTypeOK'
  <1> DEFINE Sent == [at : {"arrived", "rewritten", "sending", "answered", "refused"},
                      service : Services]
  <1>1. CASE Arrive(r, s)
    <2>1. [at |-> "arrived", service |-> s] \in Sent
      OBVIOUS
    <2>2. QED
      BY <1>1, <2>1 DEF Arrive, ProxyTypeOK
  <1>2. CASE \E new \in {"none", "live", "deleting"} : Expose(s, new)
    BY <1>2 DEF Expose, ProxyTypeOK
  <1>3. CASE Serve(r)
    <2>1. request[r].at # "none"
      BY <1>3 DEF Serve, rewrite, RoundTrip, UpstreamAnswers
    <2>2. PICK q \in Sent : q = request[r]
      BY <2>1 DEF ProxyTypeOK, NoRequest
    <2>3. \A at \in {"rewritten", "sending", "answered", "refused"} : [q EXCEPT !.at = at] \in Sent
      OBVIOUS
    <2>4. /\ \E at \in {"rewritten", "sending", "answered", "refused"} :
                request' = [request EXCEPT ![r] = [q EXCEPT !.at = at]]
          /\ readers' \subseteq Requests
          /\ UNCHANGED <<installed, exposed, proxyQueued, table, writer, read>>
      <3>1. CASE rewrite(r)
        BY <2>2, <3>1 DEF rewrite, GetClusterRoute, ProxyTypeOK
      <3>2. CASE RoundTrip(r)
        BY <2>2, <3>2 DEF RoundTrip, ProxyTypeOK
      <3>3. CASE UpstreamAnswers(r)
        BY <2>2, <3>3 DEF UpstreamAnswers, ProxyTypeOK
      <3>4. QED
        BY <1>3, <3>1, <3>2, <3>3 DEF Serve
    <2>5. PICK x \in Sent : request' = [request EXCEPT ![r] = x]
      BY <2>3, <2>4
    <2>6. request' \in [Requests -> {NoRequest} \cup Sent]
      BY <2>5 DEF ProxyTypeOK
    <2>7. QED
      BY <2>4, <2>6 DEF ProxyTypeOK
  <1>4. QED
    BY <1>1, <1>2, <1>3

-----------------------------------------------------------------------------
(* The composition.                                                           *)

\* Both kinds of Secrets, and each of the set-ups.
LEMMA AccessInit == Init => AccessInv
  <1> SUFFICES ASSUME Init PROVE AccessInv
    OBVIOUS
  <1> USE TokenAssumption
  <1>1. NoConfig \in Configs /\ NoConfig.ttl = -1
    BY DEF NoConfig, Configs
  <1>2. PICK n \in SecretObject : n = NewSecret /\ n.gh.ttl = -1
    <2>1. NewSecret \in SecretObject
      BY <1>1 DEF NewSecret, SecretObject
    <2>2. NewSecret.gh = NoConfig
      BY DEF NewSecret
    <2>3. QED
      BY <1>1, <2>1, <2>2
  <1>3. PICK c : c = Config(MaxTokenValidity, 0)
    OBVIOUS
  <1>4. c \in Configs /\ c.ttl >= Due(c)
    <2>1. MaxTokenValidity \in 1..MaxTokenValidity
      OBVIOUS
    <2>2. QED
      BY <1>3, <2>1, IssuedFacts
  <1>5. PICK o : o = [n EXCEPT !.gh = c, !.generated = TRUE, !.owner = TRUE]
    OBVIOUS
  <1>6. o \in SecretObject /\ o.gh.ttl >= Due(o.gh)
    BY <1>4, <1>5 DEF SecretObject
  <1>7. \/ CredInit(n, "nil", FALSE) /\ KcInit(FALSE) /\ ProxyInit({})
        \/ CredInit(o, "True", TRUE) /\ KcInit(TRUE) /\ ProxyInit({})
        \/ CredInit(o, "True", TRUE) /\ KcInit(FALSE) /\ ProxyInit(Services)
    BY <1>2, <1>3, <1>5 DEF Init, SetUp
  <1>8. KcTypeOK
    <2>1. PICK runs \in BOOLEAN : KcInit(runs)
      BY <1>7
    <2>2. NoKubeconfig \in [exists : BOOLEAN, ca : -1..1, client : {"none", "org", "own"},
                           failed : Conditions, ready : Conditions]
      BY DEF NoKubeconfig, Conditions
    <2>3. QED
      BY <2>1, <2>2 DEF KcInit, KcTypeOK
  <1>9. ProxyTypeOK
    <2>1. PICK some : ProxyInit(some)
      BY <1>7
    <2>2. NoEntry \in [transport : Secrets, routes : SUBSET Services]
      BY DEF NoEntry, Secrets
    <2>3. installed \in BOOLEAN /\ proxyQueued \in BOOLEAN
      BY <2>1 DEF ProxyInit
    <2>4. read \in Secrets
      BY <2>1 DEF ProxyInit, Secrets
    <2>5. QED
      BY <2>1, <2>2, <2>3, <2>4 DEF ProxyInit, ProxyTypeOK
  <1>10. PICK s \in SecretObject, x \in {"nil", "True"}, m \in BOOLEAN :
            CredInit(s, x, m) /\ (s.gh.ttl = -1 \/ s.gh.ttl >= Due(s.gh))
    BY <1>2, <1>6, <1>7
  <1>11. CredTypeOK
    <2>1. s \in Secrets /\ kind \in {"kubeconfig", "oidc"}
      BY SecretFields DEF Init
    <2>2. Worker(TRUE) \in [ready : BOOLEAN, worker : BOOLEAN]
      BY DEF Worker
    <2>3. remote \in [up : BOOLEAN, managed : BOOLEAN, ca : {0, 1},
                      nodes : SUBSET [ready : BOOLEAN, worker : BOOLEAN]]
      BY <1>10, <2>2 DEF CredInit
    <2>4. cluster \in [ready : Conditions, valid : Conditions, payload : Conditions,
                       exists : BOOLEAN, exp : 0..MaxTokenValidity]
      BY <1>10 DEF CredInit, Conditions
    <2>5. unseen \in BOOLEAN /\ bootQueued \in BOOLEAN /\ running \in BOOLEAN
      BY <1>10 DEF CredInit
    <2>9. clusterQueue \in {"none", "now", "retry"} /\ lag \in 0..RenewAfter
      BY <1>10 DEF CredInit
    <2>6. clusterPass \in {NoPass} \cup {p \in Passes : p.at # "status" => p.secret.exists}
      BY <1>10 DEF CredInit
    <2>7. secret \in Secrets /\ seen \in Secrets
      BY <1>10, <2>1 DEF CredInit
    <2>8. QED
      BY <2>1, <2>3, <2>4, <2>5, <2>6, <2>7, <2>9 DEF CredTypeOK
  <1>12. AgeIsLag /\ NotDue
    <2>1. s.gh.ttl \in Int /\ Due(s.gh) \in Nat
      BY SecretFields, TtlType
    <2>2. QED
      BY <1>10, <2>1 DEF CredInit, AgeIsLag, NotDue
  <1>13. SeenIsCurrent /\ PassNeedsOperator
    BY <1>10 DEF CredInit, SeenIsCurrent, PassNeedsOperator
  <1>14. edits \in 0..MaxEdits /\ mishaps \in 0..MaxMishaps
    BY EditsAssumption, MishapsAssumption DEF Init
  <1>15. QED
    BY <1>8, <1>9, <1>11, <1>12, <1>13, <1>14 DEF AccessInv, CredInv

\* A step that leaves the credentials alone.
LEMMA CredUnchanged ==
    ASSUME CredInv, UNCHANGED credVars, mishaps' \in 0..MaxMishaps
    PROVE  CredInv' /\ CredTypeOK
  BY DEF CredInv, credVars, CredTypeOK, AgeIsLag, NotDue, Due, SeenIsCurrent, PassNeedsOperator

\* An edit.
LEMMA EditKeeps ==
    ASSUME AccessInv, Edit
    PROVE  AccessInv'
  <1>1. edits' \in 0..MaxEdits
    BY EditsAssumption DEF Edit, AccessInv
  <1>2. ASSUME RemoteChanges \/ FollowPlaybook \/ KubeConfigExpires \/ RotateCA
               \/ DeleteSecret \/ BootstrapCommand, Watches
        PROVE  AccessInv'
    BY <1>1, <1>2, RemoteKeeps, UsersKeep, CommandKeeps, WatchesKeep DEF AccessInv
  <1>3. ASSUME NEW new \in {[oidc EXCEPT !.org = ~@]} \cup
                              {[oidc EXCEPT !.override = o] : o \in {"own", "broken"}},
               EditOIDC(new), UNCHANGED <<credVars, proxyVars, mishaps>>
        PROVE  AccessInv'
    <2>1. new \in [org : BOOLEAN, override : {"none", "own", "broken"}]
      BY DEF AccessInv, KcTypeOK
    <2>2. KcTypeOK'
      BY <1>3, <2>1 DEF EditOIDC, AccessInv, KcTypeOK
    <2>3. CredInv' /\ ProxyTypeOK'
      BY <1>3, CredUnchanged DEF AccessInv, CredInv, proxyVars, ProxyTypeOK
    <2>4. QED
      BY <1>1, <2>2, <2>3 DEF AccessInv
  <1>4. ASSUME NEW s \in Services, NEW new \in {"none", "live", "deleting"}, Expose(s, new),
               UNCHANGED <<credVars, kcVars, mishaps>>
        PROVE  AccessInv'
    <2>1. CredInv' /\ KcTypeOK'
      BY <1>4, CredUnchanged DEF AccessInv, CredInv, kcVars, KcTypeOK
    <2>2. ProxyTypeOK'
      BY <1>4 DEF AccessInv, Expose, ProxyTypeOK
    <2>3. QED
      BY <1>1, <2>1, <2>2 DEF AccessInv
  <1>5. QED
    BY <1>2, <1>3, <1>4 DEF Edit

\* Every step.
LEMMA AccessStep ==
    ASSUME AccessInv, [Next]_vars
    PROVE  AccessInv'
  <1>1. CASE UNCHANGED vars
    BY <1>1, CredUnchanged DEF vars, AccessInv, CredInv, kcVars, KcTypeOK, proxyVars, ProxyTypeOK
  <1>2. ASSUME CredInv', Watches, UNCHANGED edits
        PROVE  AccessInv'
    BY <1>2, WatchesKeep DEF AccessInv
  <1>3. CASE Controllers(Bootstrap)
    BY <1>2, <1>3, BootstrapKeeps DEF Controllers, AccessInv
  <1>4. CASE Controllers(ClusterController)
    BY <1>2, <1>4, ClusterKeeps DEF Controllers, AccessInv
  <1>5. CASE Controllers(DeliverSecret)
    BY <1>2, <1>5, DeliverKeeps DEF Controllers, AccessInv
  <1>6. CASE Controllers(StartOperator) \/ Controllers(StopOperator)
    BY <1>2, <1>6, RestartKeeps DEF Controllers, AccessInv
  <1>7. CASE Kubeconfigs
    <2>1. KcTypeOK' /\ mishaps' \in 0..MaxMishaps
      BY <1>7, KubeconfigKeeps DEF Kubeconfigs, AccessInv, CredInv
    <2>2. QED
      BY <1>7, <2>1, CredUnchanged DEF Kubeconfigs, AccessInv, proxyVars, ProxyTypeOK
  <1>8. CASE Proxy
    <2>1. ProxyTypeOK' /\ mishaps' \in 0..MaxMishaps
      BY <1>8, ProxyKeeps DEF Proxy, AccessInv, CredInv
    <2>2. QED
      BY <1>8, <2>1, CredUnchanged DEF Proxy, AccessInv, kcVars, KcTypeOK
  <1>9. ASSUME ProxyTypeOK', UNCHANGED <<credVars, kcVars, mishaps, edits>>
        PROVE  AccessInv'
    BY <1>9, CredUnchanged DEF AccessInv, CredInv, kcVars, KcTypeOK
  <1>10. ASSUME NEW r \in Requests, Serving(Serve(r))
         PROVE  AccessInv'
    <2>1. request[r].at # "none"
      BY <1>10 DEF Serving, Serve, rewrite, RoundTrip, UpstreamAnswers
    <2>2. PICK s \in Services : TRUE
      BY <2>1 DEF AccessInv, ProxyTypeOK, NoRequest
    <2>3. QED
      BY <1>9, <1>10, <2>2, RequestsKeep DEF Serving, AccessInv
  <1>11. ASSUME NEW r \in Requests, NEW s \in Services, Serving(Arrive(r, s))
         PROVE  AccessInv'
    BY <1>9, <1>11, RequestsKeep DEF Serving, AccessInv
  <1>12. CASE Tick
    <2>1. CredInv'
      BY <1>12, TimeKeeps DEF Tick, AccessInv
    <2>2. table.transport \in Secrets /\ read \in Secrets
      BY DEF AccessInv, ProxyTypeOK
    <2>3. PICK a \in Secrets : a = AgedSecret(table.transport)
      BY <2>2, AgedFacts
    <2>4. table' = [table EXCEPT !.transport = a]
      BY <1>12, <2>3 DEF Tick
    <2>5. table' \in [transport : Secrets, routes : SUBSET Services]
      BY <2>4 DEF AccessInv, ProxyTypeOK
    <2>6. /\ UNCHANGED <<kcVars, installed, exposed, proxyQueued, writer, readers, request, edits>>
          /\ read' \in Secrets
      BY <1>12, <2>2, AgedFacts DEF Tick
    <2>7. QED
      BY <2>1, <2>5, <2>6 DEF AccessInv, ProxyTypeOK, kcVars, KcTypeOK
  <1>13. CASE Edit
    BY <1>13, EditKeeps
  <1>14. QED
    BY <1>1, <1>3, <1>4, <1>5, <1>6, <1>7, <1>8, <1>10, <1>11, <1>12, <1>13 DEF Next

\* The token of a cluster expires only if, for as long as it is renewed ahead of time or,
\* if it was issued for less, for all of its life, the operator or the cluster was away
\* (cluster_controller.go:215-276, token.go:88-130):
\* for every validity of tokens and threshold of renewal, whatever outdated versions of
\* the Secret the passes have read, and whoever has written to it in between.
THEOREM CredentialsAreSafe == Spec => []CredentialsSafe
  <1>1. AccessInv => CredentialsSafe
    <2> SUFFICES ASSUME AccessInv PROVE CredentialsSafe
      OBVIOUS
    <2>1. TypeOK
      BY DEF AccessInv, CredInv, TypeOK
    <2>2. TokenOutlives
      BY TtlType DEF AccessInv, CredInv, CredTypeOK, AgeIsLag, TokenOutlives
    <2>3. QED
      BY <2>1, <2>2 DEF CredentialsSafe
  <1>2. QED
    BY <1>1, AccessInit, AccessStep, PTL DEF Spec
=============================================================================
