---------------------------- MODULE WebhookProofs ----------------------------
(***************************************************************************)
(* Proofs about what the webhooks guard.                                   *)
(*                                                                         *)
(* Ownership, for every set of Teams and any number of edits and faults:   *)
(* what a pass of the propagation does to labels, that it leaves the       *)
(* Plugin's own labels alone, and that a ServiceAccount is never given     *)
(* access to what two different Teams own.                                 *)
(*                                                                         *)
(* Admission, for any number of edits: what is stored fits its definition  *)
(* and is admitted again as it is, and a Helm release that its Plugin      *)
(* named stays where it is.  AdmissionInv is the inductive invariant.      *)
(***************************************************************************)
EXTENDS Ownership, Admission, FiniteSetTheorems, TLAPS

\* The values of a key: an owner, some other value, or the key is absent.
Owners == Teams \cup {None, Empty}
LabelValues == Owners \cup {"v"}

\* What users can declare, and what a Plugin can look like.
Source ==
    [labels : [LabelKeys -> LabelValues], annotations : [AnnotationKeys -> LabelValues],
     propagateLabels : SUBSET {"owned-by", "meta/*"}, propagateAnnotations : SUBSET AnnotationKeys]
Destination ==
    [labels : [LabelKeys -> LabelValues], annotations : [AnnotationKeys -> LabelValues],
     applied : [labelKeys : SUBSET {"owned-by", "meta/region"}, annotationKeys : SUBSET AnnotationKeys,
                parses : BOOLEAN]]

Declared(src) == Matching(src.propagateLabels, src.labels)

\* The two ends of the propagation keep their form, and owners are owners.
EndsOK ==
    /\ preset \in Source /\ preset.labels["owned-by"] \in Owners
    /\ plugin \in Destination /\ plugin.labels["owned-by"] \in Owners

\* Tokens name Teams.
ClaimsOK == upstream \subseteq Teams /\ claims \subseteq {"team", "support-group", "upstream"} \X Teams

TeamsOK ==
    teams \in [Teams -> [exists : BOOLEAN, supportGroup : {None, "true", "false"}, other : {FALSE}]]

\* A ServiceAccount that was seen with a Team has that Team for good; so what a request
\* under way and what the grants of the past name is the Team it has now.
OneTeam ==
    /\ account \in Owners /\ seenAccount \in Owners
    /\ seenAccount \in Teams => account = seenAccount
    /\ request.subject = "serviceAccount" => request.supportGroups \cap Teams \subseteq {account}
    /\ granted \subseteq {account} \cap Teams

OwnershipInv == TypeOK /\ EndsOK /\ ClaimsOK /\ TeamsOK /\ OneTeam

-----------------------------------------------------------------------------
(* Propagation. *)

\* Only what somebody may declare matches, and only if it is there.
LEMMA MatchingFacts ==
    ASSUME NEW keys \in SUBSET {"owned-by", "meta/*"}, NEW labels \in [LabelKeys -> LabelValues]
    PROVE  /\ Matching(keys, labels) \subseteq {"owned-by", "meta/region"}
           /\ \A k \in Matching(keys, labels) : labels[k] # None
  BY DEF Matching, LabelKeys, HasPrefix, Wildcards

\* The labels after a pass: what is declared, as it is declared; nothing of what was
\* propagated before and is not declared any more; everything else as it was.  The
\* record names just what is declared.
LEMMA ApplyLabels ==
    ASSUME NEW src \in Source, NEW dst \in Destination
    PROVE  LET new == applyLabels(src.propagateLabels, src.labels, dst)
           IN /\ new.applied = Declared(src)
              /\ new.labels \in [LabelKeys -> LabelValues]
              /\ \A k \in LabelKeys :
                    new.labels[k] = IF k \in Declared(src) THEN src.labels[k]
                                    ELSE IF k \in getAppliedState(dst).labelKeys THEN None
                                    ELSE dst.labels[k]
  <1>1. /\ src.labels \in [LabelKeys -> LabelValues] /\ dst.labels \in [LabelKeys -> LabelValues]
        /\ None \in LabelValues
    BY DEF Source, Destination, LabelValues, Owners
  <1>2. CASE Declared(src) = {}
    BY <1>1, <1>2 DEF applyLabels, containsLabelToPropagate, cleanupTargetLabels, getAppliedState, Declared
  <1>3. CASE Declared(src) # {}
    BY <1>1, <1>3 DEF applyLabels, containsLabelToPropagate, syncTargetLabels, cleanupTargetLabels,
                      getAppliedState, Declared
  <1>4. QED
    BY <1>2, <1>3

\* Annotations stay annotations, and the record names some of them.
LEMMA ApplyAnnotations ==
    ASSUME NEW src \in Source, NEW dst \in Destination
    PROVE  LET new == applyAnnotations(src.propagateAnnotations, src.annotations, dst)
           IN /\ new.applied \in SUBSET AnnotationKeys
              /\ new.annotations \in [AnnotationKeys -> LabelValues]
  <1>1. /\ src.annotations \in [AnnotationKeys -> LabelValues]
        /\ dst.annotations \in [AnnotationKeys -> LabelValues]
        /\ src.propagateAnnotations \in SUBSET AnnotationKeys
        /\ None \in LabelValues
    BY DEF Source, Destination, LabelValues, Owners
  <1>2. CASE ~containsAnnotationToPropagate(src.propagateAnnotations, src.annotations)
    BY <1>1, <1>2 DEF applyAnnotations, cleanupTargetAnnotations
  <1>3. CASE containsAnnotationToPropagate(src.propagateAnnotations, src.annotations)
    BY <1>1, <1>3 DEF applyAnnotations, syncTargetAnnotations
  <1>4. QED
    BY <1>2, <1>3

\* A pass of the propagation (propagation.go:47-300) over any source and any destination:
\* declared labels go over, retracted ones go away, all others stay, and the record is
\* what is declared; so it takes nothing back that did not come this way.  A record that
\* is lost or does not parse says that nothing came.
THEOREM PropagationIsExact ==
    ASSUME NEW src \in Source, NEW dst \in Destination
    PROVE  /\ Apply(src, dst) \in Destination
           /\ Apply(src, dst).applied.labelKeys = Declared(src)
           /\ \A k \in LabelKeys :
                 Apply(src, dst).labels[k] = IF k \in Declared(src) THEN src.labels[k]
                                             ELSE IF k \in getAppliedState(dst).labelKeys THEN None
                                             ELSE dst.labels[k]
  <1> DEFINE l == applyLabels(src.propagateLabels, src.labels, dst)
             a == applyAnnotations(src.propagateAnnotations, src.annotations, dst)
  <1>1. /\ l.applied = Declared(src) /\ l.labels \in [LabelKeys -> LabelValues]
        /\ \A k \in LabelKeys :
              l.labels[k] = IF k \in Declared(src) THEN src.labels[k]
                            ELSE IF k \in getAppliedState(dst).labelKeys THEN None
                            ELSE dst.labels[k]
    BY ApplyLabels
  <1>2. a.applied \in SUBSET AnnotationKeys /\ a.annotations \in [AnnotationKeys -> LabelValues]
    BY ApplyAnnotations
  <1>3. Declared(src) \in SUBSET {"owned-by", "meta/region"}
    BY MatchingFacts DEF Declared, Source
  <1>4. Apply(src, dst) = [dst EXCEPT !.labels = l.labels, !.annotations = a.annotations,
                                      !.applied = [labelKeys |-> l.applied, annotationKeys |-> a.applied,
                                                   parses |-> TRUE]]
    BY DEF Apply, labelKeysToPropagate, annotationKeysToPropagate
  <1> HIDE DEF l, a
  <1>5. PICK new : new = Apply(src, dst)
    OBVIOUS
  <1>6. /\ new.labels = l.labels /\ new.annotations = a.annotations
        /\ new.applied = [labelKeys |-> l.applied, annotationKeys |-> a.applied, parses |-> TRUE]
        /\ new = [labels |-> l.labels, annotations |-> a.annotations,
                  applied |-> [labelKeys |-> l.applied, annotationKeys |-> a.applied, parses |-> TRUE]]
    BY <1>4, <1>5 DEF Destination
  <1>7. new \in Destination
    BY <1>1, <1>2, <1>3, <1>6 DEF Destination
  <1>8. QED
    BY <1>1, <1>5, <1>6, <1>7

\* A second pass changes no label and nothing in the record of labels.
THEOREM PropagationSettles ==
    ASSUME NEW src \in Source, NEW dst \in Destination
    PROVE  /\ Apply(src, Apply(src, dst)).labels = Apply(src, dst).labels
           /\ Apply(src, Apply(src, dst)).applied.labelKeys = Apply(src, dst).applied.labelKeys
  <1> DEFINE d == Apply(src, dst)
             e == Apply(src, d)
  <1>1. /\ d \in Destination /\ d.applied.labelKeys = Declared(src)
        /\ \A k \in LabelKeys : k \in Declared(src) => d.labels[k] = src.labels[k]
    BY PropagationIsExact
  <1> HIDE DEF d
  <1>2. /\ e \in Destination /\ e.applied.labelKeys = Declared(src)
        /\ \A k \in LabelKeys :
              e.labels[k] = IF k \in Declared(src) THEN src.labels[k]
                            ELSE IF k \in getAppliedState(d).labelKeys THEN None
                            ELSE d.labels[k]
    BY <1>1, PropagationIsExact
  <1> HIDE DEF e
  <1>3. \A k \in LabelKeys : e.labels[k] = d.labels[k]
    <2>1. getAppliedState(d).labelKeys \subseteq d.applied.labelKeys
      BY DEF getAppliedState, NoState
    <2>2. QED
      BY <1>1, <1>2, <2>1
  <1>4. d.labels \in [LabelKeys -> LabelValues] /\ e.labels \in [LabelKeys -> LabelValues]
    BY <1>1, <1>2 DEF Destination
  <1>5. QED
    BY <1>1, <1>2, <1>3, <1>4 DEF d, e

-----------------------------------------------------------------------------
(* Who changes what. *)

\* The steps of the authorization webhook change the request, its answer and what was
\* granted, and nothing else.
LEMMA AuthorizeChanges ==
    ASSUME Authorize
    PROVE  UNCHANGED <<teams, preset, plugin, upstream, account, seen, claims, seenAccount, edits, faults>>
  BY DEF Authorize, handleAuthorize, fetchResourceWithOwnership, authorizeAccess, objects

\* Everybody else leaves requests alone.
LEMMA OthersChange ==
    ASSUME [Next]_vars, ~Authorize
    PROVE  UNCHANGED <<request, answer, granted>>
  BY DEF Next, EditPreset, EditPlugin, EditTeam, DeleteTeam, EditMembership, EditServiceAccount,
         ReconcilePreset, Resync, Deliver, DeliverAccount, Refresh, HandleCallback, Identify, requests, vars

\* The bounded counters stay in their bounds.
LEMMA CountersStep ==
    ASSUME edits \in 0..MaxEdits, faults \in 0..MaxFaults, [Next]_vars
    PROVE  edits' \in 0..MaxEdits /\ faults' \in 0..MaxFaults
  <1> USE OwnershipAssumption
  <1>1. \/ Edit /\ faults' = faults
        \/ UNCHANGED <<edits, faults>>
        \/ edits' = edits /\ faults < MaxFaults /\ faults' = faults + 1
    BY AuthorizeChanges
    DEF Next, EditPreset, EditPlugin, EditTeam, DeleteTeam, EditMembership, EditServiceAccount,
        ReconcilePreset, Resync, Deliver, DeliverAccount, Refresh, HandleCallback, Identify, vars
  <1>2. QED
    BY <1>1 DEF Edit

\* Whatever users do to one end and the operator to the other, both keep their form.
LEMMA EndsStep == EndsOK /\ [Next]_vars => EndsOK'
  <1> SUFFICES ASSUME EndsOK, [Next]_vars
               PROVE  EndsOK'
    OBVIOUS
  <1> USE DEF LabelKeys, AnnotationKeys
  <1>1. CASE EditPreset
    <2>1. PICK p \in PresetVariations : preset' = p
      BY <1>1 DEF EditPreset
    <2>2. plugin' = plugin
      BY <1>1 DEF EditPreset
    <2>3. /\ preset.labels \in [LabelKeys -> LabelValues]
          /\ preset.annotations \in [AnnotationKeys -> LabelValues]
          /\ preset.labels["owned-by"] \in Owners
          /\ Owners \subseteq LabelValues /\ {None, Empty, "v"} \subseteq LabelValues
      BY DEF EndsOK, Source, LabelValues, Owners
    <2>4. CASE \E o \in Teams \cup {None, Empty} : p = [preset EXCEPT !.labels["owned-by"] = o]
      BY <2>1, <2>2, <2>3, <2>4 DEF EndsOK, Source, Owners
    <2>5. CASE \E v \in {None, "v"} : p = [preset EXCEPT !.labels["meta/region"] = v]
      BY <2>1, <2>2, <2>3, <2>5 DEF EndsOK, Source
    <2>6. CASE \E v \in {None, Empty, "v"} : p = [preset EXCEPT !.annotations["note"] = v]
      BY <2>1, <2>2, <2>3, <2>6 DEF EndsOK, Source
    <2>7. CASE \E l \in SUBSET {"owned-by", "meta/*"} : p = [preset EXCEPT !.propagateLabels = l]
      BY <2>1, <2>2, <2>3, <2>7 DEF EndsOK, Source
    <2>8. CASE \E l \in SUBSET AnnotationKeys : p = [preset EXCEPT !.propagateAnnotations = l]
      BY <2>1, <2>2, <2>3, <2>8 DEF EndsOK, Source
    <2>9. QED
      BY <2>4, <2>5, <2>6, <2>7, <2>8 DEF PresetVariations
  <1>2. CASE EditPlugin
    <2>1. preset' = preset
      BY <1>2 DEF EditPlugin
    <2>2. /\ plugin.labels \in [LabelKeys -> LabelValues] /\ plugin.labels["owned-by"] \in Owners
          /\ Owners \subseteq LabelValues /\ {None, "v"} \subseteq LabelValues
      BY DEF EndsOK, Destination, LabelValues, Owners
    <2>3. CASE \E o \in Teams \cup {None} : plugin' = [plugin EXCEPT !.labels["owned-by"] = o]
      BY <2>1, <2>2, <2>3 DEF EndsOK, Destination, Owners
    <2>4. CASE \E v \in {None, "v"} : plugin' = [plugin EXCEPT !.labels["own"] = v]
      BY <2>1, <2>2, <2>4 DEF EndsOK, Destination
    <2>5. CASE \E b \in BOOLEAN : plugin' = [plugin EXCEPT !.applied = [NoState EXCEPT !.parses = b]]
      BY <2>1, <2>2, <2>5 DEF EndsOK, Destination, NoState
    <2>6. QED
      BY <1>2, <2>3, <2>4, <2>5 DEF EditPlugin
  <1>3. CASE ReconcilePreset
    <2>1. preset' = preset /\ plugin' = Apply(preset, plugin)
      BY <1>3 DEF ReconcilePreset
    <2>2. /\ preset \in Source /\ plugin \in Destination
          /\ preset.labels["owned-by"] \in Owners /\ plugin.labels["owned-by"] \in Owners
          /\ None \in Owners
      BY DEF EndsOK, Owners
    <2>3. /\ plugin' \in Destination
          /\ plugin'.labels["owned-by"] \in {preset.labels["owned-by"], None, plugin.labels["owned-by"]}
      BY <2>1, <2>2, PropagationIsExact
    <2>4. QED
      BY <2>1, <2>2, <2>3 DEF EndsOK
  <1>4. CASE UNCHANGED <<preset, plugin>>
    BY <1>4 DEF EndsOK
  <1>5. QED
    BY <1>1, <1>2, <1>3, <1>4, AuthorizeChanges
    DEF Next, EditTeam, DeleteTeam, EditMembership, EditServiceAccount, Resync, Deliver, DeliverAccount,
        Refresh, HandleCallback, Identify, objects, vars

\* Teams keep their form: the webhook refuses labels that a Team may not have.
LEMMA TeamsStep == TeamsOK /\ [Next]_vars => TeamsOK'
  <1> SUFFICES ASSUME TeamsOK, [Next]_vars
               PROVE  TeamsOK'
    OBVIOUS
  <1>1. ASSUME NEW t \in Teams, EditTeam(t)
        PROVE  TeamsOK'
    <2>1. PICK g \in {None, "true", "false"}, o \in BOOLEAN :
             o = FALSE /\ teams' = [teams EXCEPT ![t] = [exists |-> TRUE, supportGroup |-> g, other |-> o]]
      BY <1>1 DEF EditTeam, validateGreenhouseLabels
    <2>2. QED
      BY <2>1 DEF TeamsOK
  <1>2. ASSUME NEW t \in Teams, DeleteTeam(t)
        PROVE  TeamsOK'
    BY <1>2 DEF DeleteTeam, TeamsOK
  <1>3. CASE UNCHANGED teams
    BY <1>3 DEF TeamsOK
  <1>4. QED
    BY <1>1, <1>2, <1>3, AuthorizeChanges
    DEF Next, EditPreset, EditPlugin, EditMembership, EditServiceAccount, ReconcilePreset, Resync, Deliver,
        DeliverAccount, Refresh, HandleCallback, Identify, objects, vars

\* The groups of a user and of the token are Teams.
LEMMA ClaimsStep == ClaimsOK /\ [Next]_vars => ClaimsOK'
  <1> SUFFICES ASSUME ClaimsOK, [Next]_vars
               PROVE  ClaimsOK'
    OBVIOUS
  <1>1. ASSUME NEW t \in Teams, EditMembership(t)
        PROVE  ClaimsOK'
    BY <1>1 DEF EditMembership, ClaimsOK
  <1>2. CASE HandleCallback \/ Refresh
    <2>1. /\ getGroups(upstream) \subseteq {"team", "support-group", "upstream"} \X Teams
          /\ {"upstream"} \X upstream \subseteq {"team", "support-group", "upstream"} \X Teams
      BY DEF getGroups, ClaimsOK
    <2>2. QED
      BY <1>2, <2>1 DEF HandleCallback, Refresh, Identify, ClaimsOK, objects
  <1>3. CASE UNCHANGED <<upstream, claims>>
    BY <1>3 DEF ClaimsOK
  <1>4. QED
    BY <1>1, <1>2, <1>3, AuthorizeChanges
    DEF Next, EditPreset, EditPlugin, EditTeam, DeleteTeam, EditServiceAccount, ReconcilePreset, Resync,
        Deliver, DeliverAccount, objects, vars

-----------------------------------------------------------------------------
(* Requests. *)

Request ==
    [subject : Subjects, pc : {"idle", "fetch", "team"},
     supportGroups : SUBSET (Teams \cup {Empty}), ownedBy : Owners]

\* Whoever asks next starts with nothing.
LEMMA IdleIsRequest ==
    ASSUME NEW s \in Subjects
    PROVE  Idle(s) \in Request /\ Idle(s).supportGroups = {}
  BY DEF Idle, Request, Owners

\* An answer is given for the owner that was read, and grants it to a ServiceAccount only
\* if that is the one Team the ServiceAccount came with.
LEMMA AnswerKeeps ==
    ASSUME NEW allowed \in BOOLEAN, Answer(allowed), request \in Request, OneTeam,
           allowed => request.ownedBy \in request.supportGroups \cap Teams,
           UNCHANGED <<account, seenAccount>>
    PROVE  request' \in Request /\ OneTeam'
  <1>1. PICK s \in Subjects : request' = Idle(s)
    BY DEF Answer, Subjects, Subject, Request
  <1>2. request' \in Request /\ request'.supportGroups = {}
    BY <1>1, IdleIsRequest
  <1>3. granted' \subseteq {account} \cap Teams
    BY DEF Answer, OneTeam, Subject
  <1>4. QED
    BY <1>2, <1>3 DEF OneTeam

\* Who may ask comes with Teams or the empty name, a ServiceAccount with the one it was
\* seen with.
LEMMA SupportGroups ==
    ASSUME request \in Request, OneTeam, ClaimsOK
    PROVE  /\ getSupportGroups \subseteq Teams \cup {Empty}
           /\ request.subject = "serviceAccount" => getSupportGroups \cap Teams \subseteq {account}
  <1>1. CASE request.subject = "serviceAccount"
    BY <1>1 DEF getSupportGroups, Subject, OneTeam, Owners
  <1>2. CASE request.subject # "serviceAccount"
    <2>1. \A c \in claims : c[2] \in Teams
      BY DEF ClaimsOK
    <2>2. QED
      BY <1>2, <2>1 DEF getSupportGroups, Subject
  <1>3. QED
    BY <1>1, <1>2

\* The webhook keeps requests in order and grants to one Team only.
LEMMA AuthorizeKeeps ==
    ASSUME request \in Request, OneTeam, ClaimsOK, EndsOK, Authorize
    PROVE  request' \in Request /\ OneTeam'
  <1>u. UNCHANGED <<account, seenAccount>>
    BY AuthorizeChanges
  <1>1. ASSUME Answer(FALSE)
        PROVE  request' \in Request /\ OneTeam'
    BY <1>1, <1>u, AnswerKeeps
  <1>2. CASE handleAuthorize
    <2>1. CASE Answer(FALSE)
      BY <1>1, <2>1
    <2>2. CASE /\ request' = [request EXCEPT !.pc = "fetch", !.supportGroups = getSupportGroups]
               /\ UNCHANGED <<answer, granted>>
      <3>1. PICK gs : gs = getSupportGroups
        OBVIOUS
      <3>2. gs \in SUBSET (Teams \cup {Empty})
            /\ (request.subject = "serviceAccount" => gs \cap Teams \subseteq {account})
        BY <3>1, SupportGroups
      <3>3. request' = [request EXCEPT !.pc = "fetch", !.supportGroups = gs]
        BY <2>2, <3>1
      <3>4. request' \in Request /\ request'.supportGroups = gs /\ request'.subject = request.subject
        BY <3>2, <3>3 DEF Request
      <3>5. QED
        BY <1>u, <2>2, <3>2, <3>4 DEF OneTeam
    <2>3. QED
      BY <1>2, <2>1, <2>2 DEF handleAuthorize
  <1>3. CASE fetchResourceWithOwnership
    <2>1. CASE Answer(FALSE)
      BY <1>1, <2>1
    <2>2. CASE /\ request' = [request EXCEPT !.pc = "team", !.ownedBy = plugin.labels["owned-by"]]
               /\ UNCHANGED <<answer, granted>>
      <3>1. /\ request' \in Request
            /\ request'.supportGroups = request.supportGroups /\ request'.subject = request.subject
        BY <2>2 DEF Request, EndsOK
      <3>2. QED
        BY <1>u, <2>2, <3>1 DEF OneTeam
    <2>3. QED
      BY <1>3, <2>1, <2>2 DEF fetchResourceWithOwnership
  <1>4. CASE authorizeAccess
    <2>1. PICK allowed \in BOOLEAN :
             /\ allowed = (validateTeam(request.ownedBy) /\ request.ownedBy \in request.supportGroups)
             /\ Answer(allowed)
      BY <1>4 DEF authorizeAccess
    <2>2. allowed => request.ownedBy \in request.supportGroups \cap Teams
      BY <2>1 DEF validateTeam
    <2>3. QED
      BY <1>u, <2>1, <2>2, AnswerKeeps
  <1>5. QED
    BY <1>2, <1>3, <1>4 DEF Authorize

\* The steps of everybody else keep requests and what was granted; the one that could
\* make it a second Team's, an edit of the label owned-by of the ServiceAccount, is
\* refused once the label names a Team.
LEMMA OthersKeep ==
    ASSUME request \in Request, OneTeam, [Next]_vars, ~Authorize
    PROVE  request' \in Request /\ OneTeam'
  <1>u. UNCHANGED <<request, answer, granted>>
    BY OthersChange
  <1>1. CASE EditServiceAccount
    <2>1. PICK o \in Owners : validateOwnedByLabelImmutable(account, o) /\ account' = o
      BY <1>1 DEF EditServiceAccount, Owners
    <2>2. account \in Teams => account' = account
      BY <2>1, OwnershipAssumption DEF validateOwnedByLabelImmutable
    <2>3. seenAccount' = seenAccount
      BY <1>1 DEF EditServiceAccount
    <2>4. QED
      BY <1>u, <2>1, <2>2, <2>3 DEF OneTeam
  <1>2. CASE DeliverAccount
    BY <1>2, <1>u DEF DeliverAccount, OneTeam, objects
  <1>3. CASE UNCHANGED <<account, seenAccount>>
    BY <1>3, <1>u DEF OneTeam
  <1>4. QED
    BY <1>u, <1>1, <1>2, <1>3
    DEF Next, EditPreset, EditPlugin, EditTeam, DeleteTeam, EditMembership, ReconcilePreset, Resync, Deliver,
        Refresh, HandleCallback, Identify, objects, vars

-----------------------------------------------------------------------------
(* The invariant and what follows. *)

\* TypeOK is what the parts of the invariant say about types.
LEMMA TypeParts ==
    TypeOK <=> /\ \A t \in Teams : teams[t].supportGroup \in {None, "true", "false"} /\ ~teams[t].other
               /\ plugin.applied.labelKeys \subseteq {"owned-by", "meta/region"}
               /\ plugin.applied.annotationKeys \subseteq AnnotationKeys
               /\ request \in Request
               /\ edits \in 0..MaxEdits /\ faults \in 0..MaxFaults
  BY DEF TypeOK, Request, Owners

\* Every step keeps the invariant.
LEMMA OwnershipStep == OwnershipInv /\ [Next]_vars => OwnershipInv'
  <1> SUFFICES ASSUME OwnershipInv, [Next]_vars
               PROVE  OwnershipInv'
    OBVIOUS
  <1>1. EndsOK' /\ ClaimsOK' /\ TeamsOK'
    BY EndsStep, ClaimsStep, TeamsStep DEF OwnershipInv
  <1>2. request \in Request /\ edits \in 0..MaxEdits /\ faults \in 0..MaxFaults
    BY TypeParts DEF OwnershipInv
  <1>3. request' \in Request /\ OneTeam'
    BY <1>2, AuthorizeKeeps, OthersKeep DEF OwnershipInv
  <1>4. edits' \in 0..MaxEdits /\ faults' \in 0..MaxFaults
    BY <1>2, CountersStep
  <1>5. TypeOK'
    BY <1>1, <1>3, <1>4 DEF TypeOK, EndsOK, Destination, TeamsOK, Request, Owners
  <1>6. QED
    BY <1>1, <1>3, <1>5 DEF OwnershipInv

\* The invariant holds initially.
LEMMA OwnershipInit == Init => OwnershipInv
  <1> SUFFICES ASSUME Init PROVE OwnershipInv
    OBVIOUS
  <1> USE OwnershipAssumption
  <1>1. First \in Teams /\ First \in Owners /\ None \in Owners
    BY DEF First, Owners
  <1>2. TeamsOK /\ ClaimsOK
    BY <1>1 DEF Init, TeamsOK, ClaimsOK
  <1>3. EndsOK
    <2>1. PICK o \in {First, None} :
             /\ preset = [labels |-> [k \in LabelKeys |-> IF k = "owned-by" THEN o ELSE "v"],
                          annotations |-> [k \in AnnotationKeys |-> "v"],
                          propagateLabels |-> {"owned-by", "meta/*"},
                          propagateAnnotations |-> AnnotationKeys]
             /\ plugin = Apply(preset, [labels |-> [k \in LabelKeys |-> None],
                                        annotations |-> [k \in AnnotationKeys |-> None],
                                        applied |-> NoState])
      BY DEF Init
    <2>2. PICK ls : ls = [k \in LabelKeys |-> IF k = "owned-by" THEN o ELSE "v"]
      OBVIOUS
    <2>3. ls \in [LabelKeys -> LabelValues] /\ ls["owned-by"] = o
      BY <1>1, <2>2 DEF LabelKeys, LabelValues
    <2>4. preset \in Source /\ preset.labels["owned-by"] = o
      BY <2>1, <2>2, <2>3 DEF Source, LabelValues
    <2>5. PICK new : new = [labels |-> [k \in LabelKeys |-> None],
                            annotations |-> [k \in AnnotationKeys |-> None],
                            applied |-> NoState]
      OBVIOUS
    <2>6. new \in Destination /\ new.labels["owned-by"] = None
      BY <2>5 DEF Destination, NoState, LabelValues, Owners, LabelKeys
    <2>7. plugin = Apply(preset, new)
      BY <2>1, <2>5
    <2>8. plugin \in Destination /\ plugin.labels["owned-by"] \in {o, None}
      BY <2>4, <2>6, <2>7, PropagationIsExact DEF LabelKeys
    <2>9. QED
      BY <1>1, <2>4, <2>8 DEF EndsOK
  <1>4. OneTeam /\ request \in Request
    <2>1. request = Idle("user") /\ "user" \in Subjects
      BY DEF Init, Subjects
    <2>2. request \in Request /\ request.supportGroups = {}
      BY <2>1, IdleIsRequest
    <2>3. QED
      BY <1>1, <2>2 DEF Init, OneTeam
  <1>5. TypeOK
    <2>1. edits \in 0..MaxEdits /\ faults \in 0..MaxFaults
      BY DEF Init
    <2>2. plugin \in Destination
      BY <1>3 DEF EndsOK
    <2>3. QED
      BY <1>2, <1>4, <2>1, <2>2 DEF TypeOK, Destination, TeamsOK, Request, Owners
  <1>6. QED
    BY <1>2, <1>3, <1>4, <1>5 DEF OwnershipInv

\* A ServiceAccount serves one Team: whichever labels of Plugins, PluginPresets, Teams and
\* of the ServiceAccount itself are edited between its requests and while they are under
\* way, and however old the webhook's cache is, what it was ever given access to belongs
\* to one Team.
THEOREM OwnershipIsSafe == Spec => []OwnershipSafe
  <1>1. OwnershipInv => OwnershipSafe
    <2>1. granted \subseteq {account} => granted = {} \/ granted = {account}
      OBVIOUS
    <2>2. Cardinality({}) = 0 /\ Cardinality({account}) = 1
      BY FS_EmptySet, FS_Singleton
    <2>3. QED
      BY <2>1, <2>2 DEF OwnershipInv, OneTeam, OwnershipSafe, ServiceAccountKeepsTeam
  <1>2. QED
    BY <1>1, OwnershipInit, OwnershipStep, PTL DEF Spec

\* What a PluginPreset does not propagate changes only with an edit of the Plugin, through
\* any sequence of declarations, retractions and passes.
THEOREM OwnLabelsStay == Spec => ForeignKept
  <1>1. ASSUME OwnershipInv, [Next]_vars
        PROVE  [plugin'.labels["own"] # plugin.labels["own"] => edits' # edits]_vars
    <2>1. CASE ReconcilePreset
      <3>1. preset \in Source /\ plugin \in Destination /\ plugin' = Apply(preset, plugin)
        BY <1>1, <2>1 DEF ReconcilePreset, OwnershipInv, EndsOK
      <3>2. "own" \notin Declared(preset) /\ "own" \notin getAppliedState(plugin).labelKeys
        BY <3>1, MatchingFacts DEF Declared, Source, Destination, getAppliedState, NoState
      <3>3. plugin'.labels["own"] = plugin.labels["own"]
        BY <3>1, <3>2, PropagationIsExact DEF LabelKeys
      <3>4. QED
        BY <3>3
    <2>2. CASE EditPlugin
      BY <1>1, <2>2, OwnershipAssumption DEF EditPlugin, Edit, OwnershipInv, TypeOK
    <2>3. CASE UNCHANGED plugin
      BY <2>3
    <2>4. QED
      BY <1>1, <2>1, <2>2, <2>3, AuthorizeChanges
      DEF Next, EditPreset, EditTeam, DeleteTeam, EditMembership, EditServiceAccount, Resync, Deliver,
          DeliverAccount, Refresh, HandleCallback, Identify, objects, vars
  <1>2. QED
    BY <1>1, OwnershipInit, OwnershipStep, PTL DEF Spec, ForeignKept

-----------------------------------------------------------------------------
(* Admission. *)

\* The forms of what definitions, Plugins and PluginPresets hold.
Kinds == {"", "PluginDefinition", "ClusterPluginDefinition"}
Names == {"", "alerts", "logs"}
DefinitionForms ==
    [exists : BOOLEAN, version : BOOLEAN, chart : BOOLEAN, ui : BOOLEAN, option : Options]
EntryForms ==
    [value : Strings \cup {"number", Nil, "absent"},
     from : {Nil, "secret", "secretWithoutKey", "ref"}, expression : BOOLEAN]
EntryRecords == {e \in EntryForms : e.value = "absent" => e = NoEntry}
PluginForms ==
    [exists : BOOLEAN, deleting : BOOLEAN, kind : Kinds, name : Names, cluster : {"", "c1", "gone"},
     releaseName : {"", "own", "own2", "Bad_Name", PluginName, ChartName},
     releaseNamespace : {"", Organization, "other"}, waitFor : WaitFors, entry : EntryRecords,
     label : {<<>>} \cup (Kinds \X Names)]
PresetForms ==
    [exists : BOOLEAN, kind : Kinds, name : Names, selects : BOOLEAN,
     releaseName : {"", "own", "own2", "Bad_Name"}, releaseNamespace : {"", "other"},
     waitFor : WaitFors, entry : EntryRecords]

FormsOK ==
    /\ defs \in [Definitions -> DefinitionForms] /\ asOf \in DefinitionForms
    /\ seenDefs \in [Definitions -> DefinitionForms] /\ \A r \in Definitions : seenDefs[r].version
    /\ storedPlugin \in PluginForms
    /\ storedPreset \in PresetForms
    /\ hasStatus \in BOOLEAN /\ release.named \in BOOLEAN

\* What a Plugin that was admitted under a definition has for good, as long as nobody
\* changes it: all that an update that changes nothing is asked for.
Fits(p, d) ==
    /\ d.exists
    /\ p.kind # "" /\ p.label = RefOf(p) /\ p.label \in Definitions
    /\ validateWaitForPluginRefs(p.waitFor, p.cluster = "")
    /\ p.releaseName # "Bad_Name"
    /\ ~(d.ui /\ ~d.chart) => p.releaseName # "" /\ p.releaseNamespace # ""
    /\ MergePluginAndPluginOptionValueSlice(d.option, p.entry) = p.entry
    /\ validatePluginOptionValues(d.option, p.entry, TRUE)

\* What is deployed has a Plugin, and a release that the Plugin named is where it says.
InPlace ==
    /\ release # NoRelease \/ hasStatus => storedPlugin.exists
    /\ release.named =>
          /\ storedPlugin.releaseName = release.name /\ release.name # ""
          /\ storedPlugin.releaseNamespace = release.namespace /\ release.namespace # ""
          /\ storedPlugin.cluster = release.cluster

AdmissionInv ==
    /\ WellFormed /\ FormsOK
    /\ storedPlugin.exists => asOf = NoDefinition \/ Fits(storedPlugin, asOf)
    /\ InPlace

\* Defaulting the option twice is defaulting it once.
LEMMA MergeTwice ==
    ASSUME NEW o \in Options, NEW e \in EntryRecords
    PROVE  /\ MergePluginAndPluginOptionValueSlice(o, e) \in EntryRecords
           /\ MergePluginAndPluginOptionValueSlice(o, MergePluginAndPluginOptionValueSlice(o, e)) =
                 MergePluginAndPluginOptionValueSlice(o, e)
<1> DEFINE M(x) == MergePluginAndPluginOptionValueSlice(o, x)
<1>1. o.default \in Strings \cup {"number", Nil}
  BY DEF Options, NoOption, Nil, Strings
<1>2. \A v \in Strings \cup {"number", Nil} :
         Plain(v) \in EntryRecords /\ Plain(v) # NoEntry /\ Plain(v).value = v
  BY DEF EntryRecords, EntryForms, Plain, Unset, NoEntry, Nil, Strings
<1>3. \A v, w \in Strings \cup {"number", Nil} : [Plain(v) EXCEPT !.value = w] = Plain(w)
  BY DEF Plain, Unset
<1>4. e # NoEntry => e.value \in Strings \cup {"number", Nil}
  BY DEF EntryRecords, EntryForms
<1>5. CASE o.default = Nil
  BY <1>5 DEF MergePluginAndPluginOptionValueSlice
<1>6. CASE o.default # Nil /\ e = NoEntry
  <2>1. M(e) = Plain(o.default)
    BY <1>6 DEF MergePluginAndPluginOptionValueSlice
  <2>2. M(Plain(o.default)) = Plain(o.default)
    BY <1>1, <1>2, <1>3, <1>6 DEF MergePluginAndPluginOptionValueSlice, setOrAppendNameValue
  <2> QED
    BY <1>1, <1>2, <2>1, <2>2
<1>7. CASE o.default # Nil /\ e # NoEntry
  <2>1. M(e) = Plain(e.value)
    BY <1>1, <1>2, <1>3, <1>4, <1>7 DEF MergePluginAndPluginOptionValueSlice, setOrAppendNameValue
  <2>2. M(Plain(e.value)) = Plain(e.value)
    BY <1>1, <1>2, <1>3, <1>4, <1>7 DEF MergePluginAndPluginOptionValueSlice, setOrAppendNameValue
  <2> QED
    BY <1>2, <1>4, <1>7, <2>1, <2>2
<1> QED
  BY <1>5, <1>6, <1>7

\* What the defaulting makes of a request.
Defaulted(p, d, q) ==
    /\ q \in PluginForms
    /\ q.exists = p.exists /\ q.cluster = p.cluster /\ q.waitFor = p.waitFor
    /\ RefOf(q) = RefOf(p) /\ q.kind # "" /\ q.label = RefOf(q)
    /\ q.entry = MergePluginAndPluginOptionValueSlice(d.option, p.entry)
    /\ ~(d.ui /\ ~d.chart) => q.releaseName # "" /\ q.releaseNamespace # ""

\* It keeps the form of a Plugin and fills in what is missing (plugin_webhook.go).
LEMMA DefaultedPlugin ==
    ASSUME NEW p \in PluginForms, NEW d \in DefinitionForms, NEW s,
           RefOf(p) \in Definitions
    PROVE  Defaulted(p, d, DefaultPlugin(p, d, s))
<1> DEFINE q == DefaultPlugin(p, d, s)
<1>1. PICK e \in EntryRecords : e = MergePluginAndPluginOptionValueSlice(d.option, p.entry)
  BY MergeTwice DEF PluginForms, DefinitionForms
<1>2. PICK ref \in Definitions : ref = RefOf(p) /\ ref \in Kinds \X Names /\ ref[1] # ""
          /\ ref[1] \in Kinds /\ ref[2] = p.name /\ ref = <<ref[1], ref[2]>>
  BY DEF Definitions, Kinds, Names, PluginDefinitionKind, ClusterPluginDefinitionKind, RefOf
<1>3. PICK n \in {"", "own", "own2", "Bad_Name", PluginName, ChartName} :
         n = DefaultReleaseName(p, s) /\ n # ""
  BY DEF PluginForms, DefaultReleaseName, PluginName, ChartName
<1>4. q = IF d.ui /\ ~d.chart THEN [p EXCEPT !.kind = ref[1], !.label = ref, !.entry = e]
          ELSE [p EXCEPT !.kind = ref[1], !.label = ref, !.entry = e,
                         !.releaseNamespace = IF p.releaseNamespace = "" THEN Organization
                                              ELSE p.releaseNamespace,
                         !.releaseName = n]
  BY <1>1, <1>2, <1>3 DEF DefaultPlugin, PluginForms, DefinitionLabel
<1> HIDE DEF q
<1>5. q \in PluginForms
  BY <1>1, <1>2, <1>3, <1>4 DEF PluginForms
<1>6. q.exists = p.exists /\ q.cluster = p.cluster /\ q.waitFor = p.waitFor /\ q.entry = e
      /\ q.kind = ref[1] /\ q.name = p.name /\ q.label = ref
  BY <1>4 DEF PluginForms
<1>7. RefOf(q) = ref
  BY <1>6, <1>2 DEF RefOf
<1>8. ~(d.ui /\ ~d.chart) => q.releaseName # "" /\ q.releaseNamespace # ""
  <2> SUFFICES ASSUME ~(d.ui /\ ~d.chart)
               PROVE  q.releaseName # "" /\ q.releaseNamespace # ""
    OBVIOUS
  <2>1. q.releaseName = n /\ q.releaseNamespace = IF p.releaseNamespace = "" THEN Organization
                                                   ELSE p.releaseNamespace
    BY <1>4 DEF PluginForms
  <2> QED
    BY <1>3, <2>1 DEF Organization
<1> QED
  BY <1>1, <1>2, <1>5, <1>6, <1>7, <1>8 DEF q, Defaulted

\* A value that fits has one source.
LEMMA OneSource ==
    ASSUME NEW e, hasExactlyOneValueSource(e)
    PROVE  e \notin {Unset, [Plain("s1") EXCEPT !.from = "secret"]}
<1> DEFINE S == {s \in {"value", "from", "expression"} :
                   CASE s = "value" -> e.value # Nil
                     [] s = "from" -> e.from # Nil
                     [] s = "expression" -> e.expression}
<1>1. Cardinality(S) = 1
  BY DEF hasExactlyOneValueSource
<1> HIDE DEF S
<1>2. ASSUME e = Unset PROVE FALSE
  <2>1. S = {}
    BY <1>2 DEF S, Unset
  <2> QED
    BY <1>1, <2>1, FS_EmptySet
<1>3. ASSUME e = [Plain("s1") EXCEPT !.from = "secret"] PROVE FALSE
  <2>1. e.value = "s1" /\ e.from = "secret" /\ ~e.expression
    BY <1>3 DEF Plain, Unset
  <2>2. S = {"value", "from"}
    BY <2>1 DEF S, Nil
  <2>3. Cardinality({"value"}) = 1 /\ IsFiniteSet({"value"})
    BY FS_Singleton
  <2>4. Cardinality({"value"} \cup {"from"}) = 2
    BY <2>3, FS_AddElement
  <2> QED
    BY <1>1, <2>2, <2>4, {"value"} \cup {"from"} = {"value", "from"}
<1> QED
  BY <1>2, <1>3

\* What is validated after the defaulting fits.
LEMMA AdmittedFits ==
    ASSUME NEW p \in PluginForms, NEW d \in DefinitionForms, NEW s,
           RefOf(p) \in Definitions, d.exists,
           NEW q, q = DefaultPlugin(p, d, s),
           validateReleaseName(q.releaseName),
           validateWaitForPluginRefs(q.waitFor, q.cluster = ""),
           validatePluginOptionValues(d.option, q.entry, TRUE)
    PROVE  Fits(q, d)
<1>1. Defaulted(p, d, q)
  BY DefaultedPlugin
<1>2. d.option \in Options /\ p.entry \in EntryRecords
  BY DEF PluginForms, DefinitionForms
<1>3. MergePluginAndPluginOptionValueSlice(d.option, q.entry) = q.entry
  BY <1>1, <1>2, MergeTwice DEF Defaulted
<1> QED
  BY <1>1, <1>3 DEF Fits, Defaulted, validateReleaseName

\* What fits is admitted again as it is, whether or not the request carries the status.
LEMMA FitsIsAdmitted ==
    ASSUME FormsOK, storedPlugin.exists, Fits(storedPlugin, asOf), asOf = seenDefs[RefOf(storedPlugin)],
           NEW deployed, NEW s
    PROVE  /\ AdmitUpdate(seenDefs, seenDefs, storedPlugin, storedPlugin, deployed, s)
           /\ Admitted(seenDefs, storedPlugin, s) = storedPlugin
<1>1. Admitted(seenDefs, storedPlugin, s) = storedPlugin
  <2> DEFINE d == asOf
             q == [storedPlugin EXCEPT !.kind = RefOf(storedPlugin)[1],
                   !.label = DefinitionLabel(storedPlugin),
                   !.entry = MergePluginAndPluginOptionValueSlice(d.option, storedPlugin.entry)]
  <2>1. q = storedPlugin
    BY DEF FormsOK, PluginForms, Fits, DefinitionLabel, RefOf
  <2>2. CASE d.ui /\ ~d.chart
    BY <2>1, <2>2 DEF Admitted, getPluginDefinitionSpec, DefaultPlugin
  <2>3. CASE ~(d.ui /\ ~d.chart)
    <3>1. storedPlugin.releaseName # "" /\ storedPlugin.releaseNamespace # ""
      BY <2>3 DEF Fits
    <3>2. [storedPlugin EXCEPT !.releaseNamespace = IF storedPlugin.releaseNamespace = "" THEN Organization
                                              ELSE storedPlugin.releaseNamespace,
                         !.releaseName = DefaultReleaseName(storedPlugin, s)] = storedPlugin
      BY <3>1 DEF FormsOK, PluginForms, DefaultReleaseName
    <3> QED
      BY <2>1, <2>3, <3>2 DEF Admitted, getPluginDefinitionSpec, DefaultPlugin
  <2> QED
    BY <2>2, <2>3
<1>2. IsFound(seenDefs, RefOf(storedPlugin))
  BY DEF Fits, IsFound
<1>3. ReleaseNameImmutable(storedPlugin, storedPlugin)
  BY DEF ReleaseNameImmutable
<1>4. ValidateUpdatePlugin(storedPlugin, storedPlugin, asOf, deployed)
  BY DEF Fits, FormsOK, DefinitionForms, ValidateUpdatePlugin, ValidateImmutableField, validateReleaseName
<1> QED
  BY <1>1, <1>2, <1>3, <1>4 DEF AdmitUpdate

\* An option has a type.
LEMMA OptionTypes ==
    ASSUME NEW o \in Options, o # NoOption
    PROVE  o.type \in {"string", "int", "secret"}
BY DEF Options

\* The invariant says what is stored is admissible.
LEMMA InvIsEnough ==
    ASSUME AdmissionInv
    PROVE  StoredIsAdmissible
<1>1. AdmittedAgain
  <2> SUFFICES ASSUME storedPlugin.exists, asOf = seenDefs[RefOf(storedPlugin)]
               PROVE  \A s \in {hasStatus, FALSE} :
                         /\ AdmitUpdate(seenDefs, seenDefs, storedPlugin, storedPlugin, hasStatus, s)
                         /\ Admitted(seenDefs, storedPlugin, s) = storedPlugin
    BY DEF AdmittedAgain
  <2>1. asOf.version
    BY DEF AdmissionInv, WellFormed, FormsOK
  <2>2. Fits(storedPlugin, asOf)
    BY <2>1 DEF AdmissionInv, NoDefinition
  <2> QED
    BY <2>2, FitsIsAdmitted DEF AdmissionInv
<1>2. ValuesFit
  <2> SUFFICES ASSUME storedPlugin.exists, asOf.option # NoOption
               PROVE  /\ storedPlugin.entry = NoEntry => ~asOf.option.required /\ asOf.option.default = Nil
                      /\ storedPlugin.entry # NoEntry =>
                           /\ storedPlugin.entry \notin {Unset, [Plain("s1") EXCEPT !.from = "secret"]}
                           /\ storedPlugin.entry.value = "number" => asOf.option.type = "int"
                           /\ storedPlugin.entry.value \in Strings => asOf.option.type # "int"
                           /\ asOf.option.type = "secret" => storedPlugin.entry.value \in {Nil, "vault"}
    BY DEF ValuesFit
  <2>1. Fits(storedPlugin, asOf) /\ asOf.option \in Options
    BY DEF AdmissionInv, FormsOK, DefinitionForms, NoDefinition
  <2> DEFINE o == asOf.option
             e == storedPlugin.entry
  <2>2. o.type \in {"string", "int", "secret"}
    BY <2>1, OptionTypes
  <2>3. o.default \in Strings \cup {"number", Nil}
    BY <2>1 DEF Options, NoOption, Nil, Strings
  <2>4. CASE e = NoEntry
    <3>1. o.default # Nil => e = Plain(o.default)
      BY <2>1, <2>4 DEF Fits, MergePluginAndPluginOptionValueSlice
    <3>2. o.default = Nil
      BY <3>1, <2>3, <2>4 DEF Plain, NoEntry, Unset, Strings, Nil
    <3>3. ~o.required
      BY <2>1, <2>4 DEF Fits, validatePluginOptionValues
    <3> QED
      BY <2>4, <3>2, <3>3
  <2>5. CASE e # NoEntry
    <3>1. /\ hasExactlyOneValueSource(e)
          /\ IF o.type = "secret"
             THEN e.value # Nil => e.value = "vault"
             ELSE e.value # Nil => IsValidValue(o, e.value)
      BY <2>1, <2>5 DEF Fits, validatePluginOptionValues
    <3>2. e \notin {Unset, [Plain("s1") EXCEPT !.from = "secret"]}
      BY <3>1, OneSource
    <3>3. e.value = "number" => o.type = "int"
      BY <2>2, <3>1 DEF IsValidValue, Strings, Nil
    <3>4. e.value \in Strings => o.type # "int"
      BY <2>2, <3>1 DEF IsValidValue, Strings, Nil
    <3> QED
      BY <2>5, <3>1, <3>2, <3>3, <3>4
  <2> QED
    BY <2>4, <2>5
<1> QED
  BY <1>1, <1>2 DEF AdmissionInv, StoredIsAdmissible

\* The invariant holds at the beginning.
LEMMA AdmissionInvInit == AdmissionInit => AdmissionInv
<1> SUFFICES ASSUME AdmissionInit
             PROVE  AdmissionInv
  OBVIOUS
<1>1. PICK o \in {NoOption, [type |-> "string", default |-> "s1", required |-> TRUE]} :
         defs = [r \in Definitions |-> Definition(o)]
  BY DEF AdmissionInit
<1>2. NoEntry \in EntryRecords
  BY DEF EntryRecords, EntryForms, NoEntry, Unset, Nil
<1>3. o \in Options /\ NoOption \in Options /\ <<>> \in WaitFors
  BY DEF Options, WaitFors
<1>4. Definition(o) \in DefinitionForms /\ NoDefinition \in DefinitionForms
  BY <1>3 DEF Definition, NoDefinition, DefinitionForms
<1>5. validateDefinition(Definition(o))
  <2>1. LET d == Definition(o) IN d.version /\ d.chart /\ d.option = o
    BY DEF Definition
  <2>2. o # NoOption => o.type = "string" /\ o.default = "s1"
    OBVIOUS
  <2>3. o # NoOption => IsValid(o)
    BY <2>2 DEF IsValid, Strings
  <2> QED
    BY <2>1, <2>3
    DEF validateDefinition, validatePluginDefinitionMustSpecifyHelmChartOrUIApplication,
        validatePluginDefinitionMustSpecifyVersion, validatePluginDefinitionOptionValueAndType
<1>6. storedPlugin \in PluginForms /\ ~storedPlugin.exists
  BY <1>2, <1>3 DEF AdmissionInit, NoPlugin, PluginForms, Kinds, Names
<1>7. storedPreset \in PresetForms /\ ~storedPreset.exists
  BY <1>2, <1>3 DEF AdmissionInit, NoPreset, PresetForms, Kinds, Names
<1>8. /\ release.named = FALSE /\ presetQueued = FALSE /\ changes = 0 /\ asOf = NoDefinition
      /\ seenDefs = defs /\ hasStatus = FALSE
  BY DEF AdmissionInit, NoRelease
<1>9. FormsOK
  <2>1. Definition(o).version
    BY DEF Definition
  <2> QED
    BY <1>1, <1>4, <1>6, <1>7, <1>8, <2>1 DEF FormsOK
<1>10. WellFormed
  <2>1. \A r \in Definitions : validateDefinition(defs[r])
    BY <1>1, <1>5
  <2>2. changes \in 0..MaxChanges
    BY <1>8, MaxChangesAssumption
  <2> QED
    BY <1>6, <1>7, <1>8, <2>1, <2>2, Zenon DEF WellFormed
<1> QED
  BY <1>6, <1>8, <1>9, <1>10 DEF AdmissionInv, InPlace, AdmissionInit

\* The cache catches up with the definitions, or stays as it is.
LEMMA Caught ==
    ASSUME AdmissionInv, NEW later \in {seenDefs, defs}
    PROVE  later \in [Definitions -> DefinitionForms] /\ \A r \in Definitions : later[r].version
<1>1. \A r \in Definitions : defs[r].version
  BY DEF AdmissionInv, WellFormed, validateDefinition, validatePluginDefinitionMustSpecifyVersion
<1> QED
  BY <1>1 DEF AdmissionInv, FormsOK

\* Every write of the Plugin: what was admitted fits if both webhooks found the same
\* definition, and the place of a release that the Plugin named is left alone.
LEMMA PluginWritten ==
    ASSUME AdmissionInv, NEW p \in PluginForms, p.exists, NEW s, NEW later \in {seenDefs, defs},
           IsFound(seenDefs, RefOf(p)),
           storedPlugin' = Admitted(seenDefs, p, s), asOf' = Found(RefOf(p), later),
           validateReleaseName(storedPlugin'.releaseName),
           validateWaitForPluginRefs(storedPlugin'.waitFor, storedPlugin'.cluster = ""),
           validatePluginOptionValues(later[RefOf(p)].option, storedPlugin'.entry, TRUE),
           release.named =>
              /\ storedPlugin'.releaseName = release.name
              /\ storedPlugin'.releaseNamespace = release.namespace
              /\ storedPlugin'.cluster = release.cluster,
           UNCHANGED <<defs, hasStatus, storedPreset, release>>, seenDefs' = later,
           presetQueued' \in BOOLEAN, changes' \in 0..MaxChanges
    PROVE  AdmissionInv'
<1> DEFINE d == seenDefs[RefOf(p)]
<1>1. RefOf(p) \in Definitions /\ d \in DefinitionForms /\ d.exists
  BY DEF IsFound, AdmissionInv, FormsOK
<1>2. storedPlugin' = DefaultPlugin(p, d, s)
  BY DEF Admitted, getPluginDefinitionSpec
<1> HIDE DEF d
<1>3. Defaulted(p, d, storedPlugin')
  BY <1>1, <1>2, DefaultedPlugin
<1>4. ASSUME asOf' # NoDefinition
      PROVE  Fits(storedPlugin, asOf)'
  <2>1. later[RefOf(p)] = d /\ asOf' = d
    BY <1>4 DEF Found, d
  <2>2. Fits(storedPlugin', d)
    BY <1>1, <1>2, <2>1, AdmittedFits
  <2>3. Fits(storedPlugin, asOf)'
    BY <2>1, <2>2 DEF Fits
  <2> QED
    BY <2>3
<1>5. asOf' = NoDefinition \/ Fits(storedPlugin, asOf)'
  BY <1>4
<1>6. FormsOK'
  <2>1. NoDefinition \in DefinitionForms
    BY DEF NoDefinition, DefinitionForms, Options
  <2>2. asOf' \in DefinitionForms
    BY <1>1, <2>1 DEF Found, d
  <2> QED
    BY <1>3, <2>2, Caught DEF AdmissionInv, FormsOK, Defaulted
<1>7. WellFormed'
  BY <1>1, <1>3 DEF AdmissionInv, WellFormed, Defaulted
<1>8. InPlace'
  BY <1>3 DEF AdmissionInv, InPlace, Defaulted
<1> QED
  BY <1>5, <1>6, <1>7, <1>8 DEF AdmissionInv

\* The values that users ask for.
LEMMA EntriesAsked == Entries \subseteq EntryRecords
<1>1. NoEntry \in EntryRecords /\ Unset \in EntryRecords /\ Expression \in EntryRecords
  BY DEF EntryRecords, EntryForms, NoEntry, Expression, Unset, Nil
<1>2. \A v \in Strings \cup {"number"} : Plain(v) \in EntryRecords
  BY DEF EntryRecords, EntryForms, Plain, Unset, Nil, Strings
<1>3. \A f \in {"secret", "secretWithoutKey", "ref"} : From(f) \in EntryRecords
  BY DEF EntryRecords, EntryForms, From, Unset, Nil
<1>4. [Plain("s1") EXCEPT !.from = "secret"] \in EntryRecords
  BY DEF EntryRecords, EntryForms, Plain, Unset, Nil, Strings
<1>5. {"s1", "s2", "vault"} \subseteq Strings
  BY DEF Strings
<1> QED
  BY <1>1, <1>2, <1>3, <1>4, <1>5 DEF Entries

\* What users ask for has the form of a Plugin.
LEMMA VariationForms ==
    ASSUME NEW p \in PluginForms, NEW q \in Variations(p)
    PROVE  q \in PluginForms /\ q.exists = p.exists
<1>2. CASE \E e \in Entries : q = [p EXCEPT !.entry = e]
  BY <1>2, EntriesAsked DEF PluginForms
<1>3. CASE \E w \in WaitFors : q = [p EXCEPT !.waitFor = w]
  BY <1>3 DEF PluginForms
<1>4. CASE \E c \in Clusters \cup {"", "gone"} : q = [p EXCEPT !.cluster = c]
  BY <1>4 DEF PluginForms, Clusters
<1>5. CASE \E n \in {"", Organization, "other"} : q = [p EXCEPT !.releaseNamespace = n]
  BY <1>5 DEF PluginForms
<1>6. CASE \E n \in {"", "own", "Bad_Name"} : q = [p EXCEPT !.releaseName = n]
  BY <1>6 DEF PluginForms
<1>7. CASE \E r \in Definitions \cup {<<"", "alerts">>, <<"", "logs">>, <<"", "">>} :
              q = [p EXCEPT !.kind = r[1], !.name = r[2]]
  <2>1. PICK r \in Definitions \cup {<<"", "alerts">>, <<"", "logs">>, <<"", "">>} :
              q = [p EXCEPT !.kind = r[1], !.name = r[2]]
    BY <1>7
  <2>2. PICK k \in Kinds, n \in Names : r = <<k, n>>
    BY DEF Definitions, PluginDefinitionKind, ClusterPluginDefinitionKind, Kinds, Names
  <2> QED
    BY <2>1, <2>2 DEF PluginForms
<1> QED
  BY <1>2, <1>3, <1>4, <1>5, <1>6, <1>7 DEF Variations

\* An update that is admitted.
LEMMA UpdateWritten ==
    ASSUME AdmissionInv, NEW p \in PluginForms, p.exists, NEW deployed, NEW s,
           NEW later \in {seenDefs, defs},
           AdmitUpdate(seenDefs, later, storedPlugin, p, deployed, s),
           storedPlugin' = Admitted(seenDefs, p, s), asOf' = Found(RefOf(p), later),
           UNCHANGED <<defs, hasStatus, storedPreset, release>>, seenDefs' = later,
           presetQueued' \in BOOLEAN, changes' \in 0..MaxChanges
    PROVE  AdmissionInv'
<1>1. /\ IsFound(seenDefs, RefOf(p))
      /\ ReleaseNameImmutable(storedPlugin, storedPlugin')
      /\ ValidateUpdatePlugin(storedPlugin, storedPlugin', later[RefOf(p)], deployed)
  BY DEF AdmitUpdate
<1>2. release.named =>
        /\ storedPlugin'.releaseName = release.name /\ storedPlugin'.releaseNamespace = release.namespace
        /\ storedPlugin'.cluster = release.cluster
  BY <1>1 DEF AdmissionInv, InPlace, ReleaseNameImmutable, ValidateUpdatePlugin, ValidateImmutableField
<1>3. /\ validateReleaseName(storedPlugin'.releaseName)
      /\ validateWaitForPluginRefs(storedPlugin'.waitFor, storedPlugin'.cluster = "")
      /\ validatePluginOptionValues(later[RefOf(p)].option, storedPlugin'.entry, TRUE)
  BY <1>1 DEF ValidateUpdatePlugin
<1> QED
  BY <1>1, <1>2, <1>3, PluginWritten

\* A creation that is admitted.
LEMMA CreateWritten ==
    ASSUME AdmissionInv, ~storedPlugin.exists, NEW p \in PluginForms, p.exists, NEW s,
           NEW later \in {seenDefs, defs},
           AdmitCreate(seenDefs, later, p),
           s = FALSE,
           storedPlugin' = Admitted(seenDefs, p, s), asOf' = Found(RefOf(p), later),
           UNCHANGED <<defs, hasStatus, storedPreset, release>>, seenDefs' = later,
           presetQueued' \in BOOLEAN, changes' \in 0..MaxChanges
    PROVE  AdmissionInv'
<1>1. /\ IsFound(seenDefs, RefOf(p))
      /\ ValidateCreatePlugin(storedPlugin', later[RefOf(p)])
  BY DEF AdmitCreate
<1>2. ~release.named
  <2>1. release = NoRelease
    BY DEF AdmissionInv, InPlace
  <2> QED
    BY <2>1 DEF NoRelease
<1>3. /\ validateReleaseName(storedPlugin'.releaseName)
      /\ validateWaitForPluginRefs(storedPlugin'.waitFor, storedPlugin'.cluster = "")
      /\ validatePluginOptionValues(later[RefOf(p)].option, storedPlugin'.entry, TRUE)
  BY <1>1 DEF ValidateCreatePlugin
<1> QED
  BY <1>1, <1>2, <1>3, PluginWritten

\* Changes are counted.
LEMMA ChangeCounted ==
    ASSUME AdmissionInv, Change
    PROVE  changes' \in 0..MaxChanges
<1>1. changes \in 0..MaxChanges
  BY DEF AdmissionInv, WellFormed
<1> QED
  BY <1>1, MaxChangesAssumption DEF Change

\* Users change a definition: the Plugin fits the one it was admitted under.
LEMMA DefinitionSteps ==
    ASSUME AdmissionInv, NEW r \in Definitions, EditDefinition(r) \/ DeleteDefinition(r)
    PROVE  AdmissionInv'
<1>1. /\ UNCHANGED <<seenDefs, storedPlugin, hasStatus, asOf, storedPreset, release>>
      /\ changes' \in 0..MaxChanges
  BY ChangeCounted DEF EditDefinition, DeleteDefinition
<1>2. presetQueued' \in BOOLEAN
  BY DEF EditDefinition, DeleteDefinition, AdmissionInv, WellFormed
<1>3. /\ defs' \in [Definitions -> DefinitionForms]
      /\ \A x \in Definitions : validateDefinition(defs'[x])
  <2>1. CASE EditDefinition(r)
    <3>1. PICK d \in DefinitionRequests(defs[r]) : validateDefinition(d) /\ defs' = [defs EXCEPT ![r] = d]
      BY <2>1 DEF EditDefinition
    <3>2. d \in DefinitionForms
      <4>1. defs[r] \in DefinitionForms
        BY DEF AdmissionInv, FormsOK
      <4>2. CASE \E o \in Options : d = [defs[r] EXCEPT !.option = o]
        BY <4>1, <4>2 DEF DefinitionForms
      <4>3. CASE \E b \in BOOLEAN \X BOOLEAN : d = [defs[r] EXCEPT !.chart = b[1], !.ui = b[2]]
        BY <4>1, <4>3 DEF DefinitionForms
      <4>4. CASE d = [defs[r] EXCEPT !.version = FALSE]
        BY <4>1, <4>4 DEF DefinitionForms
      <4> QED
        BY <4>2, <4>3, <4>4 DEF DefinitionRequests
    <3> QED
      BY <3>1, <3>2 DEF AdmissionInv, FormsOK, WellFormed
  <2>2. CASE DeleteDefinition(r)
    <3>1. defs' = [defs EXCEPT ![r].exists = FALSE]
      BY <2>2 DEF DeleteDefinition
    <3>2. defs \in [Definitions -> DefinitionForms] /\ \A x \in Definitions : validateDefinition(defs[x])
      BY DEF AdmissionInv, FormsOK, WellFormed
    <3>3. defs' \in [Definitions -> DefinitionForms]
      BY <3>1, <3>2 DEF DefinitionForms
    <3>4. /\ defs'[r].version = defs[r].version /\ defs'[r].chart = defs[r].chart
          /\ defs'[r].ui = defs[r].ui /\ defs'[r].option = defs[r].option
      BY <3>1, <3>2 DEF DefinitionForms
    <3>5. validateDefinition(defs'[r])
      BY <3>2, <3>4
      DEF validateDefinition, validatePluginDefinitionMustSpecifyHelmChartOrUIApplication,
          validatePluginDefinitionMustSpecifyVersion, validatePluginDefinitionOptionValueAndType
    <3> QED
      BY <3>1, <3>2, <3>3, <3>5
  <2> QED
    BY <2>1, <2>2
<1>4. FormsOK' /\ InPlace'
  BY <1>1, <1>3 DEF AdmissionInv, FormsOK, InPlace
<1>5. WellFormed'
  BY <1>1, <1>2, <1>3 DEF AdmissionInv, WellFormed
<1>6. storedPlugin'.exists => asOf' = NoDefinition \/ Fits(storedPlugin, asOf)'
  BY <1>1 DEF AdmissionInv, Fits
<1> QED
  BY <1>4, <1>5, <1>6 DEF AdmissionInv

\* Users write a Plugin of their own.
LEMMA PluginSteps ==
    ASSUME AdmissionInv, CreatePlugin \/ UpdatePlugin \/ DeletePlugin
    PROVE  AdmissionInv'
<1>1. /\ changes' \in 0..MaxChanges /\ presetQueued' \in BOOLEAN
      /\ UNCHANGED <<defs, hasStatus, storedPreset, release>>
  <2>1. presetQueued \in BOOLEAN
    BY DEF AdmissionInv, WellFormed
  <2>2. presetQueued' \in BOOLEAN
    BY <2>1 DEF CreatePlugin, UpdatePlugin, DeletePlugin, CatchUp
  <2> QED
    BY <2>2, ChangeCounted DEF CreatePlugin, UpdatePlugin, DeletePlugin
<1>2. CASE CreatePlugin
  <2>1. PICK p \in CreateRequests, later \in {seenDefs, defs} :
           /\ ~storedPlugin.exists /\ AdmitCreate(seenDefs, later, p)
           /\ storedPlugin' = Admitted(seenDefs, p, FALSE)
           /\ asOf' = Found(RefOf(p), later) /\ seenDefs' = later
    BY <1>2 DEF CreatePlugin, CatchUp
  <2>2. NoEntry \in EntryRecords /\ <<>> \in WaitFors
    BY DEF EntryRecords, EntryForms, NoEntry, Unset, Nil, WaitFors
  <2>3. NewPlugin \in PluginForms /\ NewPlugin.exists
    BY <2>2 DEF NewPlugin, NoPlugin, PluginForms, Kinds, Names
  <2>4. [NewPlugin EXCEPT !.cluster = ""] \in PluginForms /\ [NewPlugin EXCEPT !.cluster = ""].exists
    BY <2>3 DEF PluginForms
  <2>5. p \in PluginForms /\ p.exists
    BY <2>3, <2>4, VariationForms DEF CreateRequests
  <2> QED
    BY <1>1, <2>1, <2>5, CreateWritten
<1>3. CASE UpdatePlugin
  <2>1. PICK p \in Variations(storedPlugin), patch \in BOOLEAN, later \in {seenDefs, defs} :
           /\ storedPlugin.exists
           /\ AdmitUpdate(seenDefs, later, storedPlugin, p, hasStatus, hasStatus /\ patch)
           /\ storedPlugin' = Admitted(seenDefs, p, hasStatus /\ patch)
           /\ asOf' = Found(RefOf(p), later) /\ seenDefs' = later
    BY <1>3 DEF UpdatePlugin, CatchUp
  <2>2. p \in PluginForms /\ p.exists
    BY <2>1, VariationForms DEF AdmissionInv, FormsOK
  <2> QED
    BY <1>1, <2>1, <2>2, UpdateWritten
<1>4. CASE DeletePlugin
  <2>1. /\ storedPlugin' = [storedPlugin EXCEPT !.deleting = TRUE] /\ asOf' = asOf
        /\ storedPlugin \in PluginForms /\ seenDefs' = seenDefs
    BY <1>4 DEF DeletePlugin, AdmissionInv, FormsOK
  <2>2. /\ storedPlugin' \in PluginForms
        /\ storedPlugin'.exists = storedPlugin.exists
        /\ storedPlugin'.kind = storedPlugin.kind
        /\ storedPlugin'.name = storedPlugin.name
        /\ storedPlugin'.label = storedPlugin.label
        /\ storedPlugin'.cluster = storedPlugin.cluster
        /\ storedPlugin'.waitFor = storedPlugin.waitFor
        /\ storedPlugin'.releaseName = storedPlugin.releaseName
        /\ storedPlugin'.releaseNamespace = storedPlugin.releaseNamespace
        /\ storedPlugin'.entry = storedPlugin.entry
    BY <2>1 DEF PluginForms
  <2>3. RefOf(storedPlugin') = RefOf(storedPlugin)
    BY <2>2 DEF RefOf
  <2>4. FormsOK' /\ InPlace'
    BY <1>1, <2>1, <2>2 DEF AdmissionInv, FormsOK, InPlace
  <2>5. WellFormed'
    BY <1>1, <2>2, <2>3 DEF AdmissionInv, WellFormed
  <2>6. storedPlugin'.exists => asOf' = NoDefinition \/ Fits(storedPlugin, asOf)'
    BY <2>1, <2>2, <2>3 DEF AdmissionInv, Fits
  <2> QED
    BY <2>4, <2>5, <2>6 DEF AdmissionInv
<1> QED
  BY <1>2, <1>3, <1>4

\* What users ask for has the form of a PluginPreset.
LEMMA PresetVariationForms ==
    ASSUME NEW p \in PresetForms, NEW q \in PresetRequests(p)
    PROVE  q \in PresetForms
<1>1. CASE \E e \in Entries : q = [p EXCEPT !.entry = e]
  BY <1>1, EntriesAsked DEF PresetForms
<1>2. CASE \E n \in {"", "other"} : q = [p EXCEPT !.releaseNamespace = n]
  BY <1>2 DEF PresetForms
<1>3. CASE \E w \in WaitFors : q = [p EXCEPT !.waitFor = w]
  BY <1>3 DEF PresetForms
<1>4. CASE \E n \in {"", "alerts"} : q = [p EXCEPT !.name = n]
  BY <1>4 DEF PresetForms, Names
<1>5. CASE \E b \in BOOLEAN : q = [p EXCEPT !.selects = b]
  BY <1>5 DEF PresetForms
<1>6. CASE \E n \in {"", "own", "own2", "Bad_Name"} : q = [p EXCEPT !.releaseName = n]
  BY <1>6 DEF PresetForms
<1>7. {<<ByPreset("p")>>, <<ByName("p"), ByName("p")>>} \subseteq WaitFors
  BY DEF WaitFors
<1> QED
  BY <1>1, <1>2, <1>3, <1>4, <1>5, <1>6, <1>7 DEF PresetRequests

\* Users write a PluginPreset.
LEMMA PresetSteps ==
    ASSUME AdmissionInv, CreatePreset \/ UpdatePreset
    PROVE  AdmissionInv'
<1>1. /\ changes' \in 0..MaxChanges /\ presetQueued' = TRUE
      /\ UNCHANGED <<defs, seenDefs, storedPlugin, hasStatus, asOf, release>>
  BY ChangeCounted DEF CreatePreset, UpdatePreset
<1>2. NoEntry \in EntryRecords /\ <<>> \in WaitFors
  BY DEF EntryRecords, EntryForms, NoEntry, Unset, Nil, WaitFors
<1>3. NewPreset \in PresetForms
  BY <1>2 DEF NewPreset, NoPreset, PresetForms, Kinds, Names
<1>4. PICK s : /\ \E base \in PresetForms : s \in PresetRequests(base)
               /\ validateWaitForPluginRefs(DefaultPluginPreset(s).waitFor, FALSE)
               /\ storedPreset' = DefaultPluginPreset(s)
  BY <1>3 DEF CreatePreset, UpdatePreset, ValidateCreatePluginPreset, ValidateUpdatePluginPreset,
              AdmissionInv, FormsOK
<1>5. s \in PresetForms
  BY <1>4, PresetVariationForms
<1>6. storedPreset' \in PresetForms
  <2>1. RefOf(s)[1] \in Kinds
    BY <1>5 DEF RefOf, PresetForms, Kinds, PluginDefinitionKind
  <2> QED
    BY <1>4, <1>5, <2>1 DEF PresetForms, DefaultPluginPreset
<1>7. FormsOK' /\ InPlace'
  BY <1>1, <1>6 DEF AdmissionInv, FormsOK, InPlace
<1>8. WellFormed'
  BY <1>1, <1>4 DEF AdmissionInv, WellFormed
<1>9. storedPlugin'.exists => asOf' = NoDefinition \/ Fits(storedPlugin, asOf)'
  BY <1>1 DEF AdmissionInv, Fits
<1> QED
  BY <1>7, <1>8, <1>9 DEF AdmissionInv

\* A step that leaves all objects alone; the cache may catch up.
LEMMA QueueSteps ==
    ASSUME AdmissionInv, UNCHANGED <<defs, storedPlugin, hasStatus, asOf, storedPreset, release>>,
           seenDefs' \in {seenDefs, defs}, presetQueued' \in BOOLEAN, changes' \in 0..MaxChanges
    PROVE  AdmissionInv'
<1>1. PICK later \in {seenDefs, defs} : seenDefs' = later
  OBVIOUS
<1>2. FormsOK'
  BY <1>1, Caught DEF AdmissionInv, FormsOK
<1> QED
  BY <1>2 DEF AdmissionInv, WellFormed, Fits, InPlace

\* What the PluginPreset controller asks for has the form of a Plugin.
LEMMA WantedForm ==
    ASSUME FormsOK
    PROVE  Wanted \in PluginForms /\ Wanted.exists
<1>1. resolvePluginOptionValues(storedPreset.entry) \in EntryRecords
  <2>1. Plain("s2") \in EntryRecords
    BY DEF EntryRecords, EntryForms, Plain, Unset, Nil, Strings
  <2> QED
    BY <2>1 DEF resolvePluginOptionValues, FormsOK, PresetForms
<1> DEFINE p == [storedPlugin EXCEPT !.exists = TRUE]
<1>2. p \in PluginForms /\ p.exists /\ p.releaseName = storedPlugin.releaseName
  BY DEF FormsOK, PluginForms
<1> HIDE DEF p
<1>3. getReleaseName(p, hasStatus, storedPreset) \in {"", "own", "own2", "Bad_Name", PluginName, ChartName}
  BY <1>2 DEF getReleaseName, FormsOK, PresetForms, PluginForms
<1>4. /\ storedPreset.kind \in Kinds /\ storedPreset.name \in Names
      /\ storedPreset.releaseNamespace \in {"", "other"} /\ storedPreset.waitFor \in WaitFors
  BY DEF FormsOK, PresetForms
<1>5. Wanted = [p EXCEPT !.kind = storedPreset.kind, !.name = storedPreset.name, !.cluster = "c1",
                       !.releaseNamespace = storedPreset.releaseNamespace,
                       !.waitFor = storedPreset.waitFor,
                       !.entry = resolvePluginOptionValues(storedPreset.entry),
                       !.releaseName = getReleaseName(p, hasStatus, storedPreset)]
  BY DEF Wanted, pluginSpecFromPluginPreset, p
<1> QED
  BY <1>1, <1>2, <1>3, <1>4, <1>5 DEF PluginForms

\* The PluginPreset controller writes its Plugin through the same webhooks.
LEMMA ReconcileStep ==
    ASSUME AdmissionInv, ReconcilePluginPreset
    PROVE  AdmissionInv'
<1> DEFINE w == Wanted
<1>1. UNCHANGED <<defs, hasStatus, storedPreset, release>> /\ changes' \in 0..MaxChanges
  BY DEF AdmissionInv, WellFormed, ReconcilePluginPreset
<1>2. w \in PluginForms /\ w.exists
  BY WantedForm DEF AdmissionInv
<1>3. PICK later \in {seenDefs, defs} :
         \/ /\ ~IsAdmitted(w, later) /\ CatchUp(later) /\ UNCHANGED <<storedPlugin, asOf>>
         \/ /\ IsAdmitted(w, later)
            /\ storedPlugin' = Admitted(seenDefs, w, hasStatus) /\ asOf' = Found(RefOf(w), later)
            /\ seenDefs' = later /\ presetQueued' = enqueuePluginPresets(later)
  BY DEF ReconcilePluginPreset
<1> HIDE DEF w
<1>4. CASE /\ CatchUp(later) /\ UNCHANGED <<storedPlugin, asOf>>
  <2>1. seenDefs' = later /\ presetQueued' \in BOOLEAN
    BY <1>4 DEF CatchUp, AdmissionInv, WellFormed
  <2> QED
    BY <1>1, <1>4, <2>1, QueueSteps
<1>5. CASE /\ IsAdmitted(w, later)
           /\ storedPlugin' = Admitted(seenDefs, w, hasStatus) /\ asOf' = Found(RefOf(w), later)
           /\ seenDefs' = later /\ presetQueued' = enqueuePluginPresets(later)
  <2>1. presetQueued' \in BOOLEAN
    BY <1>5 DEF enqueuePluginPresets, AdmissionInv, FormsOK, PresetForms
  <2>2. CASE storedPlugin.exists
    <3>1. AdmitUpdate(seenDefs, later, storedPlugin, w, hasStatus, hasStatus)
      BY <1>5, <2>2 DEF IsAdmitted
    <3> QED
      BY <1>1, <1>2, <1>5, <2>1, <3>1, UpdateWritten
  <2>3. CASE ~storedPlugin.exists
    <3>1. hasStatus = FALSE
      BY <2>3 DEF AdmissionInv, InPlace, FormsOK
    <3>2. AdmitCreate(seenDefs, later, w)
      BY <1>5, <2>3 DEF IsAdmitted
    <3> QED
      BY <1>1, <1>2, <1>5, <2>1, <2>3, <3>1, <3>2, CreateWritten
  <2> QED
    BY <2>2, <2>3
<1> QED
  BY <1>3, <1>4, <1>5

\* The Plugin controller deploys the Plugin and takes off its finalizer.
LEMMA ControllerSteps ==
    ASSUME AdmissionInv, InitPluginStatus \/ ensureRelease \/ FinalizePlugin
    PROVE  AdmissionInv'
<1>1. UNCHANGED <<defs, storedPreset, changes>>
  BY DEF InitPluginStatus, ensureRelease, FinalizePlugin
<1>2. CASE ensureRelease
  <2>1. UNCHANGED <<seenDefs, storedPlugin, hasStatus, asOf, presetQueued>> /\ storedPlugin.exists
    BY <1>2 DEF ensureRelease
  <2>2. release'.named \in BOOLEAN
    BY <1>2 DEF ensureRelease, AdmissionInv, FormsOK
  <2>3. InPlace'
    <3>1. release.named => release # NoRelease
      BY DEF NoRelease
    <3>2. release'.named => storedPlugin.releaseName # "" /\ storedPlugin.releaseNamespace # ""
      BY <1>2 DEF ensureRelease, AdmissionInv, InPlace
    <3>3. release'.named => /\ release'.name = storedPlugin.releaseName
                            /\ release'.namespace = storedPlugin.releaseNamespace
      BY <1>2, <3>2 DEF ensureRelease, GetReleaseName
    <3>4. release'.cluster = storedPlugin.cluster
      BY <1>2 DEF ensureRelease
    <3> QED
      BY <2>1, <3>2, <3>3, <3>4 DEF InPlace
  <2>4. WellFormed' /\ FormsOK'
    BY <1>1, <2>1, <2>2 DEF AdmissionInv, WellFormed, FormsOK
  <2>5. asOf' = NoDefinition \/ Fits(storedPlugin, asOf)'
    BY <2>1 DEF AdmissionInv, Fits
  <2> QED
    BY <2>3, <2>4, <2>5 DEF AdmissionInv
<1>3. CASE FinalizePlugin
  <2>1. /\ storedPlugin' = NoPlugin /\ asOf' = NoDefinition /\ release' = NoRelease /\ hasStatus' = FALSE
        /\ presetQueued' \in BOOLEAN
    BY <1>3 DEF FinalizePlugin, CatchUp, AdmissionInv, WellFormed
  <2>2. NoEntry \in EntryRecords /\ <<>> \in WaitFors /\ NoOption \in Options
    BY DEF EntryRecords, EntryForms, NoEntry, Unset, Nil, WaitFors, Options
  <2>3. storedPlugin' \in PluginForms /\ ~storedPlugin'.exists
    BY <2>1, <2>2 DEF NoPlugin, PluginForms, Kinds, Names
  <2>4. asOf' \in DefinitionForms
    BY <2>1, <2>2 DEF NoDefinition, DefinitionForms
  <2>5. release'.named = FALSE
    BY <2>1 DEF NoRelease
  <2>6. PICK later \in {seenDefs, defs} : seenDefs' = later
    BY <1>3 DEF FinalizePlugin, CatchUp
  <2>7. FormsOK'
    BY <1>1, <2>1, <2>3, <2>4, <2>5, <2>6, Caught DEF AdmissionInv, FormsOK
  <2>8. WellFormed'
    BY <1>1, <2>1, <2>3 DEF AdmissionInv, WellFormed
  <2> QED
    BY <2>1, <2>3, <2>5, <2>7, <2>8 DEF AdmissionInv, InPlace
<1>4. CASE InitPluginStatus
  <2>1. UNCHANGED <<seenDefs, storedPlugin, asOf, presetQueued, release>> /\ storedPlugin.exists /\ hasStatus' = TRUE
    BY <1>4 DEF InitPluginStatus
  <2>2. WellFormed' /\ FormsOK' /\ InPlace'
    BY <1>1, <2>1 DEF AdmissionInv, WellFormed, FormsOK, InPlace
  <2>3. asOf' = NoDefinition \/ Fits(storedPlugin, asOf)'
    BY <2>1 DEF AdmissionInv, Fits
  <2> QED
    BY <2>2, <2>3 DEF AdmissionInv
<1> QED
  BY <1>2, <1>3, <1>4

\* Every step preserves the invariant.
LEMMA AdmissionInvStep ==
    ASSUME AdmissionInv, [AdmissionNext]_admissionVars
    PROVE  AdmissionInv'
<1>1. CASE UNCHANGED admissionVars
  BY <1>1, QueueSteps DEF admissionVars, AdmissionInv, WellFormed
<1>2. CASE DeliverDefinitions
  BY <1>2, QueueSteps DEF DeliverDefinitions, CatchUp, AdmissionInv, WellFormed
<1> QED
  BY <1>1, <1>2, DefinitionSteps, PluginSteps, PresetSteps, ReconcileStep, ControllerSteps DEF AdmissionNext

\* All that is stored has the form the webhooks ask for; a Plugin whose definition is what
\* it was when the Plugin was admitted has a value of its type for each required option and
\* passes the webhooks again unchanged, with or without its status (plugin_webhook.go),
\* whatever users and the PluginPreset controller ask for while definitions change and the
\* cache of the webhooks lags behind them.
THEOREM AdmissionIsSafe == AdmissionSpec => []StoredIsAdmissible
BY AdmissionInvInit, AdmissionInvStep, InvIsEnough, PTL DEF AdmissionSpec

\* A Helm release that was installed under a name and in a namespace its Plugin gave keeps
\* name, namespace and cluster until it is uninstalled: the immutable fields of Plugin and
\* CustomResourceDefinition hold through every request (plugin_webhook.go, plugin_types.go).
THEOREM NamedReleaseStays == AdmissionSpec => ReleaseStays
<1> DEFINE Stays == release.named /\ release' # NoRelease =>
                       /\ release'.name = release.name /\ release'.namespace = release.namespace
                       /\ release'.cluster = release.cluster
<1>1. AdmissionInv /\ [AdmissionNext]_admissionVars => [Stays]_admissionVars
  <2> SUFFICES ASSUME AdmissionInv, AdmissionNext, release.named, release' # NoRelease
               PROVE  /\ release'.name = release.name /\ release'.namespace = release.namespace
                      /\ release'.cluster = release.cluster
    OBVIOUS
  <2>1. CASE ensureRelease
    BY <2>1 DEF ensureRelease, AdmissionInv, InPlace, GetReleaseName
  <2>2. CASE FinalizePlugin
    BY <2>2 DEF FinalizePlugin
  <2>3. CASE release' = release
    BY <2>3
  <2> QED
    BY <2>1, <2>2, <2>3
    DEF AdmissionNext, EditDefinition, DeleteDefinition, DeliverDefinitions, CreatePlugin, UpdatePlugin,
        DeletePlugin, CreatePreset, UpdatePreset, ReconcilePluginPreset, InitPluginStatus
<1> QED
  BY <1>1, AdmissionInvInit, AdmissionInvStep, PTL DEF AdmissionSpec, ReleaseStays
=============================================================================
