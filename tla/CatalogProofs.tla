---------------------------- MODULE CatalogProofs ----------------------------
(* Proofs about the delivery of definitions: for every set of sources and     *)
(* definitions, every number of revisions, edits and mishaps, nothing that a  *)
(* Catalog has made is lost track of, no override hits another option, and no *)
(* chart is asked for before it is in the mirror.                             *)
EXTENDS CatalogDelivery, SequenceTheorems, TLAPS

\* All that exists of a source is in a list.
Covers(list, s) == \A k \in Owned : objs[s][k] # "absent" => k \in ToSet(list)

\* A pass holds an inventory of its own until it is stored.  Of the sources that it does
\* not work on nothing is missing there, and the condition it starts from is not one that
\* would keep verifyStatus from recording the others.
PassCovers ==
    pass # Idle =>
        /\ pass.todo \subseteq pass.sources
        /\ pass.cond.reason = "Progressing"
        /\ \A s \in Source \ (pass.sources \cup unpatched) : Covers(pass.inventory[s], s)

\* The status names no version as replicated that is not in the mirror.
SyncedIsMirrored ==
    Mirroring => \A n \in Definition : pd[n].synced # 0 => pd[n].synced \in mirrored[n]

DeliveryInv == TypeOK /\ Tracked /\ PassCovers /\ OverridesHitTheirOption
                  /\ ChartsAreMirrored /\ SyncedIsMirrored

-----------------------------------------------------------------------------
(* Lists of an inventory.                                                     *)

\* What a list holds.
LEMMA ListFacts ==
    ASSUME NEW list \in Lists
    PROVE  /\ list \in Seq(Kinds) /\ Len(list) \in 0..4 /\ Len(list) \in Nat
           /\ DOMAIN list = 1..Len(list)
           /\ \A i \in 1..Len(list) : list[i] \in Kinds
           /\ \A i, j \in 1..Len(list) : list[i] = list[j] => i = j
           /\ ToSet(list) = {list[i] : i \in 1..Len(list)}
  <1>1. list \in Seq(Kinds) /\ Len(list) <= 4 /\ \A i, j \in 1..Len(list) : list[i] = list[j] => i = j
    BY DEF Lists
  <1>2. Len(list) \in Nat /\ DOMAIN list = 1..Len(list) /\ list \in [1..Len(list) -> Kinds]
    BY <1>1, LenProperties
  <1>3. ToSet(list) = {list[i] : i \in 1..Len(list)}
    BY <1>2 DEF ToSet
  <1>4. QED
    BY <1>1, <1>2, <1>3

\* Four kinds fill a list: one that is full has them all.
LEMMA FullList ==
    ASSUME NEW list \in Lists, NEW k \in Kinds, k \notin ToSet(list)
    PROVE  Len(list) <= 3
  <1>1. SUFFICES ASSUME Len(list) = 4 PROVE FALSE
    BY ListFacts
  <1>2. /\ 1 \in 1..Len(list) /\ 2 \in 1..Len(list) /\ 3 \in 1..Len(list) /\ 4 \in 1..Len(list)
    BY <1>1
  <1>3. /\ list[1] \in Kinds /\ list[2] \in Kinds /\ list[3] \in Kinds /\ list[4] \in Kinds
        /\ list[1] # list[2] /\ list[1] # list[3] /\ list[1] # list[4]
        /\ list[2] # list[3] /\ list[2] # list[4] /\ list[3] # list[4]
        /\ k # list[1] /\ k # list[2] /\ k # list[3] /\ k # list[4]
    BY <1>2, ListFacts
  <1>4. QED
    BY <1>3 DEF Kinds

\* setInventory adds what is not in a list.
LEMMA SetInventoryFacts ==
    ASSUME NEW list \in Lists, NEW k \in Kinds
    PROVE  /\ setInventory(list, k) \in Lists
           /\ ToSet(setInventory(list, k)) = ToSet(list) \cup {k}
  <1>1. CASE k \in ToSet(list)
    <2>1. setInventory(list, k) = list
      BY <1>1, ListFacts, ConcatEmptySeq DEF setInventory, Unlisted
    <2>2. QED
      BY <1>1, <2>1
  <1>2. CASE k \notin ToSet(list)
    <2>1. PICK new : new = list \o <<k>>
      OBVIOUS
    <2>2. new = setInventory(list, k)
      BY <1>2, <2>1 DEF setInventory, Unlisted
    <2>3. PICK n \in 0..3 : n = Len(list)
      BY <1>2, FullList, ListFacts
    <2>4. /\ new \in Seq(Kinds) /\ Len(new) = n + 1
          /\ \A i \in 1..n : new[i] = list[i]
          /\ new[n + 1] = k
      BY <2>1, <2>3, ListFacts
    <2>5. \A i \in 1..n : list[i] # k /\ list[i] \in Kinds
      BY <1>2, <2>3, ListFacts
    <2>6. \A i, j \in 1..n : list[i] = list[j] => i = j
      BY <2>3, ListFacts
    <2>7. \A i, j \in 1..(n + 1) : new[i] = new[j] => i = j
      <3> TAKE i, j \in 1..(n + 1)
      <3>1. (i \in 1..n \/ i = n + 1) /\ (j \in 1..n \/ j = n + 1)
        BY <2>3
      <3>2. QED
        BY <2>4, <2>5, <2>6, <3>1
    <2>8. new \in Lists
      BY <2>3, <2>4, <2>7 DEF Lists
    <2>9. ToSet(new) = ToSet(list) \cup {k}
      <3>1. ToSet(new) = {new[i] : i \in 1..(n + 1)} /\ ToSet(list) = {list[i] : i \in 1..n}
        BY <2>3, <2>4, <2>8, ListFacts
      <3>2. \A i \in 1..(n + 1) : i \in 1..n \/ i = n + 1
        BY <2>3
      <3>3. \A i \in 1..n : i \in 1..(n + 1)
        BY <2>3
      <3>4. n + 1 \in 1..(n + 1)
        BY <2>3
      <3>5. QED
        BY <2>4, <3>1, <3>2, <3>3, <3>4
    <2>10. QED
      BY <2>2, <2>8, <2>9
  <1>3. QED
    BY <1>1, <1>2

\* verifyStatus records every kind.
LEMMA RecordFacts ==
    ASSUME NEW list \in Lists
    PROVE  Record(list) \in Lists /\ Kinds \subseteq ToSet(Record(list))
  <1>1. PICK l1 \in Lists : l1 = setInventory(list, "Git") /\ ToSet(l1) = ToSet(list) \cup {"Git"}
    BY SetInventoryFacts DEF Kinds
  <1>2. PICK l2 \in Lists : l2 = setInventory(l1, "Generator") /\ ToSet(l2) = ToSet(l1) \cup {"Generator"}
    BY SetInventoryFacts DEF Kinds
  <1>3. PICK l3 \in Lists : l3 = setInventory(l2, "Artifact") /\ ToSet(l3) = ToSet(l2) \cup {"Artifact"}
    BY SetInventoryFacts DEF Kinds
  <1>4. PICK l4 \in Lists : l4 = setInventory(l3, "Kustomization")
                            /\ ToSet(l4) = ToSet(l3) \cup {"Kustomization"}
    BY SetInventoryFacts DEF Kinds
  <1>5. /\ Unlisted(l1, "Generator") = Unlisted(list, "Generator")
        /\ Unlisted(l2, "Artifact") = Unlisted(list, "Artifact")
        /\ Unlisted(l3, "Kustomization") = Unlisted(list, "Kustomization")
    BY <1>1, <1>2, <1>3 DEF Unlisted
  <1>6. Record(list) = l4
    BY <1>1, <1>2, <1>3, <1>4, <1>5 DEF Record, setInventory
  <1>7. QED
    BY <1>1, <1>2, <1>3, <1>4, <1>6 DEF Kinds

\* checkAndCleanInventory passes over every second entry of an orphaned source: what an
\* iteration does not remove is still in the list.
LEMMA LeftFacts ==
    ASSUME NEW list \in Lists, NEW n \in 0..2, n <= Iterations(list)
    PROVE  /\ Left(list, n) \in Lists
           /\ ToSet(list) \subseteq Removed(list, n) \cup ToSet(Left(list, n))
  <1>1. PICK m \in 0..4 : m = Len(list)
    BY ListFacts
  <1>2. \/ n = 0
        \/ n = 1 /\ m \in 1..4
        \/ n = 2 /\ m \in 3..4
    BY <1>1 DEF Iterations
  <1>3. PICK new : new = Left(list, n)
    OBVIOUS
  <1>4. new = [i \in 1..(m - n) |-> IF i <= n THEN list[2 * i] ELSE list[i + n]]
    BY <1>1, <1>3 DEF Left
  <1>5. \A i \in 1..(m - n) : (i <= n => 2 * i \in 1..m) /\ (i > n => i + n \in 1..m)
    BY <1>1, <1>2
  <1>6. \A i \in 1..m : list[i] \in Kinds
    BY <1>1, ListFacts
  <1>7. new \in [1..(m - n) -> Kinds]
    BY <1>4, <1>5, <1>6
  <1>8. m - n \in Nat
    BY <1>2
  <1>9. new \in Seq(Kinds)
    BY <1>7, <1>8, SeqDef
  <1>10. Len(new) = m - n
    <2>1. Len(new) \in Nat /\ DOMAIN new = 1..Len(new)
      BY <1>9, LenProperties
    <2>2. 1..Len(new) = 1..(m - n)
      BY <1>7, <2>1
    <2>3. QED
      BY <1>8, <2>1, <2>2
  <1>11. \A i, j \in 1..m : list[i] = list[j] => i = j
    BY <1>1, ListFacts
  <1>12. new \in Lists
    <2>1. \A i, j \in 1..(m - n) : new[i] = new[j] => i = j
      BY <1>2, <1>4, <1>5, <1>11
    <2>2. QED
      BY <1>2, <1>9, <1>10, <2>1 DEF Lists
  <1>13. ToSet(list) \subseteq Removed(list, n) \cup ToSet(new)
    <2>1. ToSet(list) = {list[i] : i \in 1..m} /\ ToSet(new) = {new[i] : i \in 1..(m - n)}
      BY <1>1, <1>10, <1>12, ListFacts
    <2>2. SUFFICES ASSUME NEW i \in 1..m
                   PROVE  list[i] \in Removed(list, n) \cup ToSet(new)
      BY <2>1
    <2>3. (\E j \in 1..n : i = 2 * j - 1)
          \/ \E j \in 1..(m - n) : (j <= n /\ i = 2 * j) \/ (j > n /\ i = j + n)
      <3>1. CASE n = 0
        BY <3>1
      <3>2. CASE n = 1 /\ m \in 1..4
        <4>1. i = 1 \/ i = 2 \/ (i - 1 \in 1..(m - n) /\ i - 1 > n /\ i = (i - 1) + n)
          BY <3>2
        <4>2. 1 \in 1..n /\ (i = 2 => 1 \in 1..(m - n))
          BY <3>2
        <4>3. QED
          BY <3>2, <4>1, <4>2
      <3>3. CASE n = 2 /\ m \in 3..4
        <4>1. i = 1 \/ i = 2 \/ i = 3 \/ i = 4
          BY <3>3
        <4>2. 1 \in 1..n /\ 2 \in 1..n /\ 1 \in 1..(m - n) /\ (i = 4 => 2 \in 1..(m - n))
          BY <3>3
        <4>3. QED
          BY <3>3, <4>1, <4>2
      <3>4. QED
        BY <1>2, <3>1, <3>2, <3>3
    <2>4. CASE \E j \in 1..n : i = 2 * j - 1
      BY <2>4 DEF Removed
    <2>5. CASE \E j \in 1..(m - n) : (j <= n /\ i = 2 * j) \/ (j > n /\ i = j + n)
      <3>1. PICK j \in 1..(m - n) : (j <= n /\ i = 2 * j) \/ (j > n /\ i = j + n)
        BY <2>5
      <3>2. new[j] = list[i]
        BY <1>4, <3>1
      <3>3. QED
        BY <2>1, <3>2
    <2>6. QED
      BY <2>3, <2>4, <2>5
  <1>14. QED
    BY <1>3, <1>12, <1>13

-----------------------------------------------------------------------------
(* The end of a pass.                                                         *)

Objects == [Source -> [Owned -> {"absent", "live", "suspended"}]]

\* What the stored Catalog and an object of a pass are.
LEMMA CatalogFacts ==
    ASSUME CatalogTypeOK
    PROVE  /\ catalog.sources \subseteq Source /\ catalog.inventory \in [Source -> Lists]
           /\ catalog.cond \in Conditions
           /\ catalog.valid \in BOOLEAN /\ catalog.suspended \in BOOLEAN
           /\ pass.pc # "idle" => pass \in Passes
           /\ pass \in Passes => pass.pc # "idle" /\ pass # Idle
           /\ pass.pc = "idle" => pass = Idle
           /\ Idle.pc = "idle"
  <1>1. /\ catalog.sources \subseteq Source /\ catalog.inventory \in [Source -> Lists]
        /\ catalog.cond \in Conditions
        /\ catalog.valid \in BOOLEAN /\ catalog.suspended \in BOOLEAN
    BY DEF CatalogTypeOK
  <1>2. pass \in {Idle} \cup Passes /\ Idle.pc = "idle" /\ (pass \in Passes => pass.pc # "idle")
    BY DEF CatalogTypeOK, Idle, Passes
  <1>3. QED
    BY <1>1, <1>2

\* patchStatus loses track of nothing if what exists after the pass is in the inventory
\* it stores or, when that is lost, was in the one that stays.
LEMMA PatchKeeps ==
    ASSUME CatalogTypeOK, NEW p, NEW lost \in BOOLEAN,
           p.sources \subseteq Source, p.inventory \in [Source -> Lists], p.cond \in Conditions,
           objs' \in Objects,
           lost => \A s \in Source \ (unpatched \cup p.sources) : \A k \in Owned :
                       objs'[s][k] # "absent" => k \in ToSet(catalog.inventory[s]),
           ~lost => \A s \in Source \ unpatched : \A k \in Owned :
                       objs'[s][k] # "absent" => k \in ToSet(p.inventory[s]),
           patchStatus(p, lost)
    PROVE  /\ pass' = Idle /\ queued' \in BOOLEAN /\ unpatched' \subseteq Source
           /\ catalog' \in [sources : SUBSET Source, valid : BOOLEAN, suspended : BOOLEAN,
                            inventory : [Source -> Lists], cond : Conditions]
           /\ Tracked' /\ PassCovers'
  <1>1. pass' = Idle /\ queued' \in BOOLEAN
    BY DEF patchStatus
  <1>2. PassCovers'
    BY <1>1 DEF PassCovers
  <1>3. PICK new : new = [catalog EXCEPT !.inventory = p.inventory, !.cond = p.cond]
    OBVIOUS
  <1>4. /\ new \in [sources : SUBSET Source, valid : BOOLEAN, suspended : BOOLEAN,
                    inventory : [Source -> Lists], cond : Conditions]
        /\ new.inventory = p.inventory
    BY <1>3 DEF CatalogTypeOK
  <1>5. catalog' = IF lost THEN catalog ELSE new
    BY <1>3 DEF patchStatus
  <1>6. PICK recorded : recorded = {s \in Source : Owned \subseteq ToSet(p.inventory[s])}
    OBVIOUS
  <1>7. unpatched' = IF lost THEN unpatched \cup p.sources ELSE unpatched \ recorded
    BY <1>6 DEF patchStatus
  <1>8. unpatched \subseteq Source
    BY DEF CatalogTypeOK
  <1>9. Tracked'
    <2>1. SUFFICES ASSUME NEW s \in Source, NEW k \in Owned, objs'[s][k] # "absent",
                          s \notin unpatched'
                   PROVE  k \in ToSet(catalog'.inventory[s])
      BY DEF Tracked
    <2>2. CASE lost
      BY <1>5, <1>7, <2>1, <2>2
    <2>3. CASE ~lost
      <3>1. s \notin unpatched \/ s \in recorded
        BY <1>7, <2>1, <2>3
      <3>2. k \in ToSet(p.inventory[s])
        BY <1>6, <2>1, <2>3, <3>1
      <3>3. QED
        BY <1>4, <1>5, <2>3, <3>2
    <2>4. QED
      BY <2>2, <2>3
  <1>10. catalog' \in [sources : SUBSET Source, valid : BOOLEAN, suspended : BOOLEAN,
                       inventory : [Source -> Lists], cond : Conditions]
    BY <1>4, <1>5 DEF CatalogTypeOK
  <1>11. QED
    BY <1>1, <1>2, <1>7, <1>8, <1>9, <1>10

\* What the Catalog controller keeps.
CatalogInv == CatalogTypeOK /\ Tracked /\ PassCovers

\* A step that leaves the Catalog, the pass and the objects alone keeps what the list of
\* the inventory is about.
LEMMA CatalogFrame ==
    ASSUME Tracked, PassCovers, UNCHANGED <<catalog, pass, objs, unpatched>>
    PROVE  Tracked' /\ PassCovers'
  BY DEF Tracked, PassCovers, Covers

\* A pass that is not under way has everything in the stored inventory.
LEMMA AllListed ==
    ASSUME CatalogInv, pass.pc = "idle"
    PROVE  \A s \in Source \ unpatched : \A k \in Owned :
               objs[s][k] # "absent" => k \in ToSet(catalog.inventory[s])
  BY DEF CatalogInv, Tracked

\* Suspension creates nothing (catalog_controller.go:90-128).
LEMMA EnsureSuspendedKeeps ==
    ASSUME CatalogInv, NEW failed \in BOOLEAN, EnsureSuspended(failed)
    PROVE  CatalogInv'
  <1>1. PICK new : new = Suspend(objs, catalog.inventory)
    OBVIOUS
  <1>2. /\ new \in Objects
        /\ \A s \in Source, k \in Owned : new[s][k] # "absent" => objs[s][k] # "absent"
    BY <1>1 DEF Suspend, Objects, CatalogInv, CatalogTypeOK
  <1>3. /\ objs' = IF failed THEN objs ELSE new
        /\ queued' \in BOOLEAN /\ pass.pc = "idle"
        /\ UNCHANGED <<catalog, pass, ready, artifact, patched, store, unpatched>>
    BY <1>1 DEF EnsureSuspended
  <1>4. CatalogTypeOK'
    BY <1>2, <1>3 DEF CatalogInv, CatalogTypeOK, Objects
  <1>5. \A s \in Source, k \in Owned : objs'[s][k] # "absent" => objs[s][k] # "absent"
    BY <1>2, <1>3
  <1>6. Tracked'
    BY <1>3, <1>5 DEF CatalogInv, Tracked
  <1>7. pass' = Idle
    BY <1>3, CatalogFacts DEF CatalogInv
  <1>8. QED
    BY <1>4, <1>6, <1>7 DEF CatalogInv, PassCovers

\* A pass that an invalid list of sources ends keeps the stored inventory (source.go:83-103).
LEMMA ValidateSourcesKeeps ==
    ASSUME CatalogInv, NEW lost \in BOOLEAN, validateSources(lost)
    PROVE  CatalogInv'
  <1>1. PICK p : p = [sources |-> {}, inventory |-> catalog.inventory, failed |-> TRUE,
                      cond |-> False("Invalid")]
    OBVIOUS
  <1>2. patchStatus(p, lost) /\ pass.pc = "idle"
        /\ UNCHANGED <<objs, ready, artifact, patched, store>>
    BY <1>1 DEF validateSources
  <1>3. p.sources = {} /\ p.inventory = catalog.inventory /\ p.cond \in Conditions
    BY <1>1 DEF False, Conditions, Reasons
  <1>4. CatalogTypeOK /\ objs \in Objects
    BY DEF CatalogInv, CatalogTypeOK, Objects
  <1>5. p.inventory \in [Source -> Lists]
    BY <1>3, <1>4, CatalogFacts
  <1>6. \A s \in Source \ unpatched : \A k \in Owned :
            objs'[s][k] # "absent" => k \in ToSet(catalog.inventory[s])
    BY <1>2, AllListed
  <1>7. /\ pass' = Idle /\ queued' \in BOOLEAN /\ unpatched' \subseteq Source
        /\ catalog' \in [sources : SUBSET Source, valid : BOOLEAN, suspended : BOOLEAN,
                         inventory : [Source -> Lists], cond : Conditions]
        /\ Tracked' /\ PassCovers'
    <2>1. objs' \in Objects
      BY <1>2, <1>4
    <2>2. QED
      BY <1>2, <1>3, <1>4, <1>5, <1>6, <2>1, PatchKeeps
  <1>8. QED
    BY <1>2, <1>4, <1>7 DEF CatalogInv, CatalogTypeOK, Objects

\* The cleanup of orphans: what it removes from a list it has deleted, and a list of a
\* source that stays is not touched.
LEMMA CheckAndCleanInventoryKeeps ==
    ASSUME CatalogInv, NEW n \in [Source -> 0..2], NEW f \in Source \cup {"none"},
           NEW lost \in BOOLEAN, checkAndCleanInventory(n, f, lost)
    PROVE  CatalogInv'
  <1>1. PICK orphaned : orphaned = Source \ catalog.sources
    OBVIOUS
  <1>2. PICK removed : removed = [s \in Source |-> IF s \in orphaned
                                     THEN Removed(catalog.inventory[s], n[s]) ELSE {}]
    OBVIOUS
  <1>3. PICK failed : failed = (f \in orphaned)
    OBVIOUS
  <1>4. PICK empty : empty = (catalog.sources = {})
    OBVIOUS
  <1>5. PICK inventory : inventory = [s \in Source |->
                               IF s \in orphaned THEN Left(catalog.inventory[s], n[s])
                                                 ELSE catalog.inventory[s]]
    OBVIOUS
  <1>6. PICK cond : cond = IF empty THEN False(IF failed THEN "EmptyError" ELSE "Empty")
                           ELSE IF failed THEN False("CleanUpFail")
                           ELSE SetProgressingReason(SetUnknownCondition(catalog.cond))
    OBVIOUS
  <1>7. PICK p : p = [pc |-> "sources", sources |-> catalog.sources, todo |-> catalog.sources,
                      failed |-> failed /\ ~empty, inventory |-> inventory, cond |-> cond]
    OBVIOUS
  <1>8. /\ pass.pc = "idle"
        /\ \A s \in orphaned \ {f} : n[s] \in {Iterations(catalog.inventory[s])}
                                         \cup (IF failed THEN {0} ELSE {})
        /\ failed => n[f] < Iterations(catalog.inventory[f])
        /\ objs' = [s \in Source |-> [k \in Owned |->
                      IF k \in removed[s] THEN "absent" ELSE objs[s][k]]]
        /\ ready' = [s \in Source |-> [k \in Kinds |-> ready[s][k] /\ k \notin removed[s]]]
        /\ artifact' = [s \in Source |-> IF "Generator" \in removed[s] THEN 0 ELSE artifact[s]]
        /\ patched' = [s \in Source |-> IF "Kustomization" \in removed[s] THEN 0 ELSE patched[s]]
        /\ IF empty \/ failed
           THEN patchStatus(p, lost)
           ELSE /\ ~lost
                /\ pass' = p
                /\ queued' = (objs' # objs)
                /\ UNCHANGED <<catalog, unpatched>>
        /\ UNCHANGED store
    BY <1>1, <1>2, <1>3, <1>4, <1>5, <1>6, <1>7 DEF checkAndCleanInventory
  <1>9. /\ catalog.sources \subseteq Source /\ catalog.inventory \in [Source -> Lists]
        /\ catalog.cond \in Conditions
    BY CatalogFacts DEF CatalogInv
  <1>10. \A s \in orphaned : /\ Left(catalog.inventory[s], n[s]) \in Lists
                             /\ ToSet(catalog.inventory[s]) \subseteq
                                   removed[s] \cup ToSet(Left(catalog.inventory[s], n[s]))
    <2>1. SUFFICES ASSUME NEW s \in orphaned
                   PROVE  /\ Left(catalog.inventory[s], n[s]) \in Lists
                          /\ ToSet(catalog.inventory[s]) \subseteq
                                removed[s] \cup ToSet(Left(catalog.inventory[s], n[s]))
      OBVIOUS
    <2>2. PICK list \in Lists : list = catalog.inventory[s]
      BY <1>1, <1>9
    <2>3. PICK m \in 0..2 : m = n[s]
      BY <1>1
    <2>4. Iterations(list) \in Nat
      <3>1. PICK len \in 0..4 : len = Len(list)
        BY <2>2, ListFacts
      <3>2. (len + 1) \div 2 \in Nat
        BY <3>1
      <3>3. QED
        BY <3>1, <3>2 DEF Iterations
    <2>5. m <= Iterations(list)
      <3>1. CASE s = f
        <4>1. failed
          BY <1>3, <3>1
        <4>2. m < Iterations(list)
          BY <1>8, <2>2, <2>3, <3>1, <4>1
        <4>3. QED
          BY <2>3, <2>4, <4>2
      <3>2. CASE s # f
        <4>1. m = Iterations(list) \/ m = 0
          BY <1>8, <2>2, <2>3, <3>2
        <4>2. QED
          BY <2>3, <2>4, <4>1
      <3>3. QED
        BY <3>1, <3>2
    <2>6. /\ Left(list, m) \in Lists
          /\ ToSet(list) \subseteq Removed(list, m) \cup ToSet(Left(list, m))
      BY <2>2, <2>3, <2>5, LeftFacts
    <2>7. removed[s] = Removed(list, m)
      BY <1>1, <1>2, <2>2, <2>3
    <2>8. QED
      BY <2>2, <2>3, <2>6, <2>7
  <1>11. inventory \in [Source -> Lists]
    BY <1>1, <1>5, <1>9, <1>10
  <1>12. \A s \in Source : ToSet(catalog.inventory[s]) \subseteq removed[s] \cup ToSet(inventory[s])
    <2>1. \A s \in orphaned : ToSet(catalog.inventory[s]) \subseteq removed[s] \cup ToSet(inventory[s])
      BY <1>1, <1>5, <1>10
    <2>2. \A s \in Source \ orphaned : inventory[s] = catalog.inventory[s]
      BY <1>5
    <2>3. QED
      BY <2>1, <2>2
  <1>13. cond \in Conditions /\ (~empty /\ ~failed => cond.reason = "Progressing")
    BY <1>6, <1>9 DEF False, Conditions, Reasons, SetProgressingReason, SetUnknownCondition
  <1>14. /\ p \in Passes /\ p.sources = catalog.sources /\ p.todo = catalog.sources
         /\ p.inventory = inventory /\ p.cond = cond /\ p.pc = "sources"
    BY <1>7, <1>9, <1>11, <1>13 DEF Passes
  <1>15. /\ objs' \in Objects
         /\ \A s \in Source, k \in Owned :
                objs'[s][k] # "absent" => objs[s][k] # "absent" /\ k \notin removed[s]
    BY <1>8 DEF CatalogInv, CatalogTypeOK, Objects
  <1>16. \A s \in Source \ unpatched : \A k \in Owned :
             objs'[s][k] # "absent" => k \in ToSet(catalog.inventory[s])
    BY <1>8, <1>15, AllListed
  <1>17. \A s \in Source \ unpatched : \A k \in Owned :
             objs'[s][k] # "absent" => k \in ToSet(inventory[s])
    BY <1>12, <1>15, <1>16
  <1>18. /\ ready' \in [Source -> [Kinds -> BOOLEAN]]
         /\ artifact' \in [Source -> 0..MaxDigest] /\ patched' \in [Source -> 0..MaxDigest]
         /\ store' = store /\ store \in [Source -> [Digests -> {"none", "whole", "torn"}]]
    <2>1. 0 \in 0..MaxDigest
      BY CatalogAssumption
    <2>2. ready' \in [Source -> [Kinds -> BOOLEAN]]
      BY <1>8
    <2>3. QED
      BY <1>8, <2>1, <2>2 DEF CatalogInv, CatalogTypeOK
  <1>19. CASE empty \/ failed
    <2>1. patchStatus(p, lost)
      BY <1>8, <1>19
    <2>2. /\ pass' = Idle /\ queued' \in BOOLEAN /\ unpatched' \subseteq Source
          /\ catalog' \in [sources : SUBSET Source, valid : BOOLEAN, suspended : BOOLEAN,
                           inventory : [Source -> Lists], cond : Conditions]
          /\ Tracked' /\ PassCovers'
      BY <1>9, <1>11, <1>13, <1>14, <1>15, <1>16, <1>17, <2>1, PatchKeeps DEF CatalogInv
    <2>3. QED
      BY <1>15, <1>18, <2>2 DEF CatalogInv, CatalogTypeOK, Objects
  <1>20. CASE ~(empty \/ failed)
    <2>1. pass' = p /\ queued' \in BOOLEAN /\ UNCHANGED <<catalog, unpatched>>
      BY <1>8, <1>20
    <2>2. CatalogTypeOK'
      BY <1>14, <1>15, <1>18, <2>1 DEF CatalogInv, CatalogTypeOK, Objects
    <2>3. Tracked'
      BY <1>16, <2>1 DEF Tracked
    <2>4. PassCovers'
      <3>1. \A s \in Source \ (p.sources \cup unpatched) : \A k \in Owned :
                objs'[s][k] # "absent" => k \in ToSet(p.inventory[s])
        BY <1>14, <1>17
      <3>2. p.todo \subseteq p.sources /\ p.cond.reason = "Progressing"
        BY <1>13, <1>14, <1>20
      <3>3. QED
        BY <2>1, <3>1, <3>2 DEF PassCovers, Covers
    <2>5. QED
      BY <2>2, <2>3, <2>4 DEF CatalogInv
  <1>21. QED
    BY <1>19, <1>20

\* A source: the pass only makes objects of a source that it works on.
LEMMA ReconcileSourceKeeps ==
    ASSUME CatalogInv, NEW s \in Source, NEW stage, ReconcileSource(s, stage)
    PROVE  CatalogInv'
  <1>1. PICK git : git = (stage # "git")
    OBVIOUS
  <1>2. PICK generator : generator = (git /\ stage # "generator")
    OBVIOUS
  <1>3. PICK usable : usable = (/\ generator /\ stage # "artifact" /\ artifact[s] # 0
                                /\ objectReadiness(s, "Artifact"))
    OBVIOUS
  <1>4. PICK fetched : fetched = (usable /\ s \in Overridden /\ stage # "download")
    OBVIOUS
  <1>5. PICK files : files = IF fetched THEN fetchArtifact(store[s], artifact[s]) ELSE store[s]
    OBVIOUS
  <1>25. PICK patches : patches = IF s \in Overridden
                                  THEN getOptionOverridePatches(files[artifact[s]], artifact[s])
                                  ELSE "none"
    OBVIOUS
  <1>6. PICK kustomization : kustomization =
                       (/\ usable /\ stage \notin {"download", "kustomization"}
                        /\ patches # "error")
    OBVIOUS
  <1>7. PICK o1 : o1 = IF git THEN reconcileGitRepository(objs[s]) ELSE objs[s]
    OBVIOUS
  <1>8. PICK o2 : o2 = IF generator THEN reconcileArtifactGeneration(o1) ELSE o1
    OBVIOUS
  <1>9. PICK o3 : o3 = IF kustomization THEN reconcileKustomization(o2) ELSE o2
    OBVIOUS
  <1>10. /\ pass.pc = "sources" /\ s \in pass.todo
         /\ store' = [store EXCEPT ![s] = files]
         /\ objs' = [objs EXCEPT ![s] = o3]
         /\ patched' = [patched EXCEPT ![s] =
                       IF kustomization THEN IF patches = "patches" THEN artifact[s] ELSE 0 ELSE @]
         /\ pass' = [pass EXCEPT
                      !.todo = @ \ {s},
                      !.failed = @ \/ ~kustomization,
                      !.pc = IF pass.todo = {s} THEN "verify" ELSE @,
                      !.inventory[s] = IF git THEN @ ELSE setInventory(@, "Git")]
         /\ queued' = (queued \/ objs' # objs \/ patched' # patched)
         /\ ready' = [ready EXCEPT ![s] = [k \in Kinds |->
                       /\ @[k]
                       /\ k \in Owned => objs'[s][k] = objs[s][k]
                       /\ k = "Kustomization" => patched'[s] = patched[s]]]
         /\ UNCHANGED <<catalog, artifact, unpatched>>
    BY <1>1, <1>2, <1>3, <1>4, <1>5, <1>6, <1>7, <1>8, <1>9, <1>25 DEF ReconcileSource
  <1>11. /\ pass \in Passes /\ pass # Idle /\ pass.todo \subseteq pass.sources
         /\ pass.cond.reason = "Progressing"
         /\ \A t \in Source \ (pass.sources \cup unpatched) : Covers(pass.inventory[t], t)
    <2>1. pass \in Passes /\ pass # Idle
      BY <1>10, CatalogFacts DEF CatalogInv
    <2>2. QED
      BY <2>1 DEF CatalogInv, PassCovers
  <1>12. PICK list : list = IF git THEN pass.inventory[s] ELSE setInventory(pass.inventory[s], "Git")
    OBVIOUS
  <1>13. PICK inventory : /\ inventory = [pass.inventory EXCEPT ![s] = list]
                          /\ inventory \in [Source -> Lists]
                          /\ \A t \in Source \ {s} : inventory[t] = pass.inventory[t]
    <2>1. pass.inventory \in [Source -> Lists]
      BY <1>11 DEF Passes
    <2>2. setInventory(pass.inventory[s], "Git") \in Lists
      BY <2>1, SetInventoryFacts DEF Kinds
    <2>3. QED
      BY <1>12, <2>1, <2>2
  <1>14. /\ pass' \in Passes /\ pass'.sources = pass.sources /\ pass'.cond = pass.cond
         /\ pass'.inventory = inventory /\ pass'.todo = pass.todo \ {s}
         /\ pass' # Idle /\ pass'.pc # "idle"
    <2>1. pass' = [pass EXCEPT !.todo = pass.todo \ {s},
                      !.failed = pass.failed \/ ~kustomization,
                      !.pc = IF pass.todo = {s} THEN "verify" ELSE pass.pc,
                      !.inventory = inventory]
      BY <1>10, <1>12, <1>13
    <2>2. /\ pass' \in Passes /\ pass'.sources = pass.sources /\ pass'.cond = pass.cond
          /\ pass'.inventory = inventory /\ pass'.todo = pass.todo \ {s}
      BY <1>11, <1>13, <2>1 DEF Passes
    <2>3. QED
      BY <2>2 DEF Idle, Passes
  <1>15. o3 \in [Owned -> {"absent", "live", "suspended"}]
    <2>1. objs[s] \in [Owned -> {"absent", "live", "suspended"}]
      BY DEF CatalogInv, CatalogTypeOK
    <2>2. o1 \in [Owned -> {"absent", "live", "suspended"}]
      BY <1>7, <2>1 DEF reconcileGitRepository
    <2>3. o2 \in [Owned -> {"absent", "live", "suspended"}]
      BY <1>8, <2>2 DEF reconcileArtifactGeneration
    <2>4. QED
      BY <1>9, <2>3 DEF reconcileKustomization
  <1>16. files \in [Digests -> {"none", "whole", "torn"}]
    <2>1. store[s] \in [Digests -> {"none", "whole", "torn"}]
      BY DEF CatalogInv, CatalogTypeOK
    <2>2. CASE fetched
      <3>1. artifact[s] \in Digests
        <4>1. artifact[s] \in 0..MaxDigest /\ artifact[s] # 0
          BY <1>3, <1>4, <2>2 DEF CatalogInv, CatalogTypeOK
        <4>2. QED
          BY <4>1, CatalogAssumption DEF Digests
      <3>2. Get(store[s], artifact[s]) \in {"none", "whole", "torn"}
        BY <2>1, <3>1 DEF Get
      <3>3. Save(store[s], artifact[s], Get(store[s], artifact[s]))
               \in [Digests -> {"none", "whole", "torn"}]
        BY <2>1, <3>2 DEF Save
      <3>4. QED
        BY <1>5, <2>2, <3>3 DEF fetchArtifact, DeleteAllExcept
    <2>3. CASE ~fetched
      BY <1>5, <2>1, <2>3
    <2>4. QED
      BY <2>2, <2>3
  <1>17. objs' \in Objects /\ \A t \in Source \ {s} : objs'[t] = objs[t]
    BY <1>10, <1>15 DEF Objects, CatalogInv, CatalogTypeOK
  <1>18. store' \in [Source -> [Digests -> {"none", "whole", "torn"}]]
    BY <1>10, <1>16 DEF CatalogInv, CatalogTypeOK
  <1>19. patched' \in [Source -> 0..MaxDigest] /\ queued' \in BOOLEAN
    BY <1>10, CatalogAssumption DEF CatalogInv, CatalogTypeOK
  <1>20. ready' \in [Source -> [Kinds -> BOOLEAN]]
    <2>1. PICK r : r = [k \in Kinds |->
                       /\ ready[s][k]
                       /\ k \in Owned => objs'[s][k] = objs[s][k]
                       /\ k = "Kustomization" => patched'[s] = patched[s]]
      OBVIOUS
    <2>2. r \in [Kinds -> BOOLEAN]
      BY <2>1
    <2>3. ready' = [ready EXCEPT ![s] = r]
      BY <1>10, <2>1
    <2>4. QED
      BY <2>2, <2>3 DEF CatalogInv, CatalogTypeOK
  <1>21. CatalogTypeOK'
    BY <1>10, <1>14, <1>17, <1>18, <1>19, <1>20 DEF CatalogInv, CatalogTypeOK, Objects
  <1>22. Tracked'
    <2>1. SUFFICES ASSUME NEW t \in Source, NEW k \in Owned, objs'[t][k] # "absent",
                          t \notin pass.sources
                   PROVE  k \in ToSet(catalog.inventory[t]) \/ t \in unpatched
      BY <1>10, <1>14 DEF Tracked
    <2>2. t # s
      BY <1>10, <1>11, <2>1
    <2>3. objs[t][k] # "absent"
      BY <1>17, <2>1, <2>2
    <2>4. QED
      BY <2>1, <2>3 DEF CatalogInv, Tracked
  <1>23. PassCovers'
    <2>1. \A t \in Source \ (pass.sources \cup unpatched) : \A k \in Owned :
              objs'[t][k] # "absent" => k \in ToSet(inventory[t])
      BY <1>10, <1>11, <1>13, <1>17 DEF Covers
    <2>2. QED
      BY <1>10, <1>11, <1>14, <2>1 DEF PassCovers, Covers
  <1>24. QED
    BY <1>21, <1>22, <1>23 DEF CatalogInv

\* The verification records every object of the sources of its pass.
LEMMA VerifyStatusKeeps ==
    ASSUME CatalogInv, NEW lost \in BOOLEAN, verifyStatus(lost)
    PROVE  CatalogInv'
  <1>1. pass.pc = "verify" /\ UNCHANGED <<objs, ready, artifact, patched, store>>
    BY DEF verifyStatus
  <1>2. /\ pass \in Passes /\ pass.cond.reason = "Progressing"
        /\ \A t \in Source \ (pass.sources \cup unpatched) : Covers(pass.inventory[t], t)
    <2>1. pass \in Passes /\ pass # Idle
      BY <1>1, CatalogFacts DEF CatalogInv
    <2>2. QED
      BY <2>1 DEF CatalogInv, PassCovers
  <1>3. PICK inventory : inventory =
                 [s \in Source |-> IF s \in pass.sources
                                   THEN Record(pass.inventory[s]) ELSE pass.inventory[s]]
    OBVIOUS
  <1>4. PICK cond : cond = IF (\E s \in pass.sources, k \in Kinds : ~objectReadiness(s, k))
                              \/ pass.failed THEN False("NotReady")
                           ELSE [status |-> "True", reason |-> "Ready"]
    OBVIOUS
  <1>5. PICK p : p = [pass EXCEPT !.inventory = inventory, !.cond = cond]
    OBVIOUS
  <1>6. patchStatus(p, lost)
    BY <1>2, <1>3, <1>4, <1>5 DEF verifyStatus
  <1>7. cond \in Conditions
    BY <1>4 DEF False, Conditions, Reasons
  <1>8. /\ inventory \in [Source -> Lists]
        /\ \A s \in pass.sources : Kinds \subseteq ToSet(inventory[s])
        /\ \A s \in Source \ pass.sources : inventory[s] = pass.inventory[s]
    <2>1. pass.inventory \in [Source -> Lists] /\ pass.sources \subseteq Source
      BY <1>2 DEF Passes
    <2>2. \A s \in Source : Record(pass.inventory[s]) \in Lists
                            /\ Kinds \subseteq ToSet(Record(pass.inventory[s]))
      BY <2>1, RecordFacts
    <2>3. QED
      BY <1>3, <2>1, <2>2
  <1>9. p.sources = pass.sources /\ p.inventory = inventory /\ p.cond = cond
        /\ pass.sources \subseteq Source
    BY <1>2, <1>5 DEF Passes
  <1>10. objs' \in Objects /\ CatalogTypeOK
    BY <1>1 DEF CatalogInv, CatalogTypeOK, Objects
  <1>11. \A s \in Source \ (unpatched \cup p.sources) : \A k \in Owned :
             objs'[s][k] # "absent" => k \in ToSet(catalog.inventory[s])
    BY <1>1, <1>9 DEF CatalogInv, Tracked
  <1>12. \A s \in Source \ unpatched : \A k \in Owned :
             objs'[s][k] # "absent" => k \in ToSet(p.inventory[s])
    BY <1>1, <1>2, <1>8, <1>9 DEF Covers, Owned
  <1>13. /\ pass' = Idle /\ queued' \in BOOLEAN /\ unpatched' \subseteq Source
         /\ catalog' \in [sources : SUBSET Source, valid : BOOLEAN, suspended : BOOLEAN,
                          inventory : [Source -> Lists], cond : Conditions]
         /\ Tracked' /\ PassCovers'
    BY <1>6, <1>7, <1>8, <1>9, <1>10, <1>11, <1>12, PatchKeeps
  <1>14. QED
    BY <1>1, <1>10, <1>13 DEF CatalogInv, CatalogTypeOK, Objects

\* A restart loses the inventory of the pass; its sources are the ones that are no longer
\* tracked.
LEMMA RestartKeeps ==
    ASSUME CatalogInv, Restart
    PROVE  CatalogInv'
  <1>1. /\ pass' = Idle /\ queued' = TRUE /\ unpatched' = unpatched \cup pass.sources
        /\ UNCHANGED <<catalog, objs, ready, artifact, patched>> /\ pass.pc # "idle"
    BY DEF Restart
  <1>2. store' \in [Source -> [Digests -> {"none", "whole", "torn"}]]
    <2>1. PICK all : all = {t \in pass.todo \cap Overridden :
                  artifact[t] # 0 /\ store[t][artifact[t]] = "none"}
      OBVIOUS
    <2>2. store' = store \/ \E s \in all : store' = [store EXCEPT ![s][artifact[s]] = "torn"]
      BY <2>1 DEF Restart
    <2>3. ASSUME NEW s \in all, store' = [store EXCEPT ![s][artifact[s]] = "torn"]
          PROVE  store' \in [Source -> [Digests -> {"none", "whole", "torn"}]]
      <3>1. PICK row : row = [store[s] EXCEPT ![artifact[s]] = "torn"]
        OBVIOUS
      <3>2. s \in Source
        BY <2>1, CatalogAssumption
      <3>3. row \in [Digests -> {"none", "whole", "torn"}]
        BY <3>1, <3>2 DEF CatalogInv, CatalogTypeOK
      <3>4. store' = [store EXCEPT ![s] = row]
        BY <2>3, <3>1
      <3>5. QED
        BY <3>3, <3>4 DEF CatalogInv, CatalogTypeOK
    <2>4. QED
      BY <2>2, <2>3 DEF CatalogInv, CatalogTypeOK
  <1>3. pass \in Passes /\ pass.sources \subseteq Source
    BY <1>1, CatalogFacts DEF CatalogInv, Passes
  <1>4. CatalogTypeOK'
    BY <1>1, <1>2, <1>3 DEF CatalogInv, CatalogTypeOK
  <1>5. Tracked'
    BY <1>1 DEF CatalogInv, Tracked
  <1>6. QED
    BY <1>1, <1>4, <1>5 DEF CatalogInv, PassCovers

\* A resync only queues the Catalog.
LEMMA ResyncKeeps ==
    ASSUME CatalogInv, Resync
    PROVE  CatalogInv'
  <1>1. queued' = TRUE
        /\ UNCHANGED <<catalog, pass, objs, ready, artifact, patched, store, unpatched>>
    BY DEF Resync
  <1>2. QED
    BY <1>1, CatalogFrame DEF CatalogInv, CatalogTypeOK

\* An edit leaves the status and the objects alone.
LEMMA EditCatalogKeeps ==
    ASSUME CatalogInv, NEW sources \in SUBSET Source, NEW valid \in BOOLEAN,
           NEW suspended \in BOOLEAN, EditCatalog(sources, valid, suspended)
    PROVE  CatalogInv'
  <1>1. /\ catalog' = [catalog EXCEPT !.sources = sources, !.valid = valid,
                                      !.suspended = suspended]
        /\ queued' = TRUE
        /\ UNCHANGED <<pass, objs, ready, artifact, patched, store, unpatched>>
    BY DEF EditCatalog
  <1>2. /\ catalog' \in [sources : SUBSET Source, valid : BOOLEAN, suspended : BOOLEAN,
                         inventory : [Source -> Lists], cond : Conditions]
        /\ catalog'.inventory = catalog.inventory
    BY <1>1 DEF CatalogInv, CatalogTypeOK
  <1>3. CatalogTypeOK'
    BY <1>1, <1>2 DEF CatalogInv, CatalogTypeOK
  <1>4. Tracked' /\ PassCovers'
    BY <1>1, <1>2 DEF CatalogInv, Tracked, PassCovers, Covers
  <1>5. QED
    BY <1>3, <1>4 DEF CatalogInv

\* One step of the Catalog controller.
LEMMA CatalogControllerKeeps ==
    ASSUME CatalogInv, CatalogController \/ Restart \/ Resync
    PROVE  CatalogInv'
  <1>1. CASE CatalogController
    BY <1>1, EnsureSuspendedKeeps, ValidateSourcesKeeps, VerifyStatusKeeps,
       CheckAndCleanInventoryKeeps, ReconcileSourceKeeps DEF CatalogController
  <1>2. QED
    BY <1>1, RestartKeeps, ResyncKeeps

-----------------------------------------------------------------------------
(* The definitions and their charts.                                          *)

DefinitionStates == [version : 0..MaxVersion, synced : 0..MaxVersion,
                     ready : Statuses, chartReady : Statuses, oci : Statuses]
PdInv == PdTypeOK /\ ChartsAreMirrored /\ SyncedIsMirrored

\* A pass over a definition makes a chart only behind a replication that went well, or
\* that the status says has been done.
LEMMA PdEnsureCreatedKeeps ==
    ASSUME PdInv, NEW n \in Definition, NEW call, PdEnsureCreated(n, call)
    PROVE  PdInv'
  <1>1. PICK p : p = [pd[n] EXCEPT !.chartReady = Initialized(@), !.oci = Initialized(@)]
    OBVIOUS
  <1>2. pd[n] \in DefinitionStates
    BY DEF PdInv, PdTypeOK, DefinitionStates
  <1>3. /\ p \in DefinitionStates /\ p.version = pd[n].version /\ p.synced = pd[n].synced
        /\ p.oci \in Statuses /\ p.chartReady \in Statuses
        /\ p.version \in 0..MaxVersion /\ p.synced \in 0..MaxVersion
    BY <1>1, <1>2 DEF DefinitionStates, Initialized, Statuses
  <1>4. PICK copies : copies = (Mirroring /\ p.synced # p.version)
    OBVIOUS
  <1>5. PICK replicated : replicated = (call \notin {"repository", "config", "replication"})
    OBVIOUS
  <1>6. PICK oci : oci = IF call = "repository" THEN p.oci ELSE ensureChartReplication(p, call)
    OBVIOUS
  <1>7. PICK chart : chart = (replicated /\ call # "chart")
    OBVIOUS
  <1>8. PICK cleaned : cleaned = (chart /\ call # "cleanup")
    OBVIOUS
  <1>9. PICK chartReady : chartReady = IF cleaned THEN setHelmChartReadyCondition(n, p.version)
                                       ELSE p.chartReady
    OBVIOUS
  <1>10. PICK more : more = IF copies /\ replicated THEN {p.version} ELSE {}
    OBVIOUS
  <1>11. PICK all : all = IF chart THEN charts[n] \cup {p.version} ELSE charts[n]
    OBVIOUS
  <1>12. PICK left : left = IF cleaned THEN all \cap {p.version} ELSE all
    OBVIOUS
  <1>13. PICK synced : synced = IF copies /\ replicated THEN p.version ELSE p.synced
    OBVIOUS
  <1>14. PICK status : status = setReadyCondition(p.version, chartReady, oci)
    OBVIOUS
  <1>15. PICK new : new = [p EXCEPT !.synced = synced, !.oci = oci, !.chartReady = chartReady,
                                    !.ready = status]
    OBVIOUS
  <1>16. /\ p.version # 0
         /\ mirrored' = [mirrored EXCEPT ![n] = @ \cup more]
         /\ charts' = [charts EXCEPT ![n] = left]
         /\ chartOk' = [chartOk EXCEPT ![n] = @ \cap charts'[n]]
         /\ pd' = [pd EXCEPT ![n] = new]
         /\ pdQueued' \subseteq pdQueued
    <2>1. p.version # 0 /\ pdQueued' \subseteq pdQueued
          /\ chartOk' = [chartOk EXCEPT ![n] = @ \cap charts'[n]]
      BY <1>1 DEF PdEnsureCreated
    <2>2. mirrored' = [mirrored EXCEPT ![n] = @ \cup more]
      BY <1>1, <1>4, <1>5, <1>10 DEF PdEnsureCreated
    <2>3. charts' = [charts EXCEPT ![n] = left]
      BY <1>1, <1>5, <1>7, <1>8, <1>11, <1>12
      DEF PdEnsureCreated, createUpdateHelmChart, deleteOrphanedHelmCharts, AfterReplication
    <2>4. pd' = [pd EXCEPT ![n] = new]
      <3>1. PICK ready1 : ready1 = IF (AfterReplication(call) /\ call # "chart") /\ call # "cleanup"
                                   THEN setHelmChartReadyCondition(n, p.version)
                                   ELSE p.chartReady
        OBVIOUS
      <3>2. PICK synced1 : synced1 = IF /\ Mirroring /\ p.synced # p.version
                                        /\ call \notin {"repository", "config", "replication"}
                                     THEN p.version ELSE p.synced
        OBVIOUS
      <3>3. pd' = [pd EXCEPT ![n] =
                    [p EXCEPT !.synced = synced1, !.oci = oci, !.chartReady = ready1,
                              !.ready = setReadyCondition(p.version, ready1, oci)]]
        BY <1>1, <1>6, <3>1, <3>2 DEF PdEnsureCreated
      <3>4. ready1 = chartReady
        BY <1>5, <1>7, <1>8, <1>9, <3>1 DEF AfterReplication
      <3>5. synced1 = synced
        BY <1>4, <1>5, <1>13, <3>2
      <3>6. QED
        BY <1>14, <1>15, <3>3, <3>4, <3>5
    <2>5. QED
      BY <2>1, <2>2, <2>3, <2>4
  <1>17. p.version \in Versions
    BY <1>3, <1>16, DefinitionAssumption DEF Versions
  <1>18. oci \in Statuses /\ chartReady \in Statuses
    BY <1>3, <1>6, <1>9 DEF ensureChartReplication, setHelmChartReadyCondition, Statuses
  <1>19. status \in Statuses
    BY <1>14, <1>18 DEF setReadyCondition, Statuses
  <1>20. new \in DefinitionStates /\ new.synced = synced
    BY <1>3, <1>13, <1>15, <1>18, <1>19 DEF DefinitionStates
  <1>21. /\ mirrored[n] \subseteq Versions /\ charts[n] \subseteq Versions
         /\ chartOk[n] \subseteq Versions
    BY DEF PdInv, PdTypeOK
  <1>22. /\ more \subseteq Versions /\ left \subseteq Versions
    BY <1>10, <1>11, <1>12, <1>17, <1>21
  <1>23. PdTypeOK'
    <2>1. mirrored' \in [Definition -> SUBSET Versions] /\ charts' \in [Definition -> SUBSET Versions]
      BY <1>16, <1>22 DEF PdInv, PdTypeOK
    <2>2. chartOk' \in [Definition -> SUBSET Versions]
      BY <1>16 DEF PdInv, PdTypeOK
    <2>3. pd' \in [Definition -> DefinitionStates] /\ pdQueued' \subseteq Definition
      BY <1>16, <1>20 DEF PdInv, PdTypeOK, DefinitionStates
    <2>4. QED
      BY <2>1, <2>2, <2>3 DEF PdTypeOK, DefinitionStates
  <1>24. SyncedIsMirrored' /\ ChartsAreMirrored'
    <2>1. SUFFICES ASSUME Mirroring
                   PROVE  /\ \A m \in Definition : pd'[m].synced # 0 => pd'[m].synced \in mirrored'[m]
                          /\ \A m \in Definition : charts'[m] \subseteq mirrored'[m]
      BY DEF SyncedIsMirrored, ChartsAreMirrored
    <2>2. /\ \A m \in Definition : pd[m].synced # 0 => pd[m].synced \in mirrored[m]
          /\ \A m \in Definition : charts[m] \subseteq mirrored[m]
      BY <2>1 DEF PdInv, SyncedIsMirrored, ChartsAreMirrored
    <2>3. \A m \in Definition \ {n} : /\ pd'[m] = pd[m] /\ charts'[m] = charts[m]
                                      /\ mirrored'[m] = mirrored[m]
      BY <1>16 DEF PdInv, PdTypeOK
    <2>4. pd'[n] = new /\ charts'[n] = left /\ mirrored'[n] = mirrored[n] \cup more
      BY <1>16 DEF PdInv, PdTypeOK
    <2>5. synced # 0 => synced \in mirrored[n] \cup more
      BY <1>3, <1>10, <1>13, <2>2
    <2>6. replicated => p.version \in mirrored[n] \cup more
      BY <1>3, <1>4, <1>10, <1>16, <2>1, <2>2
    <2>7. left \subseteq mirrored[n] \cup more
      BY <1>7, <1>11, <1>12, <2>2, <2>6
    <2>8. QED
      BY <1>20, <2>2, <2>3, <2>4, <2>5, <2>7
  <1>25. QED
    BY <1>23, <1>24 DEF PdInv

\* A version without a chart makes none.
LEMMA NoHelmChartKeeps ==
    ASSUME PdInv, NEW n \in Definition, NoHelmChart(n)
    PROVE  PdInv'
  <1>1. PICK chartReady : chartReady = Initialized(pd[n].chartReady)
    OBVIOUS
  <1>2. PICK p : p = [pd[n] EXCEPT !.chartReady = chartReady, !.oci = "True"]
    OBVIOUS
  <1>3. PICK status : status = setReadyCondition(p.version, p.chartReady, p.oci)
    OBVIOUS
  <1>4. PICK new : new = [p EXCEPT !.ready = status]
    OBVIOUS
  <1>5. /\ pd' = [pd EXCEPT ![n] = new] /\ pdQueued' \subseteq pdQueued
        /\ UNCHANGED <<charts, chartOk, mirrored>>
    BY <1>1, <1>2, <1>3, <1>4 DEF NoHelmChart
  <1>6. pd[n] \in DefinitionStates /\ pd \in [Definition -> DefinitionStates]
    BY DEF PdInv, PdTypeOK, DefinitionStates
  <1>7. chartReady \in Statuses /\ status \in Statuses
    BY <1>1, <1>3, <1>6 DEF DefinitionStates, Initialized, setReadyCondition, Statuses
  <1>8. new \in DefinitionStates /\ new.synced = pd[n].synced
    BY <1>2, <1>4, <1>6, <1>7 DEF DefinitionStates, Statuses
  <1>9. /\ pd' \in [Definition -> DefinitionStates]
        /\ \A m \in Definition : pd'[m].synced = pd[m].synced
    BY <1>5, <1>6, <1>8
  <1>10. QED
    BY <1>5, <1>9 DEF PdInv, PdTypeOK, SyncedIsMirrored, ChartsAreMirrored, DefinitionStates

\* A step of the definitions or of their charts.
LEMMA DefinitionStepsKeep ==
    ASSUME PdInv, PdController \/ \E n \in Definition, v \in Versions : FluxChart(n, v)
    PROVE  PdInv'
  <1>1. CASE PdController
    BY <1>1, PdEnsureCreatedKeeps, NoHelmChartKeeps DEF PdController
  <1>2. ASSUME NEW n \in Definition, NEW v \in Versions, FluxChart(n, v)
        PROVE  PdInv'
    <2>1. /\ chartOk' = [chartOk EXCEPT ![n] = @ \cup {v}]
          /\ pdQueued' = pdQueued \cup {n}
          /\ UNCHANGED <<pd, charts, mirrored>>
      BY <1>2 DEF FluxChart
    <2>2. QED
      BY <2>1 DEF PdInv, PdTypeOK, SyncedIsMirrored, ChartsAreMirrored
  <1>3. QED
    BY <1>1, <1>2

-----------------------------------------------------------------------------
(* Flux.                                                                      *)

FluxTypeOK == head \in [Source -> Digests] /\ replaced \subseteq {"named", "other"}

\* A revision of a source is a version of a chart.
LEMMA DigestIsVersion == Digests \subseteq 0..MaxDigest /\ 0..MaxDigest \subseteq 0..MaxVersion
  BY CatalogAssumption, DefinitionAssumption, DeliveryAssumption DEF Digests

\* Flux changes no object, and a patch that finds its option replaces that one.
LEMMA FluxKeeps ==
    ASSUME CatalogInv, PdInv, FluxTypeOK, OverridesHitTheirOption, NEW s \in Source,
           FluxGit(s) \/ FluxArtifact(s) \/ FluxGenerator(s) \/ FluxApply(s)
    PROVE  CatalogInv' /\ PdInv' /\ FluxTypeOK' /\ OverridesHitTheirOption'
           /\ UNCHANGED <<edits, mishaps>>
  <1>1. UNCHANGED <<catalog, pass, objs, patched, store, unpatched, edits, mishaps, head>>
    BY DEF FluxGit, FluxArtifact, FluxGenerator, FluxApply, FluxUnchanged
  <1>2. Tracked' /\ PassCovers'
    BY <1>1, CatalogFrame DEF CatalogInv
  <1>3. queued' \in BOOLEAN /\ ready' \in [Source -> [Kinds -> BOOLEAN]]
        /\ artifact' \in [Source -> 0..MaxDigest]
    <2>0. /\ queued \in BOOLEAN /\ ready \in [Source -> [Kinds -> BOOLEAN]]
          /\ artifact \in [Source -> 0..MaxDigest]
      BY DEF CatalogInv, CatalogTypeOK
    <2>1. ASSUME NEW k \in Kinds, NEW b \in BOOLEAN, SetReady(s, k, b), UNCHANGED artifact
          PROVE  queued' \in BOOLEAN /\ ready' \in [Source -> [Kinds -> BOOLEAN]]
                 /\ artifact' \in [Source -> 0..MaxDigest]
      BY <2>0, <2>1 DEF SetReady
    <2>2. CASE FluxGit(s)
      BY <2>1, <2>2 DEF FluxGit, Kinds
    <2>3. CASE FluxGenerator(s)
      BY <2>1, <2>3 DEF FluxGenerator, Kinds
    <2>4. CASE FluxApply(s)
      <3>1. Applies(s) \in BOOLEAN
        BY DEF Applies
      <3>2. SetReady(s, "Kustomization", Applies(s)) /\ UNCHANGED artifact
        BY <2>4 DEF FluxApply
      <3>3. QED
        BY <2>0, <3>1, <3>2 DEF SetReady, Kinds
    <2>5. CASE FluxArtifact(s)
      <3>1. /\ artifact' = [artifact EXCEPT ![s] = head[s]] /\ queued' = queued
            /\ ready' = [ready EXCEPT ![s]["Artifact"] = TRUE, ![s]["Generator"] = FALSE]
        BY <2>5 DEF FluxArtifact
      <3>2. head[s] \in 0..MaxDigest
        BY DigestIsVersion DEF FluxTypeOK
      <3>3. QED
        BY <2>0, <3>1, <3>2
    <2>6. QED
      BY <2>2, <2>3, <2>4, <2>5
  <1>4. CatalogInv'
    BY <1>1, <1>2, <1>3 DEF CatalogInv, CatalogTypeOK
  <1>5. PdInv' /\ FluxTypeOK' /\ OverridesHitTheirOption'
    <2>1. CASE UNCHANGED <<pdVars, replaced>>
      BY <1>1, <2>1 DEF PdInv, PdTypeOK, SyncedIsMirrored, ChartsAreMirrored, pdVars,
                        FluxTypeOK, OverridesHitTheirOption
    <2>2. CASE FluxApply(s)
      <3>1. replaced' \subseteq replaced \cup {"named"}
        BY <2>2 DEF FluxApply, Applies, BuildJSONPatchReplace
      <3>2. CASE UNCHANGED pdVars
        BY <1>1, <3>1, <3>2 DEF PdInv, PdTypeOK, SyncedIsMirrored, ChartsAreMirrored, pdVars,
                          FluxTypeOK, OverridesHitTheirOption
      <3>3. CASE /\ s \in Definition
                 /\ pd' = [pd EXCEPT ![s].version = artifact[s]]
                 /\ pdQueued' = pdQueued \cup {s}
                 /\ UNCHANGED <<charts, chartOk, mirrored>>
        <4>1. PICK new : new = [pd[s] EXCEPT !.version = artifact[s]]
          OBVIOUS
        <4>2. artifact[s] \in 0..MaxVersion
          BY DigestIsVersion DEF CatalogInv, CatalogTypeOK
        <4>3. pd[s] \in DefinitionStates /\ pd \in [Definition -> DefinitionStates]
          BY <3>3 DEF PdInv, PdTypeOK, DefinitionStates
        <4>4. new \in DefinitionStates /\ new.synced = pd[s].synced
          BY <4>1, <4>2, <4>3 DEF DefinitionStates
        <4>5. pd' = [pd EXCEPT ![s] = new]
          BY <3>3, <4>1
        <4>6. /\ pd' \in [Definition -> DefinitionStates]
              /\ \A n \in Definition : pd'[n].synced = pd[n].synced
          BY <4>3, <4>4, <4>5
        <4>7. PdInv'
          BY <3>3, <4>6 DEF PdInv, PdTypeOK, SyncedIsMirrored, ChartsAreMirrored, DefinitionStates
        <4>8. QED
          BY <1>1, <3>1, <4>7 DEF FluxTypeOK, OverridesHitTheirOption
      <3>4. QED
        BY <2>2, <3>2, <3>3 DEF FluxApply, Delivers
    <2>3. QED
      BY <2>1, <2>2 DEF FluxGit, FluxArtifact, FluxGenerator
  <1>6. QED
    BY <1>1, <1>4, <1>5

\* An object that fails for a while is still there.
LEMMA FluxFaultKeeps ==
    ASSUME CatalogInv, NEW s \in Source, NEW k \in Kinds, FluxFault(s, k)
    PROVE  CatalogInv'
  <1>1. /\ ready' = [ready EXCEPT ![s][k] = FALSE] /\ queued' = (queued \/ k \in Owned)
        /\ UNCHANGED <<catalog, pass, objs, patched, store, unpatched, artifact>>
    BY DEF FluxFault, SetReady, FluxUnchanged
  <1>2. QED
    BY <1>1, CatalogFrame DEF CatalogInv, CatalogTypeOK

-----------------------------------------------------------------------------
(* The invariant.                                                             *)

\* The mishaps of the Catalog controller stay within their bound.
LEMMA CatalogMishaps ==
    ASSUME mishaps \in 0..MaxMishaps, CatalogController \/ Restart \/ Resync
    PROVE  mishaps' \in 0..MaxMishaps
  <1>1. ASSUME NEW failed \in BOOLEAN, EnsureSuspended(failed)
        PROVE  mishaps' \in 0..MaxMishaps
    BY <1>1, MishapsAssumption DEF EnsureSuspended, Mishap
  <1>2. ASSUME NEW lost \in BOOLEAN, validateSources(lost) \/ verifyStatus(lost)
        PROVE  mishaps' \in 0..MaxMishaps
    <2>1. Mishap(lost)
      BY <1>2 DEF validateSources, verifyStatus
    <2>2. QED
      BY <2>1, MishapsAssumption DEF Mishap
  <1>3. ASSUME NEW n \in [Source -> 0..2], NEW f \in Source \cup {"none"}, NEW lost \in BOOLEAN,
               checkAndCleanInventory(n, f, lost)
        PROVE  mishaps' \in 0..MaxMishaps
    <2>1. Mishap((f \in Source \ catalog.sources) \/ lost)
      BY <1>3 DEF checkAndCleanInventory
    <2>2. QED
      BY <2>1, MishapsAssumption DEF Mishap
  <1>4. ASSUME NEW s \in Source, NEW stage, ReconcileSource(s, stage)
        PROVE  mishaps' \in 0..MaxMishaps
    <2>1. Mishap(stage # "none")
      BY <1>4 DEF ReconcileSource
    <2>2. QED
      BY <2>1, MishapsAssumption DEF Mishap
  <1>5. CASE Restart \/ Resync
    BY <1>5, MishapsAssumption DEF Restart, Resync, Mishap
  <1>6. QED
    BY <1>1, <1>2, <1>3, <1>4, <1>5 DEF CatalogController

DeliveryParts == CatalogInv /\ PdInv /\ FluxTypeOK /\ OverridesHitTheirOption
                    /\ edits \in 0..MaxEdits /\ mishaps \in 0..MaxMishaps

\* The invariant by components.
LEMMA DeliverySplits == DeliveryInv <=> DeliveryParts
  BY DEF DeliveryInv, DeliveryParts, TypeOK, CatalogInv, PdInv, FluxTypeOK

\* The invariant holds initially.
LEMMA DeliveryInit == Init => DeliveryInv
  <1> SUFFICES ASSUME Init PROVE DeliveryParts
    BY DeliverySplits
  <1>1. edits \in 0..MaxEdits /\ mishaps \in 0..MaxMishaps
    BY DeliveryAssumption, MishapsAssumption DEF Init
  <1>2. <<>> \in Lists
    BY DEF Lists
  <1>3. CatalogTypeOK
    BY <1>2, CatalogAssumption
    DEF Init, CatalogInit, CatalogTypeOK, NoInventory, NoCondition, Conditions, Reasons
  <1>4. Tracked /\ PassCovers
    BY DEF Init, CatalogInit, Tracked, PassCovers
  <1>5. PdInv
    BY DefinitionAssumption DEF Init, PdInit, PdInv, PdTypeOK, Statuses, SyncedIsMirrored, ChartsAreMirrored
  <1>6. FluxTypeOK /\ OverridesHitTheirOption
    BY CatalogAssumption DEF Init, FluxTypeOK, OverridesHitTheirOption, Digests
  <1>7. QED
    BY <1>1, <1>3, <1>4, <1>5, <1>6 DEF DeliveryParts, CatalogInv

\* Every step keeps the invariant.
LEMMA DeliveryStep == DeliveryInv /\ [Next]_vars => DeliveryInv'
  <1> SUFFICES ASSUME DeliveryParts, [Next]_vars PROVE DeliveryParts'
    BY DEF DeliveryInv, DeliveryParts, TypeOK, CatalogInv, PdInv, FluxTypeOK
  <1> USE DEF DeliveryParts
  <1>1. ASSUME CatalogController \/ Restart \/ Resync, UNCHANGED <<pdVars, head, replaced, edits>>
        PROVE  DeliveryParts'
    <2>1. CatalogInv'
      BY <1>1, CatalogControllerKeeps
    <2>2. mishaps' \in 0..MaxMishaps
      BY <1>1, CatalogMishaps
    <2>3. QED
      BY <1>1, <2>1, <2>2 DEF PdInv, PdTypeOK, SyncedIsMirrored, ChartsAreMirrored, pdVars,
                              FluxTypeOK, OverridesHitTheirOption
  <1>2. CASE DefinitionSteps
    <2>1. PdInv'
      BY <1>2, DefinitionStepsKeep DEF DefinitionSteps
    <2>2. UNCHANGED <<catalogVars, head, replaced, edits>>
      BY <1>2 DEF DefinitionSteps
    <2>3. CatalogInv'
      BY <2>2, CatalogFrame DEF CatalogInv, CatalogTypeOK, catalogVars
    <2>4. mishaps' \in 0..MaxMishaps
      <3>1. ASSUME NEW n \in Definition, NEW call, PdEnsureCreated(n, call)
            PROVE  mishaps' \in 0..MaxMishaps
        <4>1. Mishap(call # "none")
          BY <3>1 DEF PdEnsureCreated
        <4>2. QED
          BY <4>1, MishapsAssumption DEF Mishap
      <3>2. ASSUME NEW n \in Definition, NEW v \in Versions, FluxChart(n, v)
            PROVE  mishaps' \in 0..MaxMishaps
        BY <3>2 DEF FluxChart
      <3>3. ASSUME NEW n \in Definition, NoHelmChart(n)
            PROVE  mishaps' \in 0..MaxMishaps
        BY <3>3 DEF NoHelmChart
      <3>4. QED
        BY <1>2, <3>1, <3>2, <3>3 DEF DefinitionSteps, PdController
    <2>5. QED
      BY <2>1, <2>2, <2>3, <2>4 DEF FluxTypeOK, OverridesHitTheirOption
  <1>3. CASE Flux
    BY <1>3, FluxKeeps DEF Flux
  <1>4. ASSUME NEW s \in Source, NEW k \in Kinds, FluxFault(s, k)
        PROVE  DeliveryParts'
    <2>1. CatalogInv'
      BY <1>4, FluxFaultKeeps
    <2>2. mishaps' \in 0..MaxMishaps /\ UNCHANGED <<head, replaced, pdVars, edits>>
      BY <1>4, MishapsAssumption DEF FluxFault, FluxUnchanged, Mishap
    <2>3. QED
      BY <2>1, <2>2 DEF PdInv, PdTypeOK, SyncedIsMirrored, ChartsAreMirrored, pdVars,
                        FluxTypeOK, OverridesHitTheirOption
  <1>5. ASSUME NEW s \in Source, Push(s)
        PROVE  DeliveryParts'
    <2>1. /\ head[s] < MaxDigest /\ head' = [head EXCEPT ![s] = @ + 1]
          /\ UNCHANGED <<catalogVars, pdVars, replaced, mishaps, edits>>
      BY <1>5 DEF Push
    <2>2. head' \in [Source -> Digests]
      <3>1. head[s] \in Digests
        BY DEF FluxTypeOK
      <3>2. head[s] + 1 \in Digests
        BY <2>1, <3>1, CatalogAssumption DEF Digests
      <3>3. QED
        BY <2>1, <3>2 DEF FluxTypeOK
    <2>3. CatalogInv'
      BY <2>1, CatalogFrame DEF CatalogInv, CatalogTypeOK, catalogVars
    <2>4. QED
      BY <2>1, <2>2, <2>3 DEF PdInv, PdTypeOK, SyncedIsMirrored, ChartsAreMirrored, pdVars,
                        FluxTypeOK, OverridesHitTheirOption
  <1>6. CASE UserEdit
    <2>1. CatalogInv'
      BY <1>6, EditCatalogKeeps DEF UserEdit
    <2>2. edits' \in 0..MaxEdits
      BY <1>6, DeliveryAssumption DEF UserEdit
    <2>3. UNCHANGED <<pdVars, head, replaced, mishaps>>
      BY <1>6 DEF UserEdit
    <2>4. QED
      BY <2>1, <2>2, <2>3 DEF PdInv, PdTypeOK, SyncedIsMirrored, ChartsAreMirrored, pdVars,
                        FluxTypeOK, OverridesHitTheirOption
  <1>7. CASE UNCHANGED vars
    <2>1. UNCHANGED <<catalogVars, pdVars, mishaps, head, replaced, edits>>
      BY <1>7 DEF vars
    <2>2. CatalogInv'
      BY <2>1, CatalogFrame DEF CatalogInv, CatalogTypeOK, catalogVars
    <2>3. QED
      BY <2>1, <2>2 DEF PdInv, PdTypeOK, SyncedIsMirrored, ChartsAreMirrored, pdVars,
                        FluxTypeOK, OverridesHitTheirOption
  <1>8. QED
    BY <1>1, <1>2, <1>3, <1>4, <1>5, <1>6, <1>7 DEF Next

\* Nothing that exists for a source is lost track of while no status is lost, no override
\* changes another option, and no chart is asked for before it is in the mirror: for all
\* sources, revisions, edits, failing calls and restarts (catalog_controller.go:300-370,
\* kustomize_builder.go:43-60, plugindefinition_controller.go:94-106).
THEOREM DeliveryIsSafe == Spec => []DeliverySafe
  <1>1. DeliveryInv => DeliverySafe
    BY DEF DeliveryInv, DeliverySafe
  <1>2. QED
    BY <1>1, DeliveryInit, DeliveryStep, PTL DEF Spec
==============================================================================
