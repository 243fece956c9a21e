----------------------------- MODULE Propagation -----------------------------
(* The propagation of labels and annotations from an object to one that is    *)
(* made of it: the source declares by name or by prefix which of its keys go  *)
(* over, the destination keeps a record of what came that way, and only that  *)
(* is taken back.                                                             *)

None == "none"
Empty == "empty"     \* a key with the empty value

\* Two labels that may be declared, one by its name and one by the prefix `meta', and one
\* that nobody declares; one annotation.
LabelKeys == {"owned-by", "meta/region", "own"}
AnnotationKeys == {"note"}
Wildcards == {"meta/*"}
HasPrefix(k, w) == k = "meta/region" /\ w = "meta/*"

\* A source: its labels and annotations (None: the key is absent) and the two lists that
\* the annotations propagate-labels and propagate-annotations hold.
labelKeysToPropagate(src) == src.propagateLabels
annotationKeysToPropagate(src) == src.propagateAnnotations

\* A destination has a record of what was propagated; none and one that does not parse
\* say that nothing was.
NoState == [labelKeys |-> {}, annotationKeys |-> {}, parses |-> TRUE]
getAppliedState(dst) == IF dst.applied.parses THEN dst.applied ELSE NoState

\* The keys of the source that a list names, exactly or by their prefix.
Matching(keys, srcLabels) ==
    {k \in LabelKeys : /\ srcLabels[k] # None
                       /\ k \in keys \/ \E w \in keys \cap Wildcards : HasPrefix(k, w)}

containsLabelToPropagate(keys, srcLabels) == Matching(keys, srcLabels) # {}
containsAnnotationToPropagate(keys, srcAnnotations) == \E k \in keys : srcAnnotations[k] # None

cleanupTargetLabels(dst) ==
    [k \in LabelKeys |-> IF k \in getAppliedState(dst).labelKeys THEN None ELSE dst.labels[k]]
cleanupTargetAnnotations(dst) ==
    [k \in AnnotationKeys |->
        IF k \in getAppliedState(dst).annotationKeys THEN None ELSE dst.annotations[k]]

\* What matches goes over and is recorded; what was recorded and matches no more goes.
SyncWithoutCleanup(keys, srcLabels, dst) ==
    LET appliedNow == Matching(keys, srcLabels)
    IN [labels |-> [k \in LabelKeys |-> IF k \in appliedNow THEN srcLabels[k] ELSE dst.labels[k]],
        applied |-> appliedNow]
syncTargetLabels(keys, srcLabels, dst) ==
    LET appliedNow == Matching(keys, srcLabels)
    IN [labels |-> [k \in LabelKeys |-> IF k \in appliedNow THEN srcLabels[k]
                                        ELSE cleanupTargetLabels(dst)[k]],
        applied |-> appliedNow]

\* For annotations a key with the empty value goes over as well, and is taken away the
\* next time, as if the source did not have it.
syncTargetAnnotations(keys, srcAnnotations, dst) ==
    LET appliedNow == {k \in keys : srcAnnotations[k] # None}
        gone == {k \in getAppliedState(dst).annotationKeys :
                    k \notin keys \/ srcAnnotations[k] \in {None, Empty}}
    IN [annotations |-> [k \in AnnotationKeys |-> IF k \in gone THEN None
                                                  ELSE IF k \in appliedNow THEN srcAnnotations[k]
                                                  ELSE dst.annotations[k]],
        applied |-> appliedNow]

applyLabels(keys, srcLabels, dst) ==
    IF containsLabelToPropagate(keys, srcLabels)
    THEN syncTargetLabels(keys, srcLabels, dst)
    ELSE [labels |-> cleanupTargetLabels(dst), applied |-> {}]

applyAnnotations(keys, srcAnnotations, dst) ==
    IF containsAnnotationToPropagate(keys, srcAnnotations)
    THEN syncTargetAnnotations(keys, srcAnnotations, dst)
    ELSE [annotations |-> cleanupTargetAnnotations(dst), applied |-> {}]

Apply(src, dst) ==
    LET l == applyLabels(labelKeysToPropagate(src), src.labels, dst)
        a == applyAnnotations(annotationKeysToPropagate(src), src.annotations, dst)
    IN [dst EXCEPT !.labels = l.labels, !.annotations = a.annotations,
                   !.applied = [labelKeys |-> l.applied, annotationKeys |-> a.applied,
                                parses |-> TRUE]]
==============================================================================
