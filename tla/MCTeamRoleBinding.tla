------------------------- MODULE MCTeamRoleBinding -------------------------
(* Small instances of TeamRoleBinding for TLC. *)
EXTENDS TeamRoleBinding

CONSTANTS b1, b2, c1, c2, n1, n2

OneBinding    == {b1}
TwoBindings   == {b1, b2}
OneCluster    == {c1}
TwoClusters   == {c1, c2}
NoNamespace   == {}
TwoNamespaces == {n1, n2}
None          == {}
First         == {b1}
ByLabels      == {"labels"}
ByLabelsOrName == {"labels", c1}
=============================================================================
