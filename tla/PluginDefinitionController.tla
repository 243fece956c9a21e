---------------------- MODULE PluginDefinitionController ----------------------
(* The controllers of PluginDefinition and ClusterPluginDefinition:          *)
(* internal/controller/plugindefinition/.  They keep a HelmRepository and the *)
(* HelmChart of the current chart version, copy the chart to the registry    *)
(* mirror of the organization first, and derive the condition Ready that      *)
(* internal/common/plugindefinition.go makes Plugins wait for.               *)
EXTENDS Mishaps, FiniteSets

CONSTANTS Definition,      \* the PluginDefinitions
          MaxVersion,      \* chart versions
          Chartless,       \* the versions of a definition that have no Helm chart
          Mirror           \* what there is of a registry mirror for the charts

VARIABLES pd,        \* per definition: chart version (0: no such object) and status
          pdQueued,
          charts,    \* per definition: versions that have a HelmChart
          chartOk,   \* per definition: versions whose HelmChart Flux found ready
          mirrored   \* per definition: versions in the mirror

pdVars == <<pd, pdQueued, charts, chartOk, mirrored>>

Versions == 1..MaxVersion
Statuses == {"none", "Unknown", "True", "False"}

\* Mirroring disabled, charts from a repository that is not OCI, no configuration of
\* mirrors, none for the registry of the charts, or one.
ASSUME DefinitionAssumption ==
    Mirror \in {"disabled", "notOCI", "unconfigured", "noMirror", "mirror"} /\ MaxVersion \in Nat

Mirroring == Mirror = "mirror"

PdTypeOK ==
    /\ pd \in [Definition -> [version : 0..MaxVersion, synced : 0..MaxVersion,
                              ready : Statuses, chartReady : Statuses, oci : Statuses]]
    /\ pdQueued \subseteq Definition
    /\ charts \in [Definition -> SUBSET Versions]
    /\ chartOk \in [Definition -> SUBSET Versions]
    /\ mirrored \in [Definition -> SUBSET Versions]

PdInit ==
    /\ pd = [n \in Definition |-> [version |-> 0, synced |-> 0, ready |-> "none",
                                   chartReady |-> "none", oci |-> "none"]]
    /\ pdQueued = {}
    /\ charts = [n \in Definition |-> {}]
    /\ chartOk = [n \in Definition |-> {}]
    /\ mirrored = [n \in Definition |-> {}]

Initialized(status) == IF status = "none" THEN "Unknown" ELSE status

\* ensureChartReplication: the condition after it.  A version that the status
\* says is replicated ends the function before any condition is set.
ensureChartReplication(p, call) ==
    CASE Mirror \in {"disabled", "notOCI"} -> "True"
      [] Mirror \notin {"disabled", "notOCI"} /\ call \in {"config", "replication"} -> "False"
      [] Mirroring /\ call \notin {"config", "replication"} /\ p.synced = p.version -> p.oci
      [] OTHER -> "True"

\* setReadyCondition, from the two other conditions.
setReadyCondition(version, chartReady, oci) ==
    CASE version \in Chartless -> "True"
      [] version \notin Chartless /\ chartReady = "none" -> "Unknown"
      [] version \notin Chartless /\ chartReady \notin {"none", "True"} -> "False"
      [] OTHER -> IF oci = "False" THEN "False" ELSE "True"

createUpdateHelmChart(all, version) == all \cup {version}
\* What deleteOrphanedHelmCharts leaves of the charts the definition controls.
deleteNoOrphans(all, version) == all
deleteOrphanedHelmCharts(all, version) == all \cap {version}

\* setHelmChartReadyCondition: the Ready condition of the current chart; a chart
\* that failed counts like one that is pending.
setHelmChartReadyCondition(n, version) ==
    IF version \in chartOk[n] THEN "True" ELSE "Unknown"

\* Whether EnsureCreated goes on to the chart: each failure before it returns.
AfterReplication(call) == call \notin {"repository", "config", "replication"}

\* EnsureCreated and the status patch that ends the pass, with the call that
\* fails ("none": all succeed).  Each failure returns at once; setReadyCondition
\* runs all the same.
PdEnsureCreated(n, call) ==
    LET p == [pd[n] EXCEPT !.chartReady = Initialized(@), !.oci = Initialized(@)]
        copies == Mirroring /\ p.synced # p.version
        replicated == call \notin {"repository", "config", "replication"}
        oci == IF call = "repository" THEN p.oci ELSE ensureChartReplication(p, call)
        chart == AfterReplication(call) /\ call # "chart"
        cleaned == chart /\ call # "cleanup"
        chartReady == IF cleaned THEN setHelmChartReadyCondition(n, p.version)
                      ELSE p.chartReady
    IN  /\ n \in pdQueued /\ p.version \notin Chartless \cup {0}
        /\ call = "config" => Mirror \notin {"disabled", "notOCI"}
        /\ call = "replication" => Mirror \in {"noMirror", "mirror"} /\ p.synced # p.version
        /\ Mishap(call # "none")
        /\ mirrored' = [mirrored EXCEPT ![n] =
                           @ \cup (IF copies /\ replicated THEN {p.version} ELSE {})]
        /\ charts' = [charts EXCEPT ![n] =
                         LET all == IF chart THEN createUpdateHelmChart(@, p.version) ELSE @
                         IN IF cleaned THEN deleteOrphanedHelmCharts(all, p.version) ELSE all]
        /\ chartOk' = [chartOk EXCEPT ![n] = @ \cap charts'[n]]
        /\ pd' = [pd EXCEPT ![n] =
                    [p EXCEPT !.synced = IF copies /\ replicated THEN p.version ELSE @,
                              !.oci = oci, !.chartReady = chartReady,
                              !.ready = setReadyCondition(p.version, chartReady, oci)]]
        \* The chart and the status are watched, an error is retried.
        /\ pdQueued' = IF call # "none" \/ pd' # pd \/ charts' # charts
                       THEN pdQueued ELSE pdQueued \ {n}

\* EnsureCreated of a version without a Helm chart.
NoHelmChart(n) ==
    LET p == [pd[n] EXCEPT !.chartReady = Initialized(@), !.oci = "True"]
    IN  /\ n \in pdQueued /\ p.version \in Chartless
        /\ pd' = [pd EXCEPT ![n] = [p EXCEPT !.ready = setReadyCondition(p.version, p.chartReady, p.oci)]]
        /\ pdQueued' = IF pd' # pd THEN pdQueued ELSE pdQueued \ {n}
        /\ UNCHANGED <<charts, chartOk, mirrored, mishaps>>

\* Flux finds a HelmChart ready; the charts are watched.
FluxChart(n, v) ==
    /\ v \in charts[n] \ chartOk[n]
    /\ chartOk' = [chartOk EXCEPT ![n] = @ \cup {v}]
    /\ pdQueued' = pdQueued \cup {n}
    /\ UNCHANGED <<pd, charts, mirrored, mishaps>>

\* Whether a Plugin may use the definition: isPluginDefinitionReady.
isPluginDefinitionReady(n) == pd[n].ready = "True"

PdController ==
    \/ \E n \in Definition,
          call \in {"none", "repository", "config", "replication", "chart", "cleanup"} :
             PdEnsureCreated(n, call)
    \/ \E n \in Definition : NoHelmChart(n)
==============================================================================
