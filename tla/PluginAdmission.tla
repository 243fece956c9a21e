--------------------------- MODULE PluginAdmission ---------------------------
(* What the admission webhooks let into the hub: PluginDefinitions, Plugins    *)
(* and PluginPresets, with one option of the definitions.  The defaulting and  *)
(* the validation of a Plugin each read the definition from a cache, so what   *)
(* was admitted under one definition is looked at again under the next.        *)
EXTENDS Naturals, Sequences, FiniteSets

Nil == "none"
PluginDefinitionKind == "PluginDefinition"
ClusterPluginDefinitionKind == "ClusterPluginDefinition"

\* One definition of each kind, each under its own name.
Definitions == {<<PluginDefinitionKind, "alerts">>, <<ClusterPluginDefinitionKind, "logs">>}
pluginsAllowedInCentralCluster == {"alerts"}
Clusters == {"c1"}                    \* the Clusters of the organization
Organization == "org"                 \* its namespace
PluginName == "plugin"
ChartName == "chart"

\* JSON values: two plain strings, one that names a secret of the vault, the empty
\* string, and a number.
Strings == {"s1", "s2", "vault", "empty"}
Values == Strings \cup {"number"}

\* What a Plugin or a PluginPreset says of the option: its sources, or nothing at all.
Unset == [value |-> Nil, from |-> Nil, expression |-> FALSE]
Plain(v) == [Unset EXCEPT !.value = v]
From(f) == [Unset EXCEPT !.from = f]    \* "secret", "secretWithoutKey", "ref" (another Plugin)
Expression == [Unset EXCEPT !.expression = TRUE]
NoEntry == [Unset EXCEPT !.value = "absent"]

\* An option of a definition.
NoOption == [type |-> Nil, default |-> Nil, required |-> FALSE]

hasExactlyOneValueSource(e) ==
    Cardinality({s \in {"value", "from", "expression"} :
                    CASE s = "value" -> e.value # Nil
                      [] s = "from" -> e.from # Nil
                      [] s = "expression" -> e.expression}) = 1

------------------------------------------------------------------------------
(* Definitions.                                                               *)

\* The secret option may have the empty default only.
IsValid(o) ==
    o.default # Nil =>
       CASE o.type = "string" -> o.default \in Strings
         [] o.type = "int" -> o.default = "number"
         [] o.type = "secret" -> o.default = "empty"

IsValidValue(o, v) ==
    CASE o.type = "string" -> v \in Strings
      [] o.type = "int" -> v = "number"

validatePluginDefinitionMustSpecifyHelmChartOrUIApplication(d) == d.chart \/ d.ui
validatePluginDefinitionMustSpecifyVersion(d) == d.version
validatePluginDefinitionOptionValueAndType(d) == d.option # NoOption => IsValid(d.option)

\* Creation and update ask for the same.
validateDefinition(d) ==
    /\ validatePluginDefinitionMustSpecifyHelmChartOrUIApplication(d)
    /\ validatePluginDefinitionMustSpecifyVersion(d)
    /\ validatePluginDefinitionOptionValueAndType(d)

------------------------------------------------------------------------------
(* The values of the option.                                                  *)

\* An entry of the same name gets the value of the other one and keeps its own sources
\* otherwise: a secret reference or an expression is not taken over.
setOrAppendNameValue(entry, new) ==
    IF entry = NoEntry THEN new ELSE [entry EXCEPT !.value = new.value]

MergePluginAndPluginOptionValueSlice(option, e) ==
    IF option.default = Nil THEN e
    ELSE IF e = NoEntry THEN Plain(option.default)
    ELSE setOrAppendNameValue(Plain(option.default), e)

\* The validation of one option: FALSE for an error, and for the panic of a secret option
\* that refers to another Plugin.
validatePluginOptionValues(option, e, checkRequiredOptions) ==
    IF option = NoOption THEN TRUE
    ELSE IF e = NoEntry THEN ~(checkRequiredOptions /\ option.required)
    ELSE /\ hasExactlyOneValueSource(e)
         /\ IF option.type = "secret"
            THEN /\ e.value # Nil => e.value = "vault"
                 /\ e.from # Nil => e.from = "secret"
            ELSE e.value # Nil => IsValidValue(option, e.value)

------------------------------------------------------------------------------
(* Plugins.                                                                   *)

\* waitFor: a list of Plugins and PluginPresets to wait for, by name.
ByName(n) == [name |-> n, preset |-> ""]
ByPreset(n) == [name |-> "", preset |-> n]

\* Each item names one of the two, none twice, and no PluginPreset in the central cluster.
validateWaitForPluginRefs(items, isPluginInCentralCluster) ==
    \A i \in DOMAIN items :
       /\ (items[i].name = "") # (items[i].preset = "")
       /\ items[i].preset # "" => ~isPluginInCentralCluster
       /\ \A j \in 1..(i - 1) : items[j] # items[i]

validateReleaseName(name) == name # "Bad_Name"

\* A reference without a kind is one to a PluginDefinition.
RefOf(p) == <<IF p.kind = "" THEN PluginDefinitionKind ELSE p.kind, p.name>>

\* The definition that a Plugin names, among those there are.
getPluginDefinitionSpec(defs, ref) == defs[ref]
IsFound(defs, ref) == ref \in Definitions /\ defs[ref].exists

\* The labels by which a definition finds its Plugins: that of the other kind is removed.
DefinitionLabel(p) == RefOf(p)

\* A Plugin without a release name: by its own name if it may be deployed that way, which a
\* HelmReleaseStatus in the request (sawStatus) stands for, else by the name of the chart.
ReleaseNameAlways(p, sawStatus) == IF sawStatus THEN PluginName ELSE ChartName
DefaultReleaseName(p, sawStatus) ==
    IF p.releaseName # "" THEN p.releaseName
    ELSE IF sawStatus THEN PluginName
    ELSE ChartName

\* The Plugin as the defaulting leaves it, for a definition that is there.
DefaultPlugin(p, d, sawStatus) ==
    LET q == [p EXCEPT !.kind = RefOf(p)[1],
                       !.label = DefinitionLabel(p),
                       !.entry = MergePluginAndPluginOptionValueSlice(d.option, p.entry)]
    IN IF d.ui /\ ~d.chart THEN q
       ELSE [q EXCEPT !.releaseNamespace = IF @ = "" THEN Organization ELSE @,
                      !.releaseName = DefaultReleaseName(p, sawStatus)]

\* A frontend needs no cluster; a Plugin of the central cluster stays in its namespace.
validatePluginForCluster(p, d) ==
    \/ ~d.chart
    \/ /\ p.cluster = "" /\ p.name \in pluginsAllowedInCentralCluster
       /\ p.releaseNamespace = Organization
    \/ p.cluster \in Clusters

ValidateCreatePlugin(p, d) ==
    /\ validateReleaseName(p.releaseName)
    /\ validateWaitForPluginRefs(p.waitFor, p.cluster = "")
    /\ validatePluginOptionValues(d.option, p.entry, TRUE)
    /\ validatePluginForCluster(p, d)

AnyChange(old, new) == TRUE
ValidateImmutableField(old, new) == old = new

ValidateUpdatePlugin(old, p, d, deployed) ==
    /\ ValidateImmutableField(old.cluster, p.cluster)
    /\ validateWaitForPluginRefs(p.waitFor, p.cluster = "")
    /\ old.releaseNamespace # "" => ValidateImmutableField(old.releaseNamespace, p.releaseNamespace)
    /\ validateReleaseName(p.releaseName)
    /\ validatePluginOptionValues(d.option, p.entry, TRUE)
    /\ (old.releaseName = "" /\ deployed /\ ~d.ui) => p.releaseName = PluginName

\* The rules of the CustomResourceDefinition: a release name stays once it is set.
ReleaseNameImmutable(old, p) == old.releaseName # "" => p.releaseName = old.releaseName

\* A request as the API server handles it: the defaulting, the schema, the validation.  The
\* definitions are those that the first and the second of the two webhooks find.
Admitted(defs, p, sawStatus) == DefaultPlugin(p, getPluginDefinitionSpec(defs, RefOf(p)), sawStatus)

AdmitCreate(first, second, p) ==
    /\ IsFound(first, RefOf(p)) /\ IsFound(second, RefOf(p))
    /\ \E q \in {Admitted(first, p, FALSE)} : ValidateCreatePlugin(q, second[RefOf(p)])

AdmitUpdate(first, second, old, p, deployed, sawStatus) ==
    /\ IsFound(first, RefOf(p)) /\ IsFound(second, RefOf(p))
    /\ \E q \in {Admitted(first, p, sawStatus)} :
          /\ ReleaseNameImmutable(old, q)
          /\ ValidateUpdatePlugin(old, q, second[RefOf(p)], deployed)

GetReleaseName(p) == IF p.releaseName # "" THEN p.releaseName ELSE PluginName

------------------------------------------------------------------------------
(* PluginPresets.                                                             *)

\* The rule of the CustomResourceDefinition compares release names only where there are two.
PresetReleaseNameImmutable(old, s) ==
    old.releaseName # "" /\ s.releaseName # "" => s.releaseName = old.releaseName

DefaultPluginPreset(s) == [s EXCEPT !.kind = RefOf(s)[1]]

ValidateCreatePluginPreset(s) ==
    /\ s.name # "" /\ s.selects
    /\ validateReleaseName(s.releaseName)
    /\ validateWaitForPluginRefs(s.waitFor, FALSE)

ValidateUpdatePluginPreset(s) == validateWaitForPluginRefs(s.waitFor, FALSE)

\* Expressions are evaluated (the feature is on, and here they give a string), all else is
\* copied.
resolvePluginOptionValues(e) == IF e.expression THEN Plain("s2") ELSE e

\* The release name of a Plugin that has one stays; one without and with a HelmReleaseStatus
\* goes by its own name.
getReleaseName(p, deployed, s) ==
    IF p.releaseName # "" THEN p.releaseName
    ELSE IF deployed THEN PluginName
    ELSE s.releaseName

\* The Plugin of a PluginPreset for a cluster.
pluginSpecFromPluginPreset(s, cluster, p, deployed) ==
    [p EXCEPT !.kind = s.kind, !.name = s.name, !.cluster = cluster,
              !.releaseNamespace = s.releaseNamespace, !.waitFor = s.waitFor,
              !.entry = resolvePluginOptionValues(s.entry),
              !.releaseName = getReleaseName(p, deployed, s)]
==============================================================================
