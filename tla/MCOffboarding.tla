---------------------------- MODULE MCOffboarding ----------------------------
(* Small instances of Offboarding. *)
EXTENDS Offboarding

\* Plugins that users create, and Plugins with deletion policy Retain.
NoPlugins == {}
OwnPlugins == {"user"} \X Clusters
PresetPlugins == {"preset"} \X Clusters
=============================================================================
