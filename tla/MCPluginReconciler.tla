-------------------------- MODULE MCPluginReconciler --------------------------
(* Instances of PluginReconciler for TLC: plugin_cluster, plugin_intent. *)
EXTENDS PluginReconciler, TLC

=============================================================================
