------------------------------- MODULE Cluster -------------------------------
(***************************************************************************)
(* The cluster: the operator's process, with its two controllers, and the  *)
(* API server's, with the watcher and the requests for export bindings,    *)
(* over the resources that users and the API server write.                 *)
(***************************************************************************)
EXTENDS ExportBindings

vars == <<operatorVars, pluginVars, exportVars>>

Init == OperatorInit /\ PluginsInit /\ ExportInit

(***************************************************************************)
(* A request counts as a change, or as a failure, of the behaviour.        *)
(***************************************************************************)
Requests ==
    /\ CreateCatalog \/ Expire \/ \E q \in Callers : Request(q)
    /\ UNCHANGED <<store, cache, dirty, queued, worker, running, load, lagged, told, pluginVars>>

Next ==
    \/ PluginsNext /\ UNCHANGED exportVars
    \/ RestartAll /\ OperatorCalm
    \/ Requests

Spec == Init /\ [][Next]_vars /\ OperatorFairness /\ PluginsFairness

ClusterTypeOK == OperatorTypeOK /\ PluginsTypeOK /\ ExportTypeOK
=============================================================================
