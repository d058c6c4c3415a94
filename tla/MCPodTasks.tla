---------------------------- MODULE MCPodTasks -----------------------------
(* Small sets of pods, groups and threads. *)
EXTENDS PodTasks

CONSTANTS a, b

Pods == {a, b}
=============================================================================
