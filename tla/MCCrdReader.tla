---------------------------- MODULE MCCrdReader ----------------------------
(* One pod, whose container is restarted once. *)
EXTENDS CrdReader

CONSTANT p1

OnePod == {p1}
Incs1 == [p \in {p1} |-> 2]
=============================================================================
