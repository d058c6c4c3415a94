---------------------------- MODULE MCQosWatcher ----------------------------
(* Small contents of ConfigMaps. *)
EXTENDS QosWatcher, TLC

CONSTANTS a, b

OneCtrl == {a}
TwoCtrl == {a, b}

\* Two priorities of one group, the second one before a parse error
Two == {a :> 1, a :> 2}
TwoBroken == {a :> 2}

\* The node's own ConfigMap is the broken one.
TwoContents == [n \in Group \cup {Default, NodeMap} |->
                   IF n = NodeMap THEN TwoBroken ELSE Two \ TwoBroken]

One == {a :> 1}
NoConfig == {}
OneContents == [n \in Group \cup {Default, NodeMap} |-> One]
=============================================================================
