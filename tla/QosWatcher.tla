----------------------------- MODULE QosWatcher -----------------------------
(***************************************************************************)
(* pkg/agent/watcher.go: how the resctrl groups of a node follow the       *)
(* cluster's QoS configuration.  Three goroutines each loop over one watch *)
(* and open it again when its stream ends:                                 *)
(*   "node"  the Node object, for its label "ngroup" (watchNode);          *)
(*   "cfg"   the node's own ConfigMap (watchNodeConfigMap);                *)
(*   "grp"   the ConfigMap of the node's group (watchGroupConfigMap).      *)
(* The first one tells the third one the group: it sets groupName and      *)
(* stops the third one's stream.  The node's ConfigMap overrides the       *)
(* group's.  setNodeConfig and setGroupConfig hold a lock, so each is one  *)
(* step.                                                                   *)
(*                                                                         *)
(* The contents of a ConfigMap are a partial function from resctrl groups  *)
(* to priorities.  A stream begins with an event for the watched object,   *)
(* if there is one.  A process that ends (Crash) stands, too, for the      *)
(* panic of a torn read of ResCtrlConfigWatch, which no lock protects.     *)
(***************************************************************************)
EXTENDS Naturals, Sequences

CONSTANTS Group,      \* node groups
          Default,    \* no group: the label is missing
          NodeMap,    \* the name of the node's own ConfigMap
          Ctrl, Pri,  \* resctrl groups and their priorities
          Config,     \* the contents ConfigMaps may have
          Broken,     \* those of them that do not parse to the end
          Contents,   \* bound: ConfigMap -> the contents it may have
          None,       \* no ConfigMap
          Unset,      \* the priority of a group that was only created
          MaxLag,     \* bound: events in a stream
          Faults      \* which of "api", "write", "crash" may happen

\* Partial functions from Ctrl to priorities
Settings == UNION {[S -> Pri \cup {Unset}] : S \in SUBSET Ctrl}

ASSUME QosAssumption == /\ Config \subseteq Settings
                        /\ Broken \subseteq Config
                        /\ Contents \in [Group \cup {Default, NodeMap} -> SUBSET Config]
                        /\ None \notin Settings
                        /\ Default \notin Group
                        /\ NodeMap \notin Group \cup {Default}
                        /\ MaxLag \in Nat \ {0}
                        /\ Faults \subseteq {"api", "write", "crash"}

VARIABLES
    label,      \* the node's label
    cm,         \* ConfigMap -> its contents
    pc,         \* watch -> where its goroutine is
    open,       \* the watches whose stream has not ended
    ev,         \* watch -> the events in its stream; None is a Deleted event
    group,      \* the label the node's goroutine saw last
    groupName,  \* w.groupName
    watched,    \* the ConfigMap the group's goroutine watches
    fetched,    \* the default configuration it has read after a Deleted event
    nodeCfg,    \* w.nodeCfg
    groupCfg,   \* w.groupCfg
    ctrl,       \* the resctrl groups in the file system, with their priorities
    failed      \* history: the last write of the configuration met an error

vars == <<label, cm, pc, open, ev, group, groupName, watched, fetched,
          nodeCfg, groupCfg, ctrl, failed>>

clusterVars == <<label, cm>>
streamVars == <<pc, open, ev>>
configVars == <<nodeCfg, groupCfg, ctrl, failed>>

Watch == {"node", "cfg", "grp"}
Label == Group \cup {Default}
Maybe == Config \cup {None}

TypeOK == /\ label \in Label
          /\ cm \in [Label \cup {NodeMap} -> Maybe]
          /\ pc \in [Watch -> {"idle", "read", "open", "run", "stop", "fetched", "dead"}]
          /\ open \subseteq Watch
          /\ ev \in [Watch -> Seq(Label) \cup Seq(Maybe)]
          /\ ev["node"] \in Seq(Label) /\ {ev["cfg"], ev["grp"]} \subseteq Seq(Maybe)
          /\ \A w \in Watch : /\ Len(ev[w]) <= MaxLag
                              /\ pc[w] \in {"idle", "read", "open", "dead"}
                                    => w \notin open /\ ev[w] = <<>>
          /\ group \in Label
          /\ groupName \in Label
          /\ watched \in Label
          /\ {fetched, nodeCfg, groupCfg} \subseteq Maybe
          /\ ctrl \in Settings
          /\ failed \in BOOLEAN

NoGroups == [g \in {} |-> Unset]

-----------------------------------------------------------------------------
(* The configuration in force                                              *)

\* s with the groups of c written over it
Overlay(c, s) == [g \in DOMAIN c \cup DOMAIN s |-> IF g \in DOMAIN c THEN c[g] ELSE s[g]]

\* The groups of c in S are written, then writing group g of c fails.  Its
\* directory may have been made.
Partial(c, s, S, g) ==
    LET t == Overlay([h \in S |-> c[h]], s)
    IN {t} \cup (IF g \in DOMAIN t THEN {} ELSE {[h \in DOMAIN t \cup {g} |->
                                                   IF h = g THEN Unset ELSE t[h]]})

\* Without a configuration, or after a parse error, every group is removed.
\* Groups that a configuration does not name stay.
ApplyConfig(c) ==
    LET base == IF c \in Broken \cup {None} THEN NoGroups ELSE ctrl
    IN \/ /\ ctrl' = IF c = None THEN base ELSE Overlay(c, base)
          /\ failed' = FALSE
       \/ /\ "write" \in Faults /\ c # None
          /\ \E g \in DOMAIN c : \E S \in SUBSET (DOMAIN c \ {g}) :
                ctrl' \in Partial(c, base, S, g)
          /\ failed' = TRUE

Effective(n, g) == IF n # None THEN n ELSE g

\* Mutant: a deleted configuration is not replaced by the group's.
setNodeConfigOnly(c) == /\ nodeCfg' = c
                        /\ IF c # None THEN ApplyConfig(c) ELSE UNCHANGED <<ctrl, failed>>
                        /\ UNCHANGED groupCfg

setNodeConfig(c) == /\ nodeCfg' = c
                    /\ ApplyConfig(Effective(c, groupCfg))
                    /\ UNCHANGED groupCfg

setGroupConfig(c) == /\ groupCfg' = c
                     /\ IF nodeCfg = None THEN ApplyConfig(Effective(nodeCfg, c))
                                          ELSE UNCHANGED <<ctrl, failed>>
                     /\ UNCHANGED nodeCfg

-----------------------------------------------------------------------------
(* Streams                                                                 *)

\* Watch w's Watch call succeeds; the stream begins with events b.
Opened(w, b) == /\ pc[w] = "open"
                /\ open' = open \cup {w}
                /\ ev' = [ev EXCEPT ![w] = b]

\* The calls of Start follow one another: next is the watch opened after w.
Go(w, to, next, at) == pc' = [pc EXCEPT ![w] = to,
                                        ![next] = IF @ = "idle" THEN at ELSE @]

\* The event b of a ConfigMap's stream: none if there is no ConfigMap.
First(c) == IF c = None THEN <<>> ELSE <<c>>

Event(w) == pc[w] = "run" /\ ev[w] # <<>>
Incoming(w) == Head(ev[w])
Taken(w) == ev' = [ev EXCEPT ![w] = Tail(@)]

\* Mutant: the events that are left are not read.
DrainedEarly(w) == pc[w] = "run" /\ w \notin open

\* The stream of w has ended and its events are read.
Drained(w) == pc[w] = "run" /\ w \notin open /\ ev[w] = <<>>

-----------------------------------------------------------------------------
(* watchNode                                                               *)

\* The goroutine of a new stream starts without a group.
NodeOpen == /\ Opened("node", <<label>>)
            /\ Go("node", "run", "cfg", "open")
            /\ group' = Default
            /\ UNCHANGED <<clusterVars, groupName, watched, fetched, configVars>>

NodeOpenFails == /\ pc["node"] = "open"
                 /\ "api" \in Faults
                 /\ Go("node", "dead", "cfg", "open")
                 /\ UNCHANGED <<clusterVars, open, ev, group, groupName, watched,
                                fetched, configVars>>

NodeEvent == /\ Event("node")
             /\ Taken("node")
             /\ IF Incoming("node") = group
                  THEN UNCHANGED <<group, groupName, pc>>
                  ELSE /\ group' = Incoming("node")
                       /\ groupName' = Incoming("node")
                       /\ pc' = [pc EXCEPT !["node"] = "stop"]
             /\ UNCHANGED <<clusterVars, open, watched, fetched, configVars>>

\* ResCtrlConfigWatch is stopped, if it is there: it is the stream the group's
\* goroutine reads, or one that has ended.  Some events may still be read.
NodeStop == /\ pc["node"] = "stop"
            /\ pc' = [pc EXCEPT !["node"] = "run"]
            /\ IF pc["grp"] \in {"run", "fetched"}
                 THEN /\ open' = open \ {"grp"}
                      /\ \E k \in 0 .. Len(ev["grp"]) :
                            ev' = [ev EXCEPT !["grp"] = SubSeq(@, 1, k)]
                 ELSE UNCHANGED <<open, ev>>
            /\ UNCHANGED <<clusterVars, group, groupName, watched, fetched, configVars>>

NodeEnd == /\ Drained("node")
           /\ pc' = [pc EXCEPT !["node"] = "open"]
           /\ UNCHANGED <<clusterVars, open, ev, group, groupName, watched, fetched,
                          configVars>>

-----------------------------------------------------------------------------
(* watchNodeConfigMap                                                      *)

CfgOpen == /\ Opened("cfg", First(cm[NodeMap]))
           /\ Go("cfg", "run", "grp", "read")
           /\ UNCHANGED <<clusterVars, group, groupName, watched, fetched, configVars>>

CfgOpenFails == /\ pc["cfg"] = "open"
                /\ "api" \in Faults
                /\ Go("cfg", "dead", "grp", "read")
                /\ UNCHANGED <<clusterVars, open, ev, group, groupName, watched,
                               fetched, configVars>>

\* Mutant: the event of a new ConfigMap (Added) is ignored.
CfgEventKnown == /\ Event("cfg")
                 /\ Taken("cfg")
                 /\ IF nodeCfg # None THEN setNodeConfig(Incoming("cfg"))
                                      ELSE UNCHANGED configVars
                 /\ UNCHANGED <<clusterVars, pc, open, group, groupName, watched, fetched>>

CfgEvent == /\ Event("cfg")
            /\ Taken("cfg")
            /\ setNodeConfig(Incoming("cfg"))
            /\ UNCHANGED <<clusterVars, pc, open, group, groupName, watched, fetched>>

\* Mutant: the stream is not opened again.
CfgEndForGood == /\ Drained("cfg")
                 /\ pc' = [pc EXCEPT !["cfg"] = "stop"]
                 /\ UNCHANGED <<clusterVars, open, ev, group, groupName, watched,
                                fetched, configVars>>

CfgEnd == /\ Drained("cfg")
          /\ pc' = [pc EXCEPT !["cfg"] = "open"]
          /\ UNCHANGED <<clusterVars, open, ev, group, groupName, watched, fetched,
                         configVars>>

-----------------------------------------------------------------------------
(* watchGroupConfigMap                                                     *)

\* The ConfigMap is chosen under the lock and watched after it.
GrpRead == /\ pc["grp"] = "read"
           /\ watched' = groupName
           /\ pc' = [pc EXCEPT !["grp"] = "open"]
           /\ UNCHANGED <<clusterVars, open, ev, group, groupName, fetched, configVars>>

GrpOpen == /\ Opened("grp", First(cm[watched]))
           /\ pc' = [pc EXCEPT !["grp"] = "run"]
           /\ UNCHANGED <<clusterVars, group, groupName, watched, fetched, configVars>>

GrpOpenFails == /\ pc["grp"] = "open"
                /\ "api" \in Faults
                /\ pc' = [pc EXCEPT !["grp"] = "dead"]
                /\ UNCHANGED <<clusterVars, open, ev, group, groupName, watched,
                               fetched, configVars>>

GrpEvent == /\ Event("grp")
            /\ Incoming("grp") # None
            /\ Taken("grp")
            /\ setGroupConfig(Incoming("grp"))
            /\ UNCHANGED <<clusterVars, pc, open, group, groupName, watched, fetched>>

\* The group's ConfigMap is deleted: the default one is read (or is not there).
GrpDeleted == /\ Event("grp")
              /\ Incoming("grp") = None
              /\ Taken("grp")
              /\ fetched' \in {cm[Default]} \cup (IF "api" \in Faults THEN {None} ELSE {})
              /\ pc' = [pc EXCEPT !["grp"] = "fetched"]
              /\ UNCHANGED <<clusterVars, open, group, groupName, watched, configVars>>

GrpDefault == /\ pc["grp"] = "fetched"
              /\ setGroupConfig(fetched)
              /\ fetched' = None
              /\ pc' = [pc EXCEPT !["grp"] = "run"]
              /\ UNCHANGED <<clusterVars, open, ev, group, groupName, watched>>

\* Mutant: the same ConfigMap is watched again.
GrpEndSame == /\ Drained("grp")
              /\ pc' = [pc EXCEPT !["grp"] = "open"]
              /\ UNCHANGED <<clusterVars, open, ev, group, groupName, watched, fetched,
                             configVars>>

GrpEnd == /\ Drained("grp")
          /\ pc' = [pc EXCEPT !["grp"] = "read"]
          /\ UNCHANGED <<clusterVars, open, ev, group, groupName, watched, fetched,
                         configVars>>

-----------------------------------------------------------------------------
(* The cluster and the process                                             *)

\* Event e reaches the open streams of W.
Publish(W, e) == /\ \A w \in W \cap open : Len(ev[w]) < MaxLag
                 /\ ev' = [w \in Watch |-> IF w \in W \cap open THEN Append(ev[w], e)
                                                               ELSE ev[w]]

SetLabel(l) == /\ label # l
               /\ label' = l
               /\ Publish({"node"}, l)
               /\ UNCHANGED <<cm, pc, open, group, groupName, watched, fetched, configVars>>

SetMap(n, c) == /\ cm[n] # c
                /\ c \in Contents[n] \cup {None}
                /\ cm' = [cm EXCEPT ![n] = c]
                /\ Publish(IF n = NodeMap THEN {"cfg"}
                           ELSE IF n = watched THEN {"grp"} ELSE {}, c)
                /\ UNCHANGED <<label, pc, open, group, groupName, watched, fetched,
                               configVars>>

\* The API server ends a stream after some time.
Expire(w) == /\ w \in open
             /\ open' = open \ {w}
             /\ UNCHANGED <<clusterVars, pc, ev, group, groupName, watched, fetched,
                            configVars>>

\* The process starts again.  The file system keeps the resctrl groups.
Crash == /\ "crash" \in Faults
         /\ pc' = [w \in Watch |-> IF w = "node" THEN "open" ELSE "idle"]
         /\ open' = {}
         /\ ev' = [w \in Watch |-> <<>>]
         /\ group' = Default
         /\ groupName' = Default
         /\ watched' = Default
         /\ fetched' = None
         /\ nodeCfg' = None
         /\ groupCfg' = None
         /\ failed' = FALSE
         /\ UNCHANGED <<clusterVars, ctrl>>

-----------------------------------------------------------------------------
Init == /\ label \in Label
        /\ cm = [n \in Label \cup {NodeMap} |-> None]
        /\ pc = [w \in Watch |-> IF w = "node" THEN "open" ELSE "idle"]
        /\ open = {}
        /\ ev = [w \in Watch |-> <<>>]
        /\ group = Default
        /\ groupName = Default
        /\ watched = Default
        /\ fetched = None
        /\ nodeCfg = None
        /\ groupCfg = None
        /\ ctrl = NoGroups
        /\ failed = FALSE

NodeWatch == NodeOpen \/ NodeOpenFails \/ NodeEvent \/ NodeStop \/ NodeEnd
CfgWatch == CfgOpen \/ CfgOpenFails \/ CfgEvent \/ CfgEnd
GrpWatch == \/ GrpRead \/ GrpOpen \/ GrpOpenFails
            \/ GrpEvent \/ GrpDeleted \/ GrpDefault \/ GrpEnd

Cluster == \/ \E l \in Label : SetLabel(l)
           \/ \E n \in Label \cup {NodeMap}, c \in Maybe : SetMap(n, c)
           \/ \E w \in Watch : Expire(w)

Next == NodeWatch \/ CfgWatch \/ GrpWatch \/ Cluster \/ Crash

Spec == Init /\ [][Next]_vars

\* The goroutines run, and the API server ends every stream after some time
\* (between 30 and 60 minutes by default).  That is so long that not every stream
\* of the group's ConfigMap is stopped before its first event is read.
FairSpec == /\ Spec
            /\ WF_vars(NodeWatch) /\ WF_vars(CfgWatch) /\ WF_vars(GrpWatch)
            /\ SF_vars(GrpEvent)
            /\ \A w \in Watch : WF_vars(Expire(w))

-----------------------------------------------------------------------------
(* Properties                                                              *)

\* Every group of the configuration in force has its priority in the file system,
\* whichever watch spoke last, unless writing it met an error (applyConfig).
InForce == LET c == Effective(nodeCfg, groupCfg)
           IN c = None \/ failed \/ Overlay(c, ctrl) = ctrl

\* What the node's ConfigMap is after the events on their way
Coming == IF ev["cfg"] = <<>> THEN nodeCfg ELSE ev["cfg"][Len(ev["cfg"])]

\* While its watch is open, the node's configuration is the ConfigMap's, or the
\* change is on its way.  Only a deletion between two streams goes unnoticed
\* (watchNodeConfigMap).
NodeCfgCurrent == "cfg" \in open => Coming = cm[NodeMap] \/ cm[NodeMap] = None

Alive == \A w \in Watch : pc[w] # "dead"

\* The process is not ended for ever again.
Stable == <>[][~Crash]_vars

\* Once the ConfigMap of the node stays the same, resctrl has its groups in the end.
NodeConfigReaches ==
    \A c \in Config : Stable /\ <>[](cm[NodeMap] = c /\ Alive)
                         => <>[](failed \/ Overlay(c, ctrl) = ctrl)

\* Once a node stays in a group and the group's ConfigMap stays the same, the
\* group's configuration is that ConfigMap's in the end, although the stream of
\* the former group may be opened after it was to be stopped (watchNode,
\* watchGroupConfigMap).
GroupConfigReaches ==
    \A g \in Group, c \in Config :
        Stable /\ <>[](label = g /\ cm[g] = c /\ Alive) => <>[](groupCfg = c)

\* "if the node group is changed, we start to watch the config of the new node
\* group" (watcher.go:103): the ConfigMap of the node's group, the default one
\* for none, is watched in the end (watchNode).
GroupIsWatched == \A l \in Label : <>[](label = l /\ Alive) => <>[](watched = l)
=============================================================================
