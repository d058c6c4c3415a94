--------------------------- MODULE QosWatcherProof ---------------------------
(***************************************************************************)
(* Proofs about QosWatcher for every set of groups, ConfigMap contents and *)
(* bound on the events of a stream.                                        *)
(***************************************************************************)
EXTENDS QosWatcher, SequenceTheorems, TLAPS

QosInv == TypeOK /\ InForce /\ NodeCfgCurrent

-----------------------------------------------------------------------------
(* Settings                                                                *)

\* Members of Settings are the partial functions from Ctrl to priorities.
LEMMA SettingsDef ==
    \A s : s \in Settings <=> \E S \in SUBSET Ctrl : s \in [S -> Pri \cup {Unset}]
BY DEF Settings

\* Overlay gives settings, and overlaying the same settings again changes nothing.
LEMMA OverlayFacts ==
    ASSUME NEW c \in Settings, NEW s \in Settings
    PROVE  /\ Overlay(c, s) \in Settings
           /\ Overlay(c, Overlay(c, s)) = Overlay(c, s)
<1>1. PICK S \in SUBSET Ctrl : c \in [S -> Pri \cup {Unset}]
  BY SettingsDef
<1>2. PICK T \in SUBSET Ctrl : s \in [T -> Pri \cup {Unset}]
  BY SettingsDef
<1>3. Overlay(c, s) \in [S \cup T -> Pri \cup {Unset}]
  BY <1>1, <1>2 DEF Overlay
<1>4. Overlay(c, s) \in Settings
  BY <1>3, SettingsDef
<1>5. Overlay(c, Overlay(c, s)) \in [S \cup T -> Pri \cup {Unset}]
  BY <1>1, <1>3 DEF Overlay
<1>6. \A g \in S \cup T : Overlay(c, Overlay(c, s))[g] = Overlay(c, s)[g]
  BY <1>1, <1>2, <1>3 DEF Overlay
<1>7. QED
  BY <1>3, <1>4, <1>5, <1>6

\* Nothing is set at the start and after a clean-up.
LEMMA NoGroupsType == NoGroups \in Settings
<1>1. NoGroups \in [{} -> Pri \cup {Unset}]
  BY DEF NoGroups
<1>2. QED
  BY <1>1, SettingsDef

\* A write that fails half-way leaves settings (SetGroupQos).
LEMMA PartialType ==
    ASSUME NEW c \in Settings, NEW s \in Settings, NEW g \in DOMAIN c,
           NEW S \in SUBSET (DOMAIN c \ {g})
    PROVE  Partial(c, s, S, g) \subseteq Settings
<1> DEFINE d == [h \in S |-> c[h]]
           t == Overlay(d, s)
           u == [h \in DOMAIN t \cup {g} |-> IF h = g THEN Unset ELSE t[h]]
<1>1. PICK D \in SUBSET Ctrl : c \in [D -> Pri \cup {Unset}]
  BY SettingsDef
<1>2. d \in [S -> Pri \cup {Unset}] /\ S \in SUBSET Ctrl /\ g \in Ctrl
  BY <1>1
<1>3. d \in Settings
  BY <1>2, SettingsDef
<1>4. t \in Settings
  BY <1>3, OverlayFacts
<1>5. PICK T \in SUBSET Ctrl : t \in [T -> Pri \cup {Unset}]
  BY <1>4, SettingsDef
<1>6. u \in [T \cup {g} -> Pri \cup {Unset}]
  BY <1>5
<1>7. u \in Settings
  BY <1>2, <1>6, SettingsDef
<1>8. QED
  BY <1>4, <1>7 DEF Partial

\* What ApplyConfig leaves has the groups of the configuration, unless it failed.
LEMMA ApplyFacts ==
    ASSUME NEW c \in Maybe, ctrl \in Settings, ApplyConfig(c)
    PROVE  /\ ctrl' \in Settings /\ failed' \in BOOLEAN
           /\ c = None \/ failed' \/ Overlay(c, ctrl') = ctrl'
<1> DEFINE base == IF c \in Broken \cup {None} THEN NoGroups ELSE ctrl
<1>1. base \in Settings
  BY NoGroupsType
<1>2. c # None => c \in Settings
  BY QosAssumption DEF Maybe
<1>3. CASE /\ ctrl' = IF c = None THEN base ELSE Overlay(c, base)
           /\ failed' = FALSE
  <2>1. CASE c = None
    BY <1>1, <1>3, <2>1
  <2>2. CASE c # None
    <3>1. Overlay(c, base) \in Settings /\ Overlay(c, Overlay(c, base)) = Overlay(c, base)
      BY <1>1, <1>2, <2>2, OverlayFacts
    <3>2. QED
      BY <1>3, <2>2, <3>1
  <2>3. QED
    BY <2>1, <2>2
<1>4. CASE /\ "write" \in Faults /\ c # None
           /\ \E g \in DOMAIN c : \E S \in SUBSET (DOMAIN c \ {g}) :
                 ctrl' \in Partial(c, base, S, g)
           /\ failed' = TRUE
  <2>1. PICK g \in DOMAIN c : \E S \in SUBSET (DOMAIN c \ {g}) : ctrl' \in Partial(c, base, S, g)
    BY <1>4
  <2>2. PICK S \in SUBSET (DOMAIN c \ {g}) : ctrl' \in Partial(c, base, S, g)
    BY <2>1
  <2>3. Partial(c, base, S, g) \subseteq Settings
    BY <1>1, <1>2, <1>4, PartialType
  <2>4. QED
    BY <1>4, <2>2, <2>3
<1>5. QED
  BY <1>3, <1>4 DEF ApplyConfig

-----------------------------------------------------------------------------
(* Streams                                                                 *)

\* The part of TypeOK that is about the streams
Streams == /\ ev \in [Watch -> Seq(Label) \cup Seq(Maybe)]
           /\ ev["node"] \in Seq(Label) /\ {ev["cfg"], ev["grp"]} \subseteq Seq(Maybe)
           /\ \A w \in Watch : Len(ev[w]) <= MaxLag

\* Every stream is a sequence of events.
LEMMA StreamType ==
    ASSUME Streams, NEW w \in Watch
    PROVE  /\ w = "node" => ev[w] \in Seq(Label)
           /\ w # "node" => ev[w] \in Seq(Maybe)
           /\ Len(ev[w]) \in Nat
BY DEF Streams, Watch

\* An opened stream begins with at most one event.
LEMMA OpenedType ==
    ASSUME Streams, NEW w \in Watch, NEW b, Opened(w, b), Len(b) <= MaxLag,
           w = "node" => b \in Seq(Label), w # "node" => b \in Seq(Maybe)
    PROVE  Streams'
BY DEF Streams, Opened, Watch

\* The first event of a sequence and the events after it.
LEMMA TailFacts ==
    ASSUME NEW T, NEW q \in Seq(T), q # <<>>
    PROVE  /\ Head(q) \in T /\ Tail(q) \in Seq(T)
           /\ Len(q) \in Nat /\ Len(Tail(q)) = Len(q) - 1
           /\ Tail(q) = <<>> \/ Tail(q)[Len(Tail(q))] = q[Len(q)]
           /\ Tail(q) = <<>> => Head(q) = q[Len(q)]
<1>1. Len(q) \in Nat \ {0} /\ Head(q) = q[1] /\ Head(q) \in T
  OBVIOUS
<1>2. /\ Tail(q) \in Seq(T) /\ Len(Tail(q)) = Len(q) - 1
      /\ \A i \in 1 .. Len(q) - 1 : Tail(q)[i] = q[i + 1]
  OBVIOUS
<1> DEFINE n == Len(q)
           t == Tail(q)
<1>3. CASE n = 1
  <2>1. Len(t) = 0 /\ t \in Seq(T)
    <3>1. Len(t) = n - 1 /\ t \in Seq(T)
      BY <1>2
    <3> HIDE DEF n, t
    <3>2. QED
      BY <1>3, <3>1
  <2>2. t = <<>>
    <3> HIDE DEF n, t
    <3>1. t # <<>> => Len(t) \in Nat \ {0}
      BY <2>1, EmptySeq
    <3>2. QED
      BY <2>1, <3>1
  <2>3. QED
    BY <1>1, <1>2, <1>3, <2>2
<1>4. CASE n # 1
  <2>1. n \in Nat \ {0} /\ \A i \in 1 .. n - 1 : t[i] = q[i + 1]
    BY <1>1, <1>2
  <2>2. Len(t) = n - 1
    BY <1>2
  <2>3. t # <<>>
    BY <1>1, <1>2, <1>4
  <2> HIDE DEF n, t
  <2>4. n - 1 \in 1 .. n - 1 /\ (n - 1) + 1 = n
    BY <1>4, <2>1
  <2>5. t[n - 1] = q[n]
    BY <2>1, <2>4
  <2>6. QED
    BY <1>1, <1>2, <2>2, <2>3, <2>5 DEF n, t
<1>5. QED
  BY <1>3, <1>4

\* Taking an event shortens the stream and its last event stays the last one.
LEMMA TakenType ==
    ASSUME Streams, NEW w \in Watch, ev[w] # <<>>, Taken(w)
    PROVE  /\ Streams'
           /\ w = "node" => Incoming(w) \in Label
           /\ w # "node" => Incoming(w) \in Maybe
           /\ ev'[w] = <<>> \/ ev'[w][Len(ev'[w])] = ev[w][Len(ev[w])]
           /\ ev'[w] = <<>> => Incoming(w) = ev[w][Len(ev[w])]
           /\ \A v \in Watch \ {w} : ev'[v] = ev[v]
<1> DEFINE q == ev[w]
<1>1. /\ w = "node" => q \in Seq(Label)
      /\ w # "node" => q \in Seq(Maybe)
      /\ Len(q) <= MaxLag
  BY DEF Streams, Watch
<1>2. ev'[w] = Tail(q) /\ \A v \in Watch \ {w} : ev'[v] = ev[v]
  BY DEF Taken, Streams
<1>3. /\ w = "node" => Tail(q) \in Seq(Label) /\ Head(q) \in Label
      /\ w # "node" => Tail(q) \in Seq(Maybe) /\ Head(q) \in Maybe
      /\ Len(Tail(q)) <= MaxLag
      /\ Tail(q) = <<>> \/ Tail(q)[Len(Tail(q))] = q[Len(q)]
      /\ Tail(q) = <<>> => Head(q) = q[Len(q)]
  <2>1. CASE w = "node"
    BY <1>1, <2>1, TailFacts, QosAssumption
  <2>2. CASE w # "node"
    BY <1>1, <2>2, TailFacts, QosAssumption
  <2>3. QED
    BY <2>1, <2>2
<1>4. ev' = [ev EXCEPT ![w] = Tail(q)]
  BY DEF Taken
<1>5. Streams'
  <2>1. ev' \in [Watch -> Seq(Label) \cup Seq(Maybe)]
    BY <1>3, <1>4 DEF Streams
  <2>2. \A v \in Watch : Len(ev'[v]) <= MaxLag
    BY <1>2, <1>3 DEF Streams
  <2>3. ev'["node"] \in Seq(Label)
    BY <1>2, <1>3 DEF Streams, Watch
  <2>4. {ev'["cfg"], ev'["grp"]} \subseteq Seq(Maybe)
    BY <1>2, <1>3 DEF Streams, Watch
  <2>5. QED
    BY <2>1, <2>2, <2>3, <2>4 DEF Streams
<1>6. QED
  BY <1>2, <1>3, <1>5 DEF Incoming

\* An event is published only where there is room for it.
LEMMA PublishType ==
    ASSUME Streams, NEW W \in SUBSET Watch, NEW e, Publish(W, e),
           "node" \in W => e \in Label, W \cap {"cfg", "grp"} # {} => e \in Maybe
    PROVE  /\ Streams'
           /\ \A v \in Watch : ev'[v] = IF v \in W \cap open THEN Append(ev[v], e) ELSE ev[v]
<1>1. \A v \in Watch : ev'[v] = IF v \in W \cap open THEN Append(ev[v], e) ELSE ev[v]
  BY DEF Publish
<1>2. \A v \in Watch : /\ v = "node" => ev'[v] \in Seq(Label)
                       /\ v # "node" => ev'[v] \in Seq(Maybe)
                       /\ Len(ev'[v]) <= MaxLag
  <2> SUFFICES ASSUME NEW v \in Watch
               PROVE  /\ v = "node" => ev'[v] \in Seq(Label)
                      /\ v # "node" => ev'[v] \in Seq(Maybe)
                      /\ Len(ev'[v]) <= MaxLag
    OBVIOUS
  <2>1. CASE v \in W \cap open
    <3>1. Len(ev[v]) < MaxLag /\ ev'[v] = Append(ev[v], e)
      BY <1>1, <2>1 DEF Publish
    <3>2. CASE v = "node"
      BY <2>1, <3>1, <3>2, StreamType, QosAssumption
    <3>3. CASE v # "node"
      <4>1. e \in Maybe
        BY <2>1, <3>3 DEF Watch
      <4>2. QED
        BY <4>1, <3>1, <3>3, StreamType, QosAssumption
    <3>4. QED
      BY <3>2, <3>3
  <2>2. CASE v \notin W \cap open
    BY <1>1, <2>2, StreamType DEF Streams
  <2>3. QED
    BY <2>1, <2>2
<1>3. ev' \in [Watch -> Seq(Label) \cup Seq(Maybe)]
  <2>1. ev' = [v \in Watch |-> ev'[v]]
    BY <1>1 DEF Publish
  <2>2. QED
    BY <1>2, <2>1
<1>4. QED
  BY <1>1, <1>2, <1>3 DEF Streams, Watch

\* Stopping a stream leaves some of its first events.
LEMMA CutType ==
    ASSUME NEW q \in Seq(Maybe), Len(q) <= MaxLag, NEW k \in 0 .. Len(q)
    PROVE  SubSeq(q, 1, k) \in Seq(Maybe) /\ Len(SubSeq(q, 1, k)) <= MaxLag
<1>1. \A i \in 1 .. k : q[i] \in Maybe
  OBVIOUS
<1>2. SubSeq(q, 1, k) \in Seq(Maybe) /\ Len(SubSeq(q, 1, k)) = k
  BY <1>1, SubSeqProperties
<1>3. Len(q) \in Nat
  OBVIOUS
<1>4. QED
  BY <1>2, <1>3, QosAssumption

-----------------------------------------------------------------------------
(* The invariant                                                           *)

\* TypeOK without the streams' contents
Others == /\ label \in Label
          /\ cm \in [Label \cup {NodeMap} -> Maybe]
          /\ pc \in [Watch -> {"idle", "read", "open", "run", "stop", "fetched", "dead"}]
          /\ open \subseteq Watch
          /\ group \in Label
          /\ groupName \in Label
          /\ watched \in Label
          /\ fetched \in Maybe

Idle == \A w \in Watch : pc[w] \in {"idle", "read", "open", "dead"}
                            => w \notin open /\ ev[w] = <<>>

ConfigType == /\ nodeCfg \in Maybe /\ groupCfg \in Maybe
              /\ ctrl \in Settings
              /\ failed \in BOOLEAN

\* TypeOK in parts: the streams, the configuration and the rest.
LEMMA TypeParts == TypeOK <=> Others /\ Streams /\ Idle /\ ConfigType
BY DEF TypeOK, Others, Streams, Idle, ConfigType, Watch

\* The invariant of the next state from its parts.
LEMMA NextParts ==
    ASSUME Others', Streams', Idle', ConfigType', InForce', NodeCfgCurrent'
    PROVE  QosInv'
BY DEF QosInv, TypeOK, Others, Streams, Idle, ConfigType, Watch

\* A step that leaves the configuration alone
LEMMA KeepConfig ==
    ASSUME ConfigType, InForce, UNCHANGED configVars
    PROVE  ConfigType' /\ InForce'
BY DEF ConfigType, InForce, configVars, Effective, Overlay

\* A step that leaves the node's ConfigMap and its stream's events alone
LEMMA KeepNodeCfg ==
    ASSUME NodeCfgCurrent, ev'["cfg"] = ev["cfg"], nodeCfg' = nodeCfg,
           cm'[NodeMap] = cm[NodeMap], "cfg" \in open' => "cfg" \in open
    PROVE  NodeCfgCurrent'
BY DEF NodeCfgCurrent, Coming

\* The configuration of the node is set and applied.
LEMMA SetNodeFacts ==
    ASSUME NEW c \in Maybe, ConfigType, setNodeConfig(c)
    PROVE  ConfigType' /\ InForce' /\ nodeCfg' = c
<1>1. Effective(c, groupCfg) \in Maybe
  BY DEF Effective, ConfigType
<1>2. ApplyConfig(Effective(c, groupCfg))
  BY DEF setNodeConfig
<1>3. /\ ctrl' \in Settings /\ failed' \in BOOLEAN
      /\ \/ Effective(c, groupCfg) = None \/ failed'
         \/ Overlay(Effective(c, groupCfg), ctrl') = ctrl'
  BY <1>1, <1>2, ApplyFacts DEF ConfigType
<1>4. nodeCfg' = c /\ groupCfg' = groupCfg
  BY DEF setNodeConfig
<1>5. InForce'
  BY <1>3, <1>4 DEF InForce, Effective
<1>6. QED
  BY <1>3, <1>4, <1>5 DEF ConfigType

\* The configuration of the group is set, and applied unless the node has its own.
LEMMA SetGroupFacts ==
    ASSUME NEW c \in Maybe, ConfigType, InForce, setGroupConfig(c)
    PROVE  ConfigType' /\ InForce' /\ nodeCfg' = nodeCfg
<1>1. nodeCfg' = nodeCfg /\ groupCfg' = c
  BY DEF setGroupConfig
<1>2. CASE nodeCfg = None
  <2>1. Effective(nodeCfg, c) = c /\ ApplyConfig(Effective(nodeCfg, c))
    BY <1>2 DEF setGroupConfig, Effective
  <2>2. /\ ctrl' \in Settings /\ failed' \in BOOLEAN
        /\ c = None \/ failed' \/ Overlay(c, ctrl') = ctrl'
    BY <2>1, ApplyFacts DEF ConfigType
  <2>3. QED
    BY <1>1, <1>2, <2>2 DEF ConfigType, InForce, Effective
<1>3. CASE nodeCfg # None
  <2>1. ctrl' = ctrl /\ failed' = failed
    BY <1>3 DEF setGroupConfig
  <2>2. QED
    BY <1>1, <1>3, <2>1 DEF ConfigType, InForce, Effective
<1>4. QED
  BY <1>2, <1>3

\* Nothing is configured at the start.
LEMMA InitQos == Init => QosInv
<1> SUFFICES ASSUME Init PROVE QosInv
  OBVIOUS
<1>1. Others
  BY DEF Init, Others, Label, Maybe, Watch
<1>2. Streams /\ Idle
  BY QosAssumption DEF Init, Streams, Idle, Watch
<1>3. ConfigType
  BY NoGroupsType DEF Init, ConfigType, Maybe
<1>4. InForce /\ NodeCfgCurrent
  BY DEF Init, InForce, NodeCfgCurrent, Effective
<1>5. QED
  BY <1>1, <1>2, <1>3, <1>4, TypeParts DEF QosInv

\* Every step of watchNode keeps the invariant.
LEMMA NodeStep == ASSUME QosInv, NodeWatch PROVE QosInv'
<1> USE DEF clusterVars
<1>1. Others /\ Streams /\ Idle /\ ConfigType /\ InForce /\ NodeCfgCurrent
  BY TypeParts DEF QosInv
<1>2. UNCHANGED configVars
  BY DEF NodeWatch, NodeOpen, NodeOpenFails, NodeEvent, NodeStop, NodeEnd
<1>3. ConfigType' /\ InForce' /\ nodeCfg' = nodeCfg
  BY <1>1, <1>2, KeepConfig DEF configVars
<1>4. CASE NodeOpen
  <2>1. <<label>> \in Seq(Label) /\ Len(<<label>>) <= MaxLag
    BY <1>1, QosAssumption DEF Others
  <2>2. Streams' /\ ev'["cfg"] = ev["cfg"]
    BY <1>1, <1>4, <2>1, OpenedType DEF NodeOpen, Opened, Watch, Streams
  <2>3. Others' /\ Idle'
    BY <1>1, <1>4 DEF NodeOpen, Opened, Go, Others, Idle, Watch, Label, Streams
  <2>4. NodeCfgCurrent'
    BY <1>1, <1>3, <1>4, <2>2, KeepNodeCfg DEF NodeOpen, Opened
  <2>5. QED
    BY <1>3, <2>2, <2>3, <2>4, NextParts
<1>5. CASE NodeOpenFails
  <2>1. Streams' /\ Others' /\ Idle'
    BY <1>1, <1>5 DEF NodeOpenFails, Go, Others, Idle, Watch, Streams
  <2>2. NodeCfgCurrent'
    BY <1>1, <1>3, <1>5, KeepNodeCfg DEF NodeOpenFails
  <2>3. QED
    BY <1>3, <2>1, <2>2, NextParts
<1>6. CASE NodeEvent
  <2>1. /\ Streams' /\ Incoming("node") \in Label
        /\ ev'["cfg"] = ev["cfg"] /\ ev'["grp"] = ev["grp"]
    BY <1>1, <1>6, TakenType DEF NodeEvent, Event, Watch
  <2>2. pc["node"] = "run" /\ pc'["node"] \in {"run", "stop"}
    BY <1>1, <1>6 DEF NodeEvent, Event, Others, Watch
  <2>3. Others' /\ Idle'
    BY <1>1, <1>6, <2>1, <2>2 DEF NodeEvent, Others, Idle, Watch
  <2>4. NodeCfgCurrent'
    BY <1>1, <1>3, <1>6, <2>1, KeepNodeCfg DEF NodeEvent
  <2>5. QED
    BY <1>3, <2>1, <2>3, <2>4, NextParts
<1>7. CASE NodeStop
  <2>1. CASE pc["grp"] \in {"run", "fetched"}
    <3>1. PICK k \in 0 .. Len(ev["grp"]) : ev' = [ev EXCEPT !["grp"] = SubSeq(@, 1, k)]
      BY <1>7, <2>1 DEF NodeStop
    <3>2. /\ ev["grp"] \in Seq(Maybe) /\ Len(ev["grp"]) <= MaxLag
      BY <1>1 DEF Streams, Watch
    <3>3. SubSeq(ev["grp"], 1, k) \in Seq(Maybe) /\ Len(SubSeq(ev["grp"], 1, k)) <= MaxLag
      BY <3>2, CutType
    <3>4. Streams' /\ ev'["cfg"] = ev["cfg"] /\ ev'["node"] = ev["node"]
      BY <1>1, <3>1, <3>3 DEF Streams, Watch
    <3>5. open' = open \ {"grp"}
      BY <1>7, <2>1 DEF NodeStop
    <3>6. Others' /\ Idle'
      BY <1>1, <1>7, <2>1, <3>4, <3>5 DEF NodeStop, Others, Idle, Watch
    <3>7. NodeCfgCurrent'
      BY <1>1, <1>3, <1>7, <3>4, <3>5, KeepNodeCfg DEF NodeStop
    <3>8. QED
      BY <1>3, <3>4, <3>6, <3>7, NextParts
  <2>2. CASE pc["grp"] \notin {"run", "fetched"}
    <3>1. UNCHANGED <<open, ev>>
      BY <1>7, <2>2 DEF NodeStop
    <3>2. Streams' /\ Others' /\ Idle'
      BY <1>1, <1>7, <3>1 DEF NodeStop, Others, Idle, Watch, Streams
    <3>3. NodeCfgCurrent'
      BY <1>1, <1>3, <1>7, <3>1, KeepNodeCfg DEF NodeStop
    <3>4. QED
      BY <1>3, <3>2, <3>3, NextParts
  <2>3. QED
    BY <2>1, <2>2
<1>8. CASE NodeEnd
  <2>1. Streams' /\ Others' /\ Idle'
    BY <1>1, <1>8 DEF NodeEnd, Drained, Others, Idle, Watch, Streams
  <2>2. NodeCfgCurrent'
    BY <1>1, <1>3, <1>8, KeepNodeCfg DEF NodeEnd
  <2>3. QED
    BY <1>3, <2>1, <2>2, NextParts
<1>9. QED
  BY <1>4, <1>5, <1>6, <1>7, <1>8 DEF NodeWatch

\* Every step of watchNodeConfigMap keeps the invariant.
LEMMA CfgStep == ASSUME QosInv, CfgWatch PROVE QosInv'
<1> USE DEF clusterVars
<1>1. Others /\ Streams /\ Idle /\ ConfigType /\ InForce /\ NodeCfgCurrent
  BY TypeParts DEF QosInv
<1>2. CASE CfgOpen
  <2>1. cm[NodeMap] \in Maybe
    BY <1>1 DEF Others
  <2>2. First(cm[NodeMap]) \in Seq(Maybe) /\ Len(First(cm[NodeMap])) <= MaxLag
    BY <2>1, QosAssumption DEF First
  <2>3. Streams' /\ ev'["cfg"] = First(cm[NodeMap])
    BY <1>1, <1>2, <2>2, OpenedType DEF CfgOpen, Opened, Watch, Streams
  <2>4. Others' /\ Idle'
    BY <1>1, <1>2 DEF CfgOpen, Opened, Go, Others, Idle, Watch, Streams
  <2>5. NodeCfgCurrent'
    BY <1>2, <2>3 DEF CfgOpen, First, NodeCfgCurrent, Coming
  <2>6. ConfigType' /\ InForce'
    BY <1>1, <1>2, KeepConfig DEF CfgOpen
  <2>7. QED
    BY <2>3, <2>4, <2>5, <2>6, NextParts
<1>3. CASE CfgOpenFails
  <2>1. Streams' /\ Others' /\ Idle'
    BY <1>1, <1>3 DEF CfgOpenFails, Go, Others, Idle, Watch, Streams
  <2>2. ConfigType' /\ InForce'
    BY <1>1, <1>3, KeepConfig DEF CfgOpenFails
  <2>3. NodeCfgCurrent'
    BY <1>1, <1>3, KeepNodeCfg DEF CfgOpenFails, configVars
  <2>4. QED
    BY <2>1, <2>2, <2>3, NextParts
<1>4. CASE CfgEvent
  <2> DEFINE c == Incoming("cfg")
  <2>1. /\ Streams' /\ c \in Maybe
        /\ ev'["node"] = ev["node"] /\ ev'["grp"] = ev["grp"]
        /\ ev["cfg"] # <<>>
        /\ ev'["cfg"] = <<>> \/ ev'["cfg"][Len(ev'["cfg"])] = ev["cfg"][Len(ev["cfg"])]
        /\ ev'["cfg"] = <<>> => c = ev["cfg"][Len(ev["cfg"])]
    BY <1>1, <1>4, TakenType DEF CfgEvent, Event, Watch
  <2>2. ConfigType' /\ InForce' /\ nodeCfg' = c
    BY <1>1, <1>4, <2>1, SetNodeFacts DEF CfgEvent
  <2>3. Others' /\ Idle'
    BY <1>1, <1>4, <2>1 DEF CfgEvent, Event, Others, Idle, Watch
  <2>4. Coming' = Coming
    BY <2>1, <2>2 DEF Coming
  <2>5. NodeCfgCurrent'
    BY <1>1, <1>4, <2>4 DEF CfgEvent, NodeCfgCurrent
  <2>6. QED
    BY <2>1, <2>2, <2>3, <2>5, NextParts
<1>5. CASE CfgEnd
  <2>1. Streams' /\ Others' /\ Idle'
    BY <1>1, <1>5 DEF CfgEnd, Drained, Others, Idle, Watch, Streams
  <2>2. ConfigType' /\ InForce'
    BY <1>1, <1>5, KeepConfig DEF CfgEnd
  <2>3. NodeCfgCurrent'
    BY <1>1, <1>5, KeepNodeCfg DEF CfgEnd, configVars
  <2>4. QED
    BY <2>1, <2>2, <2>3, NextParts
<1>6. QED
  BY <1>2, <1>3, <1>4, <1>5 DEF CfgWatch

\* Every step of watchGroupConfigMap keeps the invariant.
LEMMA GrpStep == ASSUME QosInv, GrpWatch PROVE QosInv'
<1> USE DEF clusterVars
<1>1. Others /\ Streams /\ Idle /\ ConfigType /\ InForce /\ NodeCfgCurrent
  BY TypeParts DEF QosInv
<1>2. CASE GrpRead \/ GrpOpenFails \/ GrpEnd
  <2>1. Streams' /\ Others' /\ Idle'
    <3>1. ev' = ev /\ open' = open
      BY <1>2 DEF GrpRead, GrpOpenFails, GrpEnd
    <3>2. CASE GrpRead
      BY <1>1, <3>1, <3>2 DEF GrpRead, Others, Idle, Watch, Streams
    <3>3. CASE GrpOpenFails
      BY <1>1, <3>1, <3>3 DEF GrpOpenFails, Others, Idle, Watch, Streams
    <3>4. CASE GrpEnd
      BY <1>1, <3>1, <3>4 DEF GrpEnd, Drained, Others, Idle, Watch, Streams
    <3>5. QED
      BY <1>2, <3>2, <3>3, <3>4
  <2>2. ConfigType' /\ InForce'
    BY <1>1, <1>2, KeepConfig DEF GrpRead, GrpOpenFails, GrpEnd
  <2>3. NodeCfgCurrent'
    BY <1>1, <1>2, KeepNodeCfg DEF GrpRead, GrpOpenFails, GrpEnd, configVars
  <2>4. QED
    BY <2>1, <2>2, <2>3, NextParts
<1>3. CASE GrpOpen
  <2>1. cm[watched] \in Maybe
    BY <1>1 DEF Others
  <2>2. First(cm[watched]) \in Seq(Maybe) /\ Len(First(cm[watched])) <= MaxLag
    BY <2>1, QosAssumption DEF First
  <2>3. Streams' /\ ev'["cfg"] = ev["cfg"]
    BY <1>1, <1>3, <2>2, OpenedType DEF GrpOpen, Opened, Watch, Streams
  <2>4. Others' /\ Idle'
    BY <1>1, <1>3 DEF GrpOpen, Opened, Others, Idle, Watch, Streams
  <2>5. ConfigType' /\ InForce'
    BY <1>1, <1>3, KeepConfig DEF GrpOpen
  <2>6. NodeCfgCurrent'
    BY <1>1, <1>3, <2>3, KeepNodeCfg DEF GrpOpen, Opened, configVars
  <2>7. QED
    BY <2>3, <2>4, <2>5, <2>6, NextParts
<1>4. CASE GrpEvent \/ GrpDeleted
  <2> DEFINE c == Incoming("grp")
  <2>1. /\ Streams' /\ c \in Maybe
        /\ ev'["node"] = ev["node"] /\ ev'["cfg"] = ev["cfg"]
        /\ ev["grp"] # <<>> /\ pc["grp"] = "run"
    BY <1>1, <1>4, TakenType DEF GrpEvent, GrpDeleted, Event, Watch
  <2>2. ConfigType' /\ InForce' /\ nodeCfg' = nodeCfg
    <3>1. CASE GrpEvent
      BY <1>1, <2>1, <3>1, SetGroupFacts DEF GrpEvent
    <3>2. CASE GrpDeleted
      BY <1>1, <3>2, KeepConfig DEF GrpDeleted, configVars
    <3>3. QED
      BY <1>4, <3>1, <3>2
  <2>3. Others' /\ Idle'
    <3>1. CASE GrpEvent
      BY <1>1, <2>1, <3>1 DEF GrpEvent, Others, Idle, Watch
    <3>2. CASE GrpDeleted
      BY <1>1, <2>1, <3>2 DEF GrpDeleted, Others, Idle, Watch, Label, Maybe
    <3>3. QED
      BY <1>4, <3>1, <3>2
  <2>4. NodeCfgCurrent'
    BY <1>1, <1>4, <2>1, <2>2, KeepNodeCfg DEF GrpEvent, GrpDeleted
  <2>5. QED
    BY <2>1, <2>2, <2>3, <2>4, NextParts
<1>5. CASE GrpDefault
  <2>1. ConfigType' /\ InForce' /\ nodeCfg' = nodeCfg
    BY <1>1, <1>5, SetGroupFacts DEF GrpDefault, Others
  <2>2. Streams' /\ Others' /\ Idle'
    BY <1>1, <1>5 DEF GrpDefault, Others, Idle, Watch, Streams, Maybe
  <2>3. NodeCfgCurrent'
    BY <1>1, <1>5, <2>1, KeepNodeCfg DEF GrpDefault
  <2>4. QED
    BY <2>1, <2>2, <2>3, NextParts
<1>6. QED
  BY <1>2, <1>3, <1>4, <1>5 DEF GrpWatch

\* Every change of the cluster, and a crash, keeps the invariant.
LEMMA ClusterStep == ASSUME QosInv, Cluster \/ Crash PROVE QosInv'
<1>1. Others /\ Streams /\ Idle /\ ConfigType /\ InForce /\ NodeCfgCurrent
  BY TypeParts DEF QosInv
<1>2. ASSUME NEW l \in Label, SetLabel(l)
      PROVE  QosInv'
  <2>1. /\ Streams'
        /\ \A v \in Watch : ev'[v] = IF v \in {"node"} \cap open THEN Append(ev[v], l) ELSE ev[v]
    BY <1>1, <1>2, PublishType DEF SetLabel, Watch
  <2>2. Others' /\ Idle'
    BY <1>1, <1>2, <2>1 DEF SetLabel, Others, Idle, Watch
  <2>3. ConfigType' /\ InForce'
    BY <1>1, <1>2, KeepConfig DEF SetLabel
  <2>4. NodeCfgCurrent'
    BY <1>1, <1>2, <2>1, KeepNodeCfg DEF SetLabel, configVars, Watch
  <2>5. QED
    BY <2>1, <2>2, <2>3, <2>4, NextParts
<1>3. ASSUME NEW n \in Label \cup {NodeMap}, NEW c \in Maybe, SetMap(n, c)
      PROVE  QosInv'
  <2> DEFINE W == IF n = NodeMap THEN {"cfg"} ELSE IF n = watched THEN {"grp"} ELSE {}
  <2>1. /\ Streams'
        /\ \A v \in Watch : ev'[v] = IF v \in W \cap open THEN Append(ev[v], c) ELSE ev[v]
    <3>1. W \in SUBSET Watch /\ "node" \notin W /\ Publish(W, c)
      BY <1>3 DEF SetMap, Watch
    <3> HIDE DEF W
    <3>2. QED
      BY <1>1, <3>1, PublishType
  <2>2. Others' /\ Idle'
    BY <1>1, <1>3, <2>1 DEF SetMap, Others, Idle, Watch
  <2>3. ConfigType' /\ InForce'
    BY <1>1, <1>3, KeepConfig DEF SetMap
  <2>4. NodeCfgCurrent'
    <3>1. CASE n = NodeMap
      <4>1. cm'[NodeMap] = c
        BY <1>1, <1>3, <3>1 DEF SetMap, Others
      <4>2. CASE "cfg" \in open
        <5>1. ev'["cfg"] = Append(ev["cfg"], c) /\ ev["cfg"] \in Seq(Maybe)
          BY <1>1, <2>1, <3>1, <4>2 DEF Watch, Streams
        <5>2. ev'["cfg"] # <<>> /\ ev'["cfg"][Len(ev'["cfg"])] = c
          BY <5>1
        <5>3. QED
          BY <4>1, <5>2 DEF NodeCfgCurrent, Coming
      <4>3. CASE "cfg" \notin open
        BY <1>3, <4>3 DEF SetMap, NodeCfgCurrent
      <4>4. QED
        BY <4>2, <4>3
    <3>2. CASE n # NodeMap
      <4>1. ev'["cfg"] = ev["cfg"]
        BY <2>1, <3>2 DEF Watch
      <4>2. cm'[NodeMap] = cm[NodeMap]
        BY <1>1, <1>3, <3>2 DEF SetMap, Others
      <4>3. QED
        BY <1>1, <1>3, <4>1, <4>2, KeepNodeCfg DEF SetMap, configVars
    <3>3. QED
      BY <3>1, <3>2
  <2>5. QED
    BY <2>1, <2>2, <2>3, <2>4, NextParts
<1>4. ASSUME NEW w \in Watch, Expire(w)
      PROVE  QosInv'
  <2>1. Streams' /\ Others' /\ Idle'
    BY <1>1, <1>4 DEF Expire, clusterVars, Others, Idle, Watch, Streams
  <2>2. ConfigType' /\ InForce'
    BY <1>1, <1>4, KeepConfig DEF Expire
  <2>3. NodeCfgCurrent'
    BY <1>1, <1>4, KeepNodeCfg DEF Expire, clusterVars, configVars
  <2>4. QED
    BY <2>1, <2>2, <2>3, NextParts
<1>5. CASE Crash
  <2>1. Streams' /\ Idle'
    BY <1>5, QosAssumption DEF Crash, Streams, Idle, Watch
  <2>2. Others'
    BY <1>1, <1>5 DEF Crash, clusterVars, Others, Watch, Label, Maybe
  <2>3. ConfigType' /\ InForce' /\ NodeCfgCurrent'
    BY <1>1, <1>5 DEF Crash, ConfigType, InForce, NodeCfgCurrent, Effective, Maybe
  <2>4. QED
    BY <2>1, <2>2, <2>3, NextParts
<1>6. QED
  BY <1>2, <1>3, <1>4, <1>5 DEF Cluster

\* Stuttering keeps the invariant.
LEMMA StutterQos == ASSUME QosInv, UNCHANGED vars PROVE QosInv'
<1>1. Others /\ Streams /\ Idle /\ ConfigType /\ InForce /\ NodeCfgCurrent
  BY TypeParts DEF QosInv
<1>2. Others' /\ Streams' /\ Idle'
  BY <1>1 DEF vars, Others, Streams, Idle
<1>3. ConfigType' /\ InForce' /\ NodeCfgCurrent'
  BY <1>1, KeepConfig, KeepNodeCfg DEF vars, configVars
<1>4. QED
  BY <1>2, <1>3, NextParts

-----------------------------------------------------------------------------
(* Theorems                                                                *)

\* The three invariants together are inductive: what is asked of a configuration
\* (InForce) and of the node's stream (NodeCfgCurrent) survives every step.
THEOREM QosInvariance == Spec => []QosInv
<1>1. ASSUME QosInv, [Next]_vars
      PROVE  QosInv'
  BY <1>1, NodeStep, CfgStep, GrpStep, ClusterStep, StutterQos DEF Next
<1>2. QED
  BY <1>1, InitQos, PTL DEF Spec

\* No stream holds more than its bound, and none holds anything once it is drained.
THEOREM QosTypeOK == Spec => []TypeOK
<1>1. QosInv => TypeOK
  BY DEF QosInv
<1>2. QED
  BY <1>1, QosInvariance, PTL

\* The file system has the groups of the configuration in force unless writing
\* them failed (setNodeConfig, setGroupConfig, ApplyConfig).
THEOREM ConfigInForce == Spec => []InForce
<1>1. QosInv => InForce
  BY DEF QosInv
<1>2. QED
  BY <1>1, QosInvariance, PTL

\* While its watch is open, nothing but a deletion between two streams keeps the
\* node's configuration from its ConfigMap (watchNodeConfigMap).
THEOREM NodeConfigCurrent == Spec => []NodeCfgCurrent
<1>1. QosInv => NodeCfgCurrent
  BY DEF QosInv
<1>2. QED
  BY <1>1, QosInvariance, PTL
=============================================================================
