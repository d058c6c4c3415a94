---------------------------- MODULE OenumaAgent ----------------------------
(***************************************************************************)
(* The write side of pkg/agent: one agent process per worker node, all of  *)
(* them editing the one Oenuma object "tcs/podafi" in the API server.      *)
(*                                                                         *)
(* An agent creates the object and its node's entry when it starts         *)
(* (setupConfigCrd), rewrites the placements of its entry on a 5-minute    *)
(* tick (updateByNumafastAware or updateByLoadBalancing, by policy) and    *)
(* removes a pod from it on a Deleted event (deleteObsoletePodsInCr).      *)
(* Every handler GETs the whole object, edits its copy and UPDATEs the     *)
(* whole object.  The copy carries the object's resourceVersion, and the   *)
(* API server refuses an update made from another version; no handler      *)
(* tries again.  Handlers run one at a time in the agent's select loop;    *)
(* pods, users and the other agents move between any two API calls.        *)
(***************************************************************************)
EXTENDS OenumaData, Sequences, FiniteSets

CONSTANTS Guaranteed,  \* the pods of QoS class Guaranteed
          ChanSize,    \* capacity of a watch's result channel
          MaxEdits,    \* bound: how many times a user edits the object
          Faults       \* which of "api", "crash", "watch" may happen

ASSUME AgentAssumption == /\ IsFiniteSet(Pod)
                          /\ Guaranteed \subseteq Pod
                          /\ ChanSize \in Nat \ {0}
                          /\ MaxEdits \in Nat
                          /\ Faults \subseteq {"api", "crash", "watch"}

VARIABLES
    crExists,  \* the Oenuma object is in the API server
    spec,      \* its spec.node
    fresh,     \* the agents whose copy has the object's current resourceVersion
    wlExists,  \* the Whitelist object is in the API server
    edits,     \* user edits so far
    pods,      \* pod -> the node it runs on, for the pods that exist
    pc,        \* agent -> where its process is
    un,        \* agent -> the copy of spec.node its handler read
    plan,      \* agent -> the placements its tick computed
    del,       \* agent -> the pod its Deleted handler is removing, as a set
    podEv,     \* agent -> the pod watch's result channel; an event is the set
               \*          of pods it reports deleted: {} for Added, Modified
    watching,  \* the agents whose pod watch is running
    lost       \* history: agent -> pods whose last deletion it will never handle

vars == <<crExists, spec, fresh, wlExists, edits, pods,
          pc, un, plan, del, podEv, watching, lost>>

crVars == <<crExists, spec, fresh, edits>>
podVars == <<pods, podEv, watching, lost>>
handlerVars == <<pc, un, plan, del>>

PC == {"down", "create", "setup", "setupWrite",
       "ready", "ask", "write", "del"}

TypeOK == /\ crExists \in BOOLEAN
          /\ spec \in SpecMap
          /\ fresh \subseteq Node
          /\ wlExists \in BOOLEAN
          /\ edits \in 0 .. MaxEdits
          /\ pods \in UNION {[S -> Node] : S \in SUBSET Pod}
          /\ pc \in [Node -> PC]
          /\ un \in [Node -> SpecMap]
          /\ plan \in [Node -> PodMap]
          /\ del \in [Node -> SUBSET Pod]
          /\ podEv \in [Node -> Seq(SUBSET Pod)]
          /\ \A n \in Node : Len(podEv[n]) <= ChanSize
          /\ watching \subseteq Node
          /\ lost \in [Node -> SUBSET Pod]

\* The pods running on node n
Live(n) == {p \in DOMAIN pods : pods[p] = n}

\* The pods whose deletion is still in n's channel
Queued(n) == UNION {podEv[n][i] : i \in 1 .. Len(podEv[n])}

-----------------------------------------------------------------------------
(* API calls on the object                                                 *)

Read(a) == /\ crExists
           /\ un' = [un EXCEPT ![a] = spec]
           /\ fresh' = fresh \cup {a}

\* Mutant: the copy is written without its resourceVersion.
CommitBlind(a, s) == /\ a \in Node
                     /\ spec' = s
                     /\ fresh' = IF s = spec THEN fresh \ {a} ELSE {}
                     /\ UNCHANGED <<crExists, edits>>

\* UPDATE of the whole object.  It is accepted from the current version only,
\* and makes a new version unless nothing changed.
Commit(a, s) == /\ a \in fresh
                /\ spec' = s
                /\ fresh' = IF s = spec THEN fresh \ {a} ELSE {}
                /\ UNCHANGED <<crExists, edits>>

\* The handler returns to the select loop.
Return(a) == /\ pc' = [pc EXCEPT ![a] = "ready"]
             /\ un' = [un EXCEPT ![a] = NoEntries]
             /\ plan' = [plan EXCEPT ![a] = NoPods]
             /\ del' = [del EXCEPT ![a] = {}]

InHandler(a) == pc[a] \in {"setup", "setupWrite", "ask", "write", "del"}

\* An API or gRPC call of the handler fails, or its UPDATE is refused: the
\* error is logged and the handler's work, a Deleted event included, is dropped.
Fail(a) == /\ InHandler(a)
           /\ \/ "api" \in Faults
              \/ pc[a] \in {"setupWrite", "write", "del"} /\ a \notin fresh
           /\ Return(a)
           /\ fresh' = fresh \ {a}
           /\ lost' = [lost EXCEPT ![a] = @ \cup del[a]]
           /\ UNCHANGED <<crExists, spec, wlExists, edits, pods, podEv, watching>>

\* The process ends: its memory, its watches and their channels are gone.
Die(a) == /\ pc' = [pc EXCEPT ![a] = "down"]
          /\ un' = [un EXCEPT ![a] = NoEntries]
          /\ plan' = [plan EXCEPT ![a] = NoPods]
          /\ del' = [del EXCEPT ![a] = {}]
          /\ podEv' = [podEv EXCEPT ![a] = <<>>]
          /\ watching' = watching \ {a}
          /\ fresh' = fresh \ {a}
          /\ lost' = [lost EXCEPT ![a] = @ \cup del[a] \cup Queued(a)]
          /\ UNCHANGED <<crExists, spec, wlExists, edits, pods>>

-----------------------------------------------------------------------------
(* Start                                                                   *)

\* The pod watch is opened first; it begins with an Added event for every pod,
\* which nobody reads before the select loop runs.
Boot(a) == /\ pc[a] = "down"
           /\ pc' = [pc EXCEPT ![a] = "create"]
           /\ podEv' = [podEv EXCEPT ![a] =
                 [i \in 1 .. (IF Cardinality(DOMAIN pods) <= ChanSize
                                THEN Cardinality(DOMAIN pods) ELSE ChanSize) |-> {}]]
           /\ watching' = IF Cardinality(DOMAIN pods) <= ChanSize
                            THEN watching \cup {a} ELSE watching
           /\ UNCHANGED <<crVars, wlExists, pods, un, plan, del, lost>>

\* CreateConfigCrd fails when the object exists: the rest of the setup is skipped.
SetupExists(a) == /\ pc[a] = "create"
                  /\ crExists
                  /\ Return(a)
                  /\ UNCHANGED <<crVars, wlExists, podVars>>

SetupCreate(a) == /\ pc[a] = "create"
                  /\ ~crExists
                  /\ crExists' = TRUE
                  /\ spec' = NoEntries
                  /\ fresh' = {}
                  /\ pc' = [pc EXCEPT ![a] = "setup"]
                  /\ UNCHANGED <<edits, wlExists, podVars, un, plan, del>>

SetupRead(a) == /\ pc[a] = "setup"
                /\ Read(a)
                /\ pc' = [pc EXCEPT ![a] = "setupWrite"]
                /\ UNCHANGED <<crExists, spec, edits, wlExists, podVars, plan, del>>

\* The node's entry is added, or emptied when it is there.
SetupWrite(a) == /\ pc[a] = "setupWrite"
                 /\ Commit(a, Put(un[a], a, MkEntry(NumaCount, NoPods)))
                 /\ Return(a)
                 /\ UNCHANGED <<wlExists, podVars>>

-----------------------------------------------------------------------------
(* The network-affinity tick                                               *)

\* Without the object or the node's entry in it the tick returns an error.
NetRead(a) == /\ pc[a] = "ready"
              /\ Policy[a] = "net_affinity"
              /\ Read(a)
              /\ a \in DOMAIN spec
              /\ pc' = [pc EXCEPT ![a] = "ask"]
              /\ UNCHANGED <<crExists, spec, edits, wlExists, podVars, plan, del>>

\* What the affinity server answers about the pods S: groups of at least two
\* related pods, the first group on NUMA 0, the next on NUMA 1, ... cyclically.
Responses(S) ==
    {r \in PodMap : /\ DOMAIN r \subseteq S
                    /\ \A p \in DOMAIN r :
                         /\ \E q \in DOMAIN r \ {p} : r[q] = r[p]
                         /\ \A k \in 0 .. r[p] : \E q \in DOMAIN r : r[q] = k}

\* targetNode.Numa[podafi.NumaNum] is out of range for a listed pod.
OutOfRange(e, r) ==
    LET m == Merge(r, e.aff)
    IN \E p \in (DOMAIN m \cap DOMAIN pods) \ Guaranteed : m[p] >= e.numa

NetAsk(a) == /\ pc[a] = "ask"
             /\ Policy[a] = "net_affinity"
             /\ \E r \in Responses(Live(a)) :
                  /\ ~OutOfRange(un[a][a], r)
                  /\ plan' = [plan EXCEPT ![a] = r]
             /\ pc' = [pc EXCEPT ![a] = "write"]
             /\ UNCHANGED <<crVars, wlExists, podVars, un, del>>

NetPanic(a) == /\ pc[a] = "ask"
               /\ Policy[a] = "net_affinity"
               /\ \E r \in Responses(Live(a)) : OutOfRange(un[a][a], r)
               /\ Die(a)

NetWrite(a) == /\ pc[a] = "write"
               /\ Policy[a] = "net_affinity"
               /\ Commit(a, PutAff(un[a], a, Merge(plan[a], un[a][a].aff)))
               /\ Return(a)
               /\ UNCHANGED <<wlExists, podVars>>

-----------------------------------------------------------------------------
(* The load-balancing tick                                                 *)

LbRead(a) == /\ pc[a] = "ready"
             /\ Policy[a] = "load_balance"
             /\ wlExists
             /\ Read(a)
             /\ pc' = [pc EXCEPT ![a] = "ask"]
             /\ UNCHANGED <<crExists, spec, edits, wlExists, podVars, plan, del>>

\* The error of getManagedPods is ignored and its nil result used.
LbPanic(a) == /\ pc[a] = "ready"
              /\ Policy[a] = "load_balance"
              /\ ~wlExists \/ "api" \in Faults
              /\ Die(a)

\* Every whitelisted pod listed on the node is placed; a failed List is
\* ignored and gives no pod.
LbAsk(a) == /\ pc[a] = "ask"
            /\ Policy[a] = "load_balance"
            /\ \E S \in {Live(a) \cap Whitelist} \cup (IF "api" \in Faults THEN {{}} ELSE {}) :
                 \E m \in [S -> Numa] : plan' = [plan EXCEPT ![a] = m]
            /\ pc' = [pc EXCEPT ![a] = "write"]
            /\ UNCHANGED <<crVars, wlExists, podVars, un, del>>

\* Mutant: the tick keeps the placements it did not compute.
LbWriteMerge(a) == /\ pc[a] = "write"
                   /\ Policy[a] = "load_balance"
                   /\ Commit(a, IF a \in DOMAIN un[a]
                                  THEN PutAff(un[a], a, Merge(plan[a], un[a][a].aff))
                                  ELSE Put(un[a], a, MkEntry(NumaCount, NoPods)))
                   /\ Return(a)
                   /\ UNCHANGED <<wlExists, podVars>>

\* The placements go into the node's entry.  A new entry is published without
\* them: it was copied into the object before they were computed.
LbWrite(a) == /\ pc[a] = "write"
              /\ Policy[a] = "load_balance"
              /\ Commit(a, IF a \in DOMAIN un[a] THEN PutAff(un[a], a, plan[a])
                           ELSE Put(un[a], a, MkEntry(NumaCount, NoPods)))
              /\ Return(a)
              /\ UNCHANGED <<wlExists, podVars>>

-----------------------------------------------------------------------------
(* The pod watch: only Deleted events have a handler                       *)

TakeEvent(a) == /\ pc[a] = "ready"
                /\ podEv[a] # <<>>
                /\ podEv' = [podEv EXCEPT ![a] = Tail(@)]
                /\ UNCHANGED <<crExists, spec, edits, wlExists, pods, watching, plan>>

\* Mutant: the event's type is not looked at.
SkipAnyEvent(a) == /\ TakeEvent(a)
                   /\ UNCHANGED <<fresh, pc, un, del, lost>>

SkipEvent(a) == /\ TakeEvent(a)
                /\ Head(podEv[a]) = {}
                /\ UNCHANGED <<fresh, pc, un, del, lost>>

DelRead(a) == /\ TakeEvent(a)
              /\ Head(podEv[a]) # {}
              /\ Read(a)
              /\ a \in DOMAIN spec
              /\ pc' = [pc EXCEPT ![a] = "del"]
              /\ del' = [del EXCEPT ![a] = Head(podEv[a])]
              /\ UNCHANGED lost

\* The node has no entry: nothing to do.
DelNoEntry(a) == /\ TakeEvent(a)
                 /\ Head(podEv[a]) # {}
                 /\ crExists
                 /\ a \notin DOMAIN spec
                 /\ UNCHANGED <<fresh, pc, un, del, lost>>

\* The GET fails: the event is dropped.
DelNoObject(a) == /\ TakeEvent(a)
                  /\ Head(podEv[a]) # {}
                  /\ ~crExists \/ "api" \in Faults
                  /\ lost' = [lost EXCEPT ![a] = @ \cup Head(podEv[a])]
                  /\ UNCHANGED <<fresh, pc, un, del>>

\* Mutant: the pods that are not the event's are removed with it.
DelWriteAll(a) == /\ pc[a] = "del"
                  /\ Commit(a, PutAff(un[a], a, NoPods))
                  /\ Return(a)
                  /\ lost' = [lost EXCEPT ![a] = @ \ del[a]]
                  /\ UNCHANGED <<wlExists, pods, podEv, watching>>

\* Mutant: the event's pod is not removed.
DelWriteNone(a) == /\ pc[a] = "del"
                   /\ Commit(a, un[a])
                   /\ Return(a)
                   /\ lost' = [lost EXCEPT ![a] = @ \ del[a]]
                   /\ UNCHANGED <<wlExists, pods, podEv, watching>>

DelWrite(a) == /\ pc[a] = "del"
               /\ Commit(a, PutAff(un[a], a, Without(un[a][a].aff, del[a])))
               /\ Return(a)
               /\ lost' = [lost EXCEPT ![a] = @ \ del[a]]
               /\ UNCHANGED <<wlExists, pods, podEv, watching>>

-----------------------------------------------------------------------------
(* The environment                                                         *)

Crash(a) == /\ "crash" \in Faults
            /\ pc[a] # "down"
            /\ Die(a)

\* Mutant: one event too many is put into the channel.
HearFull(Miss) == {n \in watching \ Miss : Len(podEv[n]) <= ChanSize}

\* An event reaches every running watch but those of Miss, which were between
\* two streams.  A watch whose channel is full drops it and stops for good.
Hear(Miss) == {n \in watching \ Miss : Len(podEv[n]) < ChanSize}

Deliver(ev, Miss) ==
    /\ podEv' = [n \in Node |-> IF n \in Hear(Miss) THEN Append(podEv[n], ev)
                                                   ELSE podEv[n]]
    /\ watching' = Hear(Miss) \cup (watching \cap Miss)

PodCreate(p, n) == /\ p \notin DOMAIN pods
                   /\ pods' = [q \in DOMAIN pods \cup {p} |->
                                 IF q = p THEN n ELSE pods[q]]
                   /\ Deliver({}, {})
                   /\ lost' = [lost EXCEPT ![n] = @ \ {p}]
                   /\ UNCHANGED <<crVars, wlExists, handlerVars>>

PodDelete(p) == /\ p \in DOMAIN pods
                /\ pods' = [q \in DOMAIN pods \ {p} |-> pods[q]]
                /\ \E Miss \in SUBSET watching :
                     /\ Miss # {} => "watch" \in Faults
                     /\ Deliver({p}, Miss)
                     /\ lost' = [n \in Node |-> IF n \in Hear(Miss) THEN lost[n] \ {p}
                                                                   ELSE lost[n] \cup {p}]
                /\ UNCHANGED <<crVars, wlExists, handlerVars>>

\* An Error event, or a stream that cannot be opened again, ends a watch.
WatchBreak(a) == /\ "watch" \in Faults
                 /\ a \in watching
                 /\ watching' = watching \ {a}
                 /\ UNCHANGED <<crVars, wlExists, pods, podEv, lost, handlerVars>>

\* kubectl apply: an entry whose placements name pods of that node.
UserApply(n, e) == /\ edits < MaxEdits
                   /\ DOMAIN e.aff \subseteq Live(n)
                   /\ edits' = edits + 1
                   /\ crExists' = TRUE
                   /\ spec' = Put(spec, n, e)
                   /\ fresh' = {}
                   /\ UNCHANGED <<wlExists, podVars, handlerVars>>

UserWhitelist == /\ ~wlExists
                 /\ wlExists' = TRUE
                 /\ UNCHANGED <<crVars, podVars, handlerVars>>

-----------------------------------------------------------------------------
Init == /\ crExists = FALSE
        /\ spec = NoEntries
        /\ fresh = {}
        /\ wlExists = FALSE
        /\ edits = 0
        /\ pods = NoPods
        /\ pc = [n \in Node |-> "down"]
        /\ un = [n \in Node |-> NoEntries]
        /\ plan = [n \in Node |-> NoPods]
        /\ del = [n \in Node |-> {}]
        /\ podEv = [n \in Node |-> <<>>]
        /\ watching = {}
        /\ lost = [n \in Node |-> {}]

Setup(a) == Boot(a) \/ SetupExists(a) \/ SetupCreate(a) \/ SetupRead(a) \/ SetupWrite(a)
Tick(a) == \/ NetRead(a) \/ NetAsk(a) \/ NetPanic(a) \/ NetWrite(a)
           \/ LbRead(a) \/ LbPanic(a) \/ LbAsk(a) \/ LbWrite(a)
PodEvent(a) == SkipEvent(a) \/ DelRead(a) \/ DelNoEntry(a) \/ DelNoObject(a) \/ DelWrite(a)

Agent(a) == Setup(a) \/ Tick(a) \/ PodEvent(a) \/ Fail(a)

Environment == \/ \E p \in Pod : PodDelete(p)
               \/ \E p \in Pod, n \in Node : PodCreate(p, n)
               \/ \E n \in Node : Crash(n) \/ WatchBreak(n)
               \/ \E n \in Node, e \in Entry : UserApply(n, e)
               \/ UserWhitelist

Next == Environment \/ \E a \in Node : Agent(a)

Spec == Init /\ [][Next]_vars

\* A started call returns, the kubelet restarts an ended process, and a select
\* that is offered a tick, or an event, again and again takes it: Go chooses
\* among the ready cases at random.  Nothing is assumed of the environment.
AgentFairness(a) ==
    /\ WF_vars(pc[a] # "ready" /\ (Setup(a) \/ Tick(a) \/ DelWrite(a) \/ Fail(a)))
    /\ SF_vars(pc[a] = "ready" /\ Tick(a))
    /\ SF_vars(pc[a] = "ready" /\ PodEvent(a))

FairSpec == Spec /\ \A a \in Node : AgentFairness(a)
=============================================================================
