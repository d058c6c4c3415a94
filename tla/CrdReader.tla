----------------------------- MODULE CrdReader -----------------------------
(***************************************************************************)
(* From the Oenuma object to the container runtime, on one worker node.    *)
(* The agent watches the object (setupCrdWatch).  For every Added or       *)
(* Modified event it looks up the pods of its node's entry and asks the    *)
(* runtime, in one call, to pin the containers the event names             *)
(* (updateByCrdConfig, createCrdConfigPolicy, resmgr.reconfigCrd).  The    *)
(* object names containers by an id that its own ticks read from a list of *)
(* pods some API calls before they wrote it; pods and containers come and  *)
(* go all the time.                                                        *)
(*                                                                         *)
(* Events carry the object as it was, and wait in the watch's channel      *)
(* while a tick runs: the select loop does one thing at a time.  The tick  *)
(* is the one of OenumaAgent, seen from this node's entry, which exists.   *)
(* A pod has one container.  Its id is the pod and a number, one more at   *)
(* every start; number 0 stands for no container named.                    *)
(***************************************************************************)
EXTENDS Naturals, Sequences

CONSTANTS Pod,
          NumaCount,   \* NUMA nodes of the machine
          Guaranteed,  \* the pods of QoS class Guaranteed
          ChanSize,    \* capacity of the watch's result channel
          MaxInc,      \* bound: pod -> starts of its container
          MaxEdits,    \* bound: writes of the object by users and other agents
          Faults       \* which of "api", "runtime", "watch", "crash" may happen

ASSUME ReaderAssumption == /\ NumaCount \in Nat \ {0}
                           /\ Guaranteed \subseteq Pod
                           /\ ChanSize \in Nat \ {0}
                           /\ MaxInc \in [Pod -> Nat]
                           /\ MaxEdits \in Nat
                           /\ Faults \subseteq {"api", "runtime", "watch", "crash"}

Numa == 0 .. NumaCount - 1

Inc == UNION {0 .. MaxInc[p] : p \in Pod}

\* Not pinned by the agent
Free == NumaCount

\* A PodAffinity of the node's entry: the pod's NUMA node, the container it names
Placement == [numa : Numa, inc : Inc]
Entry == UNION {[S -> Placement] : S \in SUBSET Pod}

VARIABLES
    policy,  \* the flag -policy
    obj,     \* the object: spec.updateenable and the node's entry
    edits,   \* writes by users and other agents so far
    up,      \* the pods whose container runs
    inc,     \* pod -> the number of its last container
    numa,    \* pod -> the NUMA node the runtime gave its container
    watch,   \* the watch is "open", between two streams ("gap"), or "lost"
    chan,    \* its result channel: versions of the object
    pc,      \* where the select loop is
    fresh,   \* the tick's copy has the object's current resourceVersion
    plan,    \* the entry the tick is about to write
    todo,    \* the pods of the event that are still to be looked up
    cfg,     \* policy.Config: the updates for the runtime
    missed,  \* history: an update of the last event applied was lost
    said     \* history: pod -> the NUMA nodes the object has named for its
             \*          container, and who published them

vars == <<policy, obj, edits, up, inc, numa, watch, chan, pc, fresh, plan,
          todo, cfg, missed, said>>

objVars == <<obj, edits, watch, chan>>
podVars == <<up, inc, numa, said>>
applyVars == <<todo, cfg, missed>>

Object == [enable : BOOLEAN, entry : Entry]
Nothing == [p \in {} |-> [numa |-> 0, inc |-> 0]]

TypeOK == /\ policy \in {"net_affinity", "load_balance"}
          /\ obj \in Object
          /\ edits \in 0 .. MaxEdits
          /\ up \subseteq Pod
          /\ inc \in [Pod -> Inc]
          /\ numa \in [Pod -> Numa \cup {Free}]
          /\ watch \in {"open", "gap", "lost"}
          /\ chan \in Seq(Object) /\ Len(chan) <= ChanSize
          /\ pc \in {"ready", "list", "write", "apply"}
          /\ fresh \in BOOLEAN
          /\ plan \in Entry
          /\ todo \subseteq Pod
          /\ cfg \in Entry
          /\ missed \in BOOLEAN
          /\ said \in [Pod -> SUBSET (Numa \X {"tick", "other"})]

-----------------------------------------------------------------------------
(* The object and its watch                                                *)

\* The enabled object o names p's container.
Names(o, p) == o.enable /\ p \in DOMAIN o.entry \cap up /\ o.entry[p].inc = inc[p]

\* Mutant: the event is put before those that wait.
SendFirst(o) == IF Len(chan) < ChanSize THEN chan' = <<o>> \o chan /\ watch' = "open"
                                         ELSE chan' = chan /\ watch' = "lost"

\* Mutant: the event is sent to a full channel.
SendAnyway(o) == /\ chan' = Append(chan, o)
                 /\ watch' = "open"

\* An event with the object o.  A watch whose channel is full drops it and
\* stops for good.
Send(o) == IF Len(chan) < ChanSize THEN /\ chan' = Append(chan, o)
                                         /\ watch' = "open"
                                    ELSE /\ chan' = chan
                                         /\ watch' = "lost"

\* A new version of the object.  A write that changes nothing makes none.
Write(o, who) == /\ obj' = o
                 /\ fresh' = FALSE
                 /\ said' = [p \in Pod |-> IF Names(o, p)
                                 THEN said[p] \cup {<<o.entry[p].numa, who>>} ELSE said[p]]
                 /\ IF watch = "open" THEN Send(o) ELSE UNCHANGED <<watch, chan>>

\* A user applies the object, naming containers that run, ...
UserApply(o) == /\ edits < MaxEdits
                /\ o # obj
                /\ \A p \in DOMAIN o.entry : /\ p \in up
                                             /\ o.entry[p].inc \in {0, inc[p]}
                /\ edits' = edits + 1
                /\ Write(o, "other")
                /\ UNCHANGED <<policy, up, inc, numa, pc, plan, applyVars>>

\* ... or another agent updates its own entry.
OtherWrite == /\ edits < MaxEdits
              /\ edits' = edits + 1
              /\ Write(obj, "other")
              /\ UNCHANGED <<policy, up, inc, numa, pc, plan, applyVars>>

Expire == /\ watch = "open"
          /\ watch' = "gap"
          /\ UNCHANGED <<policy, obj, edits, podVars, chan, pc, fresh, plan, applyVars>>

\* Mutant: the new stream begins with the next change.
ReopenQuiet == /\ watch = "gap"
               /\ watch' = "open"
               /\ UNCHANGED <<policy, obj, edits, podVars, chan, pc, fresh, plan, applyVars>>

\* The new stream begins with the object as it is.
Reopen == /\ watch = "gap"
          /\ Send(obj)
          /\ UNCHANGED <<policy, obj, edits, podVars, pc, fresh, plan, applyVars>>

\* An Error event, or a stream that cannot be opened again, ends the watch.
Break == /\ "watch" \in Faults
         /\ watch # "lost"
         /\ watch' = "lost"
         /\ UNCHANGED <<policy, obj, edits, podVars, chan, pc, fresh, plan, applyVars>>

-----------------------------------------------------------------------------
(* Pods                                                                    *)

PodStart(p) == /\ p \notin up
               /\ inc[p] < MaxInc[p]
               /\ up' = up \cup {p}
               /\ inc' = [inc EXCEPT ![p] = @ + 1]
               /\ numa' = [numa EXCEPT ![p] = Free]
               /\ said' = [said EXCEPT ![p] = {}]
               /\ UNCHANGED <<policy, objVars, pc, fresh, plan, applyVars>>

PodStop(p) == /\ p \in up
              /\ up' = up \ {p}
              /\ numa' = [numa EXCEPT ![p] = Free]
              /\ said' = [said EXCEPT ![p] = {}]
              /\ UNCHANGED <<policy, inc, objVars, pc, fresh, plan, applyVars>>

\* The pod stays, with a new container.
ContainerRestart(p) == /\ p \in up
                       /\ inc[p] < MaxInc[p]
                       /\ inc' = [inc EXCEPT ![p] = @ + 1]
                       /\ numa' = [numa EXCEPT ![p] = Free]
                       /\ said' = [said EXCEPT ![p] = {}]
                       /\ UNCHANGED <<policy, up, objVars, pc, fresh, plan, applyVars>>

-----------------------------------------------------------------------------
(* The ticks                                                               *)

Return == /\ pc' = "ready"
          /\ fresh' = FALSE
          /\ plan' = Nothing

\* GetConfigCrd
TickRead == /\ pc = "ready"
            /\ pc' = "list"
            /\ fresh' = TRUE
            /\ UNCHANGED <<policy, objVars, podVars, plan, applyVars>>

\* The network-affinity tick places more pods, or moves them, and names the
\* container of every placed pod that it has listed.
NetPlans == UNION {{[p \in DOMAIN obj.entry \cup S |->
                        [numa |-> IF p \in S THEN f[p] ELSE obj.entry[p].numa,
                         inc |-> IF p \in up THEN inc[p] ELSE 0]] : f \in [S -> Numa]}
                     : S \in SUBSET up}

\* The load-balancing tick places every pod it has listed and names the
\* containers of the Guaranteed ones.
LbPlans == {[p \in up |-> [numa |-> f[p],
                           inc |-> IF p \in Guaranteed THEN inc[p] ELSE 0]]
              : f \in [up -> Numa]}

\* Mutant: a pod that is placed keeps the name of its container.
TickListKeep == /\ pc = "list"
                /\ \E e \in NetPlans :
                     plan' = [p \in DOMAIN e |-> IF p \in DOMAIN obj.entry
                                                   THEN [e[p] EXCEPT !.inc = obj.entry[p].inc]
                                                   ELSE e[p]]
                /\ pc' = "write"
                /\ UNCHANGED <<policy, objVars, podVars, fresh, applyVars>>

\* Mutant: both policies name every container.
TickListAll == /\ pc = "list"
               /\ plan' \in NetPlans
               /\ pc' = "write"
               /\ UNCHANGED <<policy, objVars, podVars, fresh, applyVars>>

\* The list of pods.  Unless its update will be refused, the copy the tick
\* has read is the object (FreshCopy of OenumaProps).
TickList == /\ pc = "list"
            /\ plan' \in (IF policy = "net_affinity" THEN NetPlans ELSE LbPlans)
            /\ pc' = "write"
            /\ UNCHANGED <<policy, objVars, podVars, fresh, applyVars>>

\* UpdateConfigCrd
TickWrite == /\ pc = "write"
             /\ fresh
             /\ LET o == [obj EXCEPT !.entry = plan]
                IN IF o = obj THEN UNCHANGED <<obj, said, watch, chan>>
                              ELSE Write(o, "tick")
             /\ Return
             /\ UNCHANGED <<policy, edits, up, inc, numa, applyVars>>

\* A call fails, or the update is refused: nothing is tried again.
TickFail == /\ pc \in {"list", "write"}
            /\ "api" \in Faults \/ (pc = "write" /\ ~fresh)
            /\ Return
            /\ UNCHANGED <<policy, objVars, podVars, applyVars>>

-----------------------------------------------------------------------------
(* An event of the object                                                  *)

Take == /\ pc = "ready"
        /\ chan # <<>>
        /\ chan' = Tail(chan)
        /\ UNCHANGED <<policy, obj, edits, watch, podVars, fresh>>

\* updateenable is not "enable".
TakeDisabled == /\ Take
                /\ ~Head(chan).enable
                /\ UNCHANGED <<pc, plan, applyVars>>

TakeEnabled == /\ Take
               /\ Head(chan).enable
               /\ pc' = "apply"
               /\ plan' = Head(chan).entry
               /\ todo' = DOMAIN Head(chan).entry
               /\ cfg' = Nothing
               /\ missed' = FALSE

\* Mutant: the update goes to whatever container the pod has now.
PushedNow(p) == [plan[p] EXCEPT !.inc = inc[p]]

Pushed(p) == plan[p]

\* One GET per pod.  A pod that is not there, or whose GET fails, is skipped.
LookUp(p) == /\ pc = "apply"
             /\ p \in todo
             /\ p \in up
             /\ todo' = todo \ {p}
             /\ cfg' = IF plan[p].inc = 0 THEN cfg
                       ELSE [q \in DOMAIN cfg \cup {p} |-> IF q = p THEN Pushed(p) ELSE cfg[q]]
             /\ UNCHANGED <<policy, objVars, podVars, pc, fresh, plan, missed>>

LookUpFails(p) == /\ pc = "apply"
                  /\ p \in todo
                  /\ p \notin up \/ "api" \in Faults
                  /\ todo' = todo \ {p}
                  /\ missed' = (missed \/ p \in up)
                  /\ UNCHANGED <<policy, objVars, podVars, pc, fresh, plan, cfg>>

\* One UpdateContainers call.  The runtime ignores ids it does not know, may
\* fail on some of the others, or on all; the list it returns is dropped.
Push(F) == /\ pc = "apply"
           /\ todo = {}
           /\ F \subseteq DOMAIN cfg
           /\ F # {} => "runtime" \in Faults
           /\ numa' = [p \in Pod |-> IF /\ p \in (DOMAIN cfg \ F) \cap up
                                        /\ cfg[p].inc = inc[p]
                                       THEN cfg[p].numa ELSE numa[p]]
           /\ missed' = (missed \/ F # {})
           /\ cfg' = Nothing
           /\ Return
           /\ UNCHANGED <<policy, objVars, up, inc, said, todo>>

-----------------------------------------------------------------------------
\* The process ends (a panic, a kill, or onClose: the runtime's connection is
\* lost) and is started again; it watches the object before anything else.
Restart == /\ "crash" \in Faults
           /\ Return
           /\ watch' = "open"
           /\ chan' = <<obj>>
           /\ todo' = {}
           /\ cfg' = Nothing
           /\ UNCHANGED <<policy, obj, edits, podVars, missed>>

Init == /\ policy \in {"net_affinity", "load_balance"}
        /\ obj = [enable |-> TRUE, entry |-> Nothing]
        /\ edits = 0
        /\ up = {}
        /\ inc = [p \in Pod |-> 0]
        /\ numa = [p \in Pod |-> Free]
        /\ watch = "open"
        /\ chan = <<obj>>
        /\ pc = "ready"
        /\ fresh = FALSE
        /\ plan = Nothing
        /\ todo = {}
        /\ cfg = Nothing
        /\ missed = FALSE
        /\ said = [p \in Pod |-> {}]

Tick == TickRead \/ TickList \/ TickWrite \/ TickFail
Event == \/ TakeDisabled \/ TakeEnabled
         \/ \E p \in Pod : LookUp(p) \/ LookUpFails(p)
         \/ \E F \in SUBSET Pod : Push(F)

Environment == \/ \E o \in Object : UserApply(o)
               \/ OtherWrite \/ Expire \/ Break
               \/ \E p \in Pod : PodStart(p) \/ PodStop(p) \/ ContainerRestart(p)

Next == Tick \/ Event \/ Reopen \/ Environment \/ Restart

Spec == Init /\ [][Next]_vars

\* A handler's calls return, the watch's goroutine opens the next stream, and
\* a select that is offered an event, or a tick, again and again takes it.
FairSpec == /\ Spec
            /\ WF_vars(pc # "ready" /\ (Tick \/ Event))
            /\ WF_vars(Reopen)
            /\ SF_vars(TakeDisabled \/ TakeEnabled)
            /\ SF_vars(TickRead)

-----------------------------------------------------------------------------
(* Properties                                                              *)

Named(p) == Names(obj, p)

\* A container has only CPUs that some enabled version of the object gave to
\* that very container: never those of a former container of the pod, although
\* pods restart between the list, the write, the look-up and the update.
OnlyNamed == \A p \in up : numa[p] # Free =>
                \E who \in {"tick", "other"} : <<numa[p], who>> \in said[p]

\* When the agent has nothing left to do and lost no update, the containers the
\* object names are where it says, though each event is applied from a copy of
\* the object that may be old (createCrdConfigPolicy, reconfigCrd).
Settled == (/\ pc \in {"ready", "list", "write"}
            /\ chan = <<>>
            /\ watch = "open"
            /\ ~missed)
           => \A p \in Pod : Named(p) => numa[p] = obj.entry[p].numa

\* Load balancing never pins a pod that is not Guaranteed: its placement names
\* no container ("Containers without resources stand for the whole NUMA node",
\* agent.go:411) and createCrdConfigPolicy only looks at containers.
SharedNotPinned == policy = "load_balance" =>
    \A p \in up \ Guaranteed :
        numa[p] # Free => <<numa[p], "other">> \in said[p]

\* The process is not killed for ever.  (Some restarts look like an opened
\* stream or an event that was taken: those are no harm.)
Stable == <>[][Restart => Tick \/ Event \/ Reopen]_vars

\* What the object says about a container that runs reaches the runtime, unless
\* the object says something else, the watch is lost or a call has failed.
PlacementReaches ==
    Stable => \A p \in Pod :
        Named(p) ~> \/ ~Named(p)
                    \/ numa[p] = obj.entry[p].numa
                    \/ watch = "lost" \/ missed

\* A pod whose placement names a container that is gone: a tick lists the pod
\* and writes the new name, or none if the policy names none, once its calls
\* succeed.
RestartNoticed ==
    Stable /\ <>[][TickFail => TickWrite]_vars => \A p \in Pod :
        (p \in up \cap DOMAIN obj.entry /\ obj.entry[p].inc \notin {0, inc[p]})
            ~> (p \in DOMAIN obj.entry \cap up => obj.entry[p].inc \in {0, inc[p]})
=============================================================================
