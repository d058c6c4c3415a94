----------------------------- MODULE PodTasks ------------------------------
(***************************************************************************)
(* How the threads of labelled pods get into their resctrl group, on one   *)
(* node.  The process is an NRI plugin first: from then on the runtime     *)
(* calls RunPodSandbox and StopPodSandbox, which keep the pod cache.  Then *)
(* Start fills the cache from a list of all the cluster's labelled pods    *)
(* (initPodCache) and runs SyncResCtrlGroupTasks periodically: one         *)
(* goroutine per cached pod reads the thread ids of the pod's cgroup and   *)
(* writes them, one by one, to the tasks file of the pod's group.          *)
(*                                                                         *)
(* Meanwhile threads are forked, into the group of their parent, and end;  *)
(* their ids are used again; the groups come and go with the QoS           *)
(* configuration (QosWatcher), and a removed group leaves its threads to   *)
(* the root group.                                                         *)
(*                                                                         *)
(* A pod is known by its UID, so it is created once.  Its cgroup is one    *)
(* directory: the walk over its subdirectories repeats the same two steps. *)
(***************************************************************************)
EXTENDS Naturals

CONSTANTS Pod,
          Local,   \* the pods scheduled to this node
          Group,   \* resctrl groups, the values of the label "rcgroup"
          Root,    \* the root group
          None,    \* no label; no pod
          Pid,     \* thread ids
          Faults   \* which of "api", "write", "crash", "relabel" may happen

ASSUME TasksAssumption == /\ Local \subseteq Pod
                          /\ Root \notin Group
                          /\ None \notin Group \cup Pod
                          /\ Faults \subseteq {"api", "write", "crash", "relabel"}

VARIABLES
    phase,    \* pod -> "new", "idle" (there is an object but no sandbox, or a
              \*        stopped one), "running", "gone"
    label,    \* pod -> its label
    pc,       \* the process: "down", "plugin", "store" or "run"
    listed,   \* the pods of the list that are still to be stored, with labels
    cache,    \* the pod cache: pod -> its group
    walk,     \* the goroutines of the running synchronisation: pod -> its walk
    owner,    \* thread id -> the pod the thread belongs to
    grp,      \* thread id -> the resctrl group it is in
    groups,   \* the resctrl groups that exist
    late,     \* history: pods that initPodCache stored while they did not run
    changed,  \* history: pods relabelled since the list was read
    had,      \* history: pod -> the labels it has had
    strayed   \* history: threads that another pod's goroutine moved, under an
              \*          id that had become free since it was read, and the
              \*          threads they have forked

vars == <<phase, label, pc, listed, cache, walk, owner, grp, groups,
          late, changed, had, strayed>>

podVars == <<phase, label, had, changed>>
cacheVars == <<listed, cache, late>>
threadVars == <<owner, grp, groups, strayed>>

\* f is a partial function from pods to T.
OnPods(f, T) == DOMAIN f \subseteq Pod /\ f \in [DOMAIN f -> T]

\* free: history, the ids left to write that became free after they were read
Walk == [to : Group, read : BOOLEAN, pids : SUBSET Pid, free : SUBSET Pid]

NoGroups == [p \in {} |-> Root]
NoWalks == [p \in {} |-> Root]

TypeOK == /\ phase \in [Pod -> {"new", "idle", "running", "gone"}]
          /\ label \in [Pod -> Group \cup {None}]
          /\ pc \in {"down", "plugin", "store", "run"}
          /\ OnPods(listed, Group) /\ OnPods(cache, Group) /\ OnPods(walk, Walk)
          /\ owner \in [Pid -> Pod \cup {None}]
          /\ grp \in [Pid -> Group \cup {Root}]
          /\ groups \subseteq Group
          /\ {late, changed} \subseteq SUBSET Pod
          /\ had \in [Pod -> SUBSET (Group \cup {None})]
          /\ strayed \subseteq Pid

Running(p) == phase[p] = "running"
Threads(p) == {t \in Pid : owner[t] = p}

\* The threads T are no more.
Ended(T) == /\ owner' = [t \in Pid |-> IF t \in T THEN None ELSE owner[t]]
            /\ grp' = [t \in Pid |-> IF t \in T THEN Root ELSE grp[t]]
            /\ strayed' = strayed \ T
            /\ walk' = [p \in DOMAIN walk |->
                          [walk[p] EXCEPT !.free = @ \cup (T \cap walk[p].pids)]]

\* f without p, and f with p mapped to x
Minus(f, p) == [q \in DOMAIN f \ {p} |-> f[q]]
Plus(f, p, x) == [q \in DOMAIN f \cup {p} |-> IF q = p THEN x ELSE f[q]]

-----------------------------------------------------------------------------
(* The pod cache                                                           *)

UpdatePod(p, g) == cache' = Plus(cache, p, g)

DelPod(p) == cache' = Minus(cache, p)

\* Mutant: every pod is cached.
RunPodSandboxAny(p) == /\ p \in Local
                       /\ phase[p] = "idle"
                       /\ phase' = [phase EXCEPT ![p] = "running"]
                       /\ late' = late \ {p}
                       /\ IF pc # "down" THEN UpdatePod(p, label[p])
                                         ELSE UNCHANGED cache
                       /\ UNCHANGED <<label, had, changed, pc, listed, walk, threadVars>>

\* Mutant: callbacks are ignored while the list is stored.
RunPodSandboxLate(p) == /\ p \in Local
                        /\ phase[p] = "idle"
                        /\ phase' = [phase EXCEPT ![p] = "running"]
                        /\ late' = late \ {p}
                        /\ IF pc \in {"plugin", "run"} /\ label[p] # None
                             THEN UpdatePod(p, label[p])
                             ELSE UNCHANGED cache
                        /\ UNCHANGED <<label, had, changed, pc, listed, walk, threadVars>>

\* The kubelet starts the pod's sandbox; the runtime calls the plugin, if it is
\* connected.  Pods without the label are not cached.
RunPodSandbox(p) == /\ p \in Local
                    /\ phase[p] = "idle"
                    /\ phase' = [phase EXCEPT ![p] = "running"]
                    /\ late' = late \ {p}
                    /\ IF pc # "down" /\ label[p] # None
                         THEN UpdatePod(p, label[p])
                         ELSE UNCHANGED cache
                    /\ UNCHANGED <<label, had, changed, pc, listed, walk, threadVars>>

\* Mutant: the cache is not touched before it is complete.
StopPodSandboxLate(p) ==
    /\ Running(p)
    /\ phase' = [phase EXCEPT ![p] = "idle"]
    /\ Ended(Threads(p))
    /\ IF pc = "run" THEN DelPod(p) ELSE UNCHANGED cache
    /\ UNCHANGED <<label, had, changed, pc, listed, late, groups>>

\* The sandbox stops, and the pod's threads have ended.
StopPodSandbox(p) ==
    /\ Running(p)
    /\ phase' = [phase EXCEPT ![p] = "idle"]
    /\ Ended(Threads(p))
    /\ IF pc # "down" THEN DelPod(p) ELSE UNCHANGED cache
    /\ UNCHANGED <<label, had, changed, pc, listed, late, groups>>

-----------------------------------------------------------------------------
(* Start                                                                   *)

\* The plugin registers with the runtime.
Connect == /\ pc = "down"
           /\ pc' = "plugin"
           /\ UNCHANGED <<podVars, cacheVars, walk, threadVars>>

\* The labelled pods of all nodes, whatever their phase
Listed == [p \in {q \in Pod : /\ phase[q] \in {"idle", "running"}
                              /\ label[q] # None} |-> label[p]]

List == /\ pc = "plugin"
        /\ listed' = Listed
        /\ pc' = "store"
        /\ UNCHANGED <<podVars, cache, late, walk, threadVars>>

\* The pods of the list are stored one by one, whatever became of them.
Store(p) == /\ pc = "store"
            /\ p \in DOMAIN listed
            /\ UpdatePod(p, listed[p])
            /\ listed' = Minus(listed, p)
            /\ late' = IF Running(p) THEN late ELSE late \cup {p}
            /\ UNCHANGED <<podVars, pc, walk, threadVars>>

Stored == /\ pc = "store"
          /\ DOMAIN listed = {}
          /\ pc' = "run"
          /\ UNCHANGED <<podVars, cacheVars, walk, threadVars>>

\* The process ends; so does a Start whose List fails, or whose connection to
\* the runtime is lost (onClose).
End == /\ pc' = "down"
       /\ listed' = NoGroups
       /\ cache' = NoGroups
       /\ late' = {}
       /\ walk' = NoWalks
       /\ changed' = {}
       /\ UNCHANGED <<phase, label, had, threadVars>>

ListFails == /\ "api" \in Faults
             /\ pc = "plugin"
             /\ End

Crash == /\ "crash" \in Faults
         /\ pc # "down"
         /\ End

-----------------------------------------------------------------------------
(* SyncResCtrlGroupTasks                                                   *)

\* A copy of the cache; the goroutine of each pod starts with the pod's group.
ListPod == [p \in DOMAIN cache |->
              [to |-> cache[p], read |-> FALSE, pids |-> {}, free |-> {}]]

\* One synchronisation at a time: the last one's goroutines have been waited for.
StartSync == /\ pc = "run"
             /\ DOMAIN walk = {}
             /\ DOMAIN cache # {}
             /\ walk' = ListPod
             /\ UNCHANGED <<podVars, pc, cacheVars, threadVars>>

Reading(p) == p \in DOMAIN walk /\ ~walk[p].read
Writing(p) == p \in DOMAIN walk /\ walk[p].read

\* Mutant: the UID is empty, and part of the name of every pod's directory.
ReadPidsAll(p) == /\ Reading(p)
                  /\ walk' = [walk EXCEPT ![p].read = TRUE,
                                          ![p].pids = {t \in Pid : owner[t] # None}]
                  /\ UNCHANGED <<podVars, pc, cacheVars, threadVars>>

\* The tasks file of the pod's cgroup; a pod without a cgroup has no threads.
ReadPids(p) == /\ Reading(p)
               /\ walk' = [walk EXCEPT ![p].read = TRUE, ![p].pids = Threads(p)]
               /\ UNCHANGED <<podVars, pc, cacheVars, threadVars>>

\* Mutant: a thread that has ended is an error like any other.
WritePidStops(p, t) ==
    /\ Writing(p)
    /\ t \in walk[p].pids
    /\ walk[p].to \in groups
    /\ walk' = [walk EXCEPT ![p].pids = IF owner[t] = None THEN {} ELSE @ \ {t},
                            ![p].free = IF owner[t] = None THEN {} ELSE @ \ {t}]
    /\ grp' = IF owner[t] = None THEN grp ELSE [grp EXCEPT ![t] = walk[p].to]
    /\ strayed' = IF owner[t] \notin {p, None} /\ t \in walk[p].free
                    THEN strayed \cup {t} ELSE strayed \ {t}
    /\ UNCHANGED <<podVars, pc, cacheVars, owner, groups>>

\* One thread id is written.  The id of a thread that has ended is skipped
\* (ESRCH), and one that is used again moves the thread that has it now.
WritePid(p, t) ==
    /\ Writing(p)
    /\ t \in walk[p].pids
    /\ walk[p].to \in groups
    /\ walk' = [walk EXCEPT ![p].pids = @ \ {t}, ![p].free = @ \ {t}]
    /\ grp' = IF owner[t] = None THEN grp ELSE [grp EXCEPT ![t] = walk[p].to]
    /\ strayed' = IF owner[t] \notin {p, None} /\ t \in walk[p].free
                    THEN strayed \cup {t} ELSE strayed \ {t}
    /\ UNCHANGED <<podVars, pc, cacheVars, owner, groups>>

\* Every id has been written, or the group is not there.
WalkEnds(p) == /\ Writing(p)
               /\ walk[p].pids = {} \/ walk[p].to \notin groups
               /\ walk' = Minus(walk, p)
               /\ UNCHANGED <<podVars, pc, cacheVars, threadVars>>

\* Any other error drops the ids that are left.
WriteFails(p) == /\ "write" \in Faults
                 /\ Writing(p)
                 /\ walk[p].pids # {} /\ walk[p].to \in groups
                 /\ walk' = Minus(walk, p)
                 /\ UNCHANGED <<podVars, pc, cacheVars, threadVars>>

-----------------------------------------------------------------------------
(* The environment                                                         *)

CreateObject(p) == /\ phase[p] = "new"
                   /\ phase' = [phase EXCEPT ![p] = "idle"]
                   /\ UNCHANGED <<label, had, changed, pc, cacheVars, walk, threadVars>>

\* The object of a pod that does not run is deleted.
DeleteObject(p) == /\ phase[p] = "idle"
                   /\ phase' = [phase EXCEPT ![p] = "gone"]
                   /\ label' = [label EXCEPT ![p] = None]
                   /\ had' = [had EXCEPT ![p] = {}]
                   /\ changed' = changed \ {p}
                   /\ UNCHANGED <<pc, cacheVars, walk, threadVars>>

\* kubectl label
Relabel(p, l) == /\ "relabel" \in Faults
                 /\ phase[p] \in {"idle", "running"}
                 /\ l # label[p]
                 /\ label' = [label EXCEPT ![p] = l]
                 /\ changed' = IF pc \in {"store", "run"} THEN changed \cup {p} ELSE changed
                 /\ had' = [had EXCEPT ![p] = @ \cup {l}]
                 /\ UNCHANGED <<phase, pc, cacheVars, walk, threadVars>>

\* A thread of p appears under a free id: a container's first one in the root
\* group, another one in its parent's.
FirstThread(p, t) == /\ Running(p)
                     /\ owner[t] = None
                     /\ owner' = [owner EXCEPT ![t] = p]
                     /\ grp' = [grp EXCEPT ![t] = Root]
                     /\ strayed' = strayed \ {t}
                     /\ UNCHANGED <<podVars, pc, cacheVars, walk, groups>>

Fork(u, t) == /\ owner[u] # None
              /\ owner[t] = None
              /\ owner' = [owner EXCEPT ![t] = owner[u]]
              /\ grp' = [grp EXCEPT ![t] = grp[u]]
              /\ strayed' = IF u \in strayed THEN strayed \cup {t} ELSE strayed \ {t}
              /\ UNCHANGED <<podVars, pc, cacheVars, walk, groups>>

Exit(t) == /\ owner[t] # None
           /\ Ended({t})
           /\ UNCHANGED <<podVars, pc, cacheVars, groups>>

\* createGroupDir and cleanResCtrlGroup of the QoS watcher
MakeGroup(g) == /\ g \in Group \ groups
                /\ groups' = groups \cup {g}
                /\ UNCHANGED <<podVars, pc, cacheVars, walk, owner, grp, strayed>>

RemoveGroup(g) == /\ g \in groups
                  /\ groups' = groups \ {g}
                  /\ grp' = [t \in Pid |-> IF grp[t] = g THEN Root ELSE grp[t]]
                  /\ UNCHANGED <<podVars, pc, cacheVars, walk, owner, strayed>>

-----------------------------------------------------------------------------
Init == /\ phase = [p \in Pod |-> "new"]
        /\ label \in [Pod -> Group \cup {None}]
        /\ pc = "down"
        /\ listed = NoGroups
        /\ cache = NoGroups
        /\ walk = NoWalks
        /\ owner = [t \in Pid |-> None]
        /\ grp = [t \in Pid |-> Root]
        /\ groups = {}
        /\ late = {}
        /\ changed = {}
        /\ had = [p \in Pod |-> {label[p]}]
        /\ strayed = {}

Start == Connect \/ List \/ (\E p \in Pod : Store(p)) \/ Stored
Sync == \/ StartSync
        \/ \E p \in Pod : \/ ReadPids(p) \/ WalkEnds(p)
                          \/ \E t \in Pid : WritePid(p, t)
Fails == ListFails \/ Crash \/ \E p \in Pod : WriteFails(p)

Environment == \/ \E p \in Pod : \/ CreateObject(p) \/ DeleteObject(p)
                                 \/ RunPodSandbox(p) \/ StopPodSandbox(p)
                                 \/ \E l \in Group \cup {None} : Relabel(p, l)
                                 \/ \E t \in Pid : FirstThread(p, t)
               \/ \E t, u \in Pid : Fork(u, t)
               \/ \E t \in Pid : Exit(t)
               \/ \E g \in Group : MakeGroup(g) \/ RemoveGroup(g)

Next == Start \/ Sync \/ Fails \/ Environment

Spec == Init /\ [][Next]_vars

\* An ended process is started again, Start goes on, and wait.Until calls
\* SyncResCtrlGroupTasks again and again.  Nothing is assumed of the rest.
FairSpec == Spec /\ WF_vars(Start) /\ WF_vars(Sync)

-----------------------------------------------------------------------------
(* Properties                                                              *)

\* Once Start has filled the cache every labelled pod that runs on the node is
\* in it, with its label, although the callbacks and initPodCache write the
\* cache at the same time and the list is old when it is stored.
NothingMissed ==
    pc = "run" => \A p \in Local \ changed :
        Running(p) /\ label[p] # None => p \in DOMAIN cache /\ cache[p] = label[p]

\* A cached pod that does not run was stored by initPodCache after its sandbox
\* had stopped, or without it ever having run here (StopPodSandbox removes every
\* other one).
LeftOver == \A p \in DOMAIN cache : Running(p) \/ p \in late

\* A thread is in the root group or in a group that its own pod was labelled
\* with, unless its id belonged to another pod's thread when it was read.
OwnGroup == \A t \in Pid :
    owner[t] # None /\ t \notin strayed => grp[t] \in {Root} \cup had[owner[t]]

\* From some time on no call fails.
Stable == <>[][~Fails]_vars

\* A thread that lives on gets into the group of its pod, whichever group it was
\* in and however many threads are forked meanwhile, if pod and group stay.
TasksReach ==
    Stable => \A p \in Pod, t \in Pid, g \in Group :
        LET Due == owner[t] = p /\ p \in DOMAIN cache /\ cache[p] = g /\ g \in groups
        IN (Due /\ pc = "run") ~> (grp[t] = g \/ ~Due)
=============================================================================
