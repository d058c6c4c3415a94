--------------------------- MODULE PodTasksProof ----------------------------
(***************************************************************************)
(* Proofs about PodTasks for every set of pods, groups and thread ids.     *)
(*                                                                         *)
(* The cache is complete when Start has filled it because a pod that runs  *)
(* was either in the list, which still has it, or has been stored since    *)
(* (Reached), and what the list says of a pod stays true unless the pod is *)
(* relabelled (OnceListed).  A thread is only moved to a label its pod has *)
(* had because labels are all that the list, the cache and the goroutines  *)
(* hold (Known), and an id that did not become free still belongs to the   *)
(* pod it was read for (Own).                                              *)
(***************************************************************************)
EXTENDS PodTasks, TLAPS

\* What there is before Start, and between its steps
Booted == /\ pc # "store" => DOMAIN listed = {}
          /\ pc = "down" => DOMAIN cache = {}
          /\ pc \in {"down", "plugin"} => changed = {}

\* What the list says of a pod is true until the pod is relabelled or deleted.
OnceListed == \A p \in DOMAIN listed :
    /\ phase[p] # "new"
    /\ p \notin changed /\ phase[p] \in {"idle", "running"} => listed[p] = label[p]

\* A labelled pod that runs is cached or still in the list.
Reached == pc \in {"store", "run"} => \A p \in Local \ changed :
    Running(p) /\ label[p] # None =>
        p \in DOMAIN listed \/ (p \in DOMAIN cache /\ cache[p] = label[p])

\* The part of the invariant that is about the cache
Cached == Booted /\ OnceListed /\ Reached /\ LeftOver

\* The pods that have not been deleted
Exists(p) == phase[p] # "gone"

\* Every group that the process has read of a pod is a label the pod has had.
Known == /\ \A p \in Pod : Exists(p) => label[p] \in had[p]
         /\ \A p \in DOMAIN listed : Exists(p) => listed[p] \in had[p]
         /\ \A p \in DOMAIN cache : Exists(p) => cache[p] \in had[p]
         /\ \A p \in DOMAIN walk : Exists(p) => walk[p].to \in had[p]

\* Only pods that run have threads.
Living == \A t \in Pid : owner[t] # None => Running(owner[t])

\* An id that is left to write belongs to the pod, unless it became free.
Own == \A p \in DOMAIN walk : \A t \in walk[p].pids \ walk[p].free : owner[t] = p

\* The part of the invariant that is about threads
Moved == Known /\ Living /\ Own /\ OwnGroup

-----------------------------------------------------------------------------
(* Partial functions                                                       *)

\* Removing a pod
LEMMA MinusFacts ==
    ASSUME NEW T, NEW f, OnPods(f, T), NEW p
    PROVE  /\ OnPods(Minus(f, p), T)
           /\ DOMAIN Minus(f, p) = DOMAIN f \ {p}
           /\ \A q \in DOMAIN f \ {p} : Minus(f, p)[q] = f[q]
BY DEF OnPods, Minus

\* Adding a pod, or giving it another value
LEMMA PlusFacts ==
    ASSUME NEW T, NEW f, OnPods(f, T), NEW p \in Pod, NEW x \in T
    PROVE  /\ OnPods(Plus(f, p, x), T)
           /\ DOMAIN Plus(f, p, x) = DOMAIN f \cup {p}
           /\ Plus(f, p, x)[p] = x
           /\ \A q \in DOMAIN f \ {p} : Plus(f, p, x)[q] = f[q]
BY DEF OnPods, Plus

\* The empty functions
LEMMA NoneFacts ==
    /\ DOMAIN NoGroups = {} /\ OnPods(NoGroups, Group)
    /\ DOMAIN NoWalks = {} /\ OnPods(NoWalks, Walk)
BY DEF NoGroups, NoWalks, OnPods

\* The walk of a goroutine
LEMMA WalkFacts ==
    ASSUME OnPods(walk, Walk), NEW p \in DOMAIN walk
    PROVE  /\ p \in Pod /\ walk[p] \in Walk
           /\ walk[p].to \in Group /\ walk[p].read \in BOOLEAN
           /\ walk[p].pids \subseteq Pid /\ walk[p].free \subseteq Pid
<1>1. p \in Pod /\ walk[p] \in Walk
  BY DEF OnPods
<1>2. QED
  BY <1>1 DEF Walk

\* What the end of threads changes
LEMMA EndedFacts ==
    ASSUME TypeOK, NEW T \in SUBSET Pid, Ended(T)
    PROVE  /\ owner' \in [Pid -> Pod \cup {None}] /\ grp' \in [Pid -> Group \cup {Root}]
           /\ strayed' \subseteq Pid /\ OnPods(walk', Walk)
           /\ DOMAIN walk' = DOMAIN walk
           /\ \A p \in DOMAIN walk : /\ walk'[p].to = walk[p].to
                                     /\ walk'[p].pids = walk[p].pids
                                     /\ walk'[p].free = walk[p].free \cup (T \cap walk[p].pids)
           /\ \A t \in T : owner'[t] = None
           /\ \A t \in Pid \ T : owner'[t] = owner[t] /\ grp'[t] = grp[t]
           /\ strayed' = strayed \ T
<1>1. /\ owner' = [t \in Pid |-> IF t \in T THEN None ELSE owner[t]]
      /\ grp' = [t \in Pid |-> IF t \in T THEN Root ELSE grp[t]]
      /\ strayed' = strayed \ T
      /\ walk' = [p \in DOMAIN walk |->
                    [walk[p] EXCEPT !.free = @ \cup (T \cap walk[p].pids)]]
  BY DEF Ended
<1>2. owner' \in [Pid -> Pod \cup {None}] /\ grp' \in [Pid -> Group \cup {Root}]
  BY <1>1 DEF TypeOK
<1>3. \A p \in DOMAIN walk : walk[p] \in Walk /\ p \in Pod
  BY WalkFacts DEF TypeOK
<1>4. \A p \in DOMAIN walk : /\ walk'[p] \in Walk
                             /\ walk'[p].to = walk[p].to
                             /\ walk'[p].pids = walk[p].pids
                             /\ walk'[p].free = walk[p].free \cup (T \cap walk[p].pids)
  BY <1>1, <1>3 DEF Walk
<1>5. OnPods(walk', Walk) /\ DOMAIN walk' = DOMAIN walk
  BY <1>1, <1>3, <1>4 DEF OnPods
<1>6. QED
  BY <1>1, <1>2, <1>4, <1>5 DEF TypeOK

\* What the rewriting of one goroutine's walk changes
LEMMA RewalkFacts ==
    ASSUME OnPods(walk, Walk), NEW p \in DOMAIN walk, NEW b \in BOOLEAN,
           NEW P \in SUBSET Pid, NEW F \in SUBSET Pid,
           walk' = [walk EXCEPT ![p].read = b, ![p].pids = P, ![p].free = F]
    PROVE  /\ OnPods(walk', Walk) /\ DOMAIN walk' = DOMAIN walk
           /\ walk'[p].to = walk[p].to /\ walk'[p].pids = P /\ walk'[p].free = F
           /\ \A q \in DOMAIN walk \ {p} : walk'[q] = walk[q]
<1>1. \A q \in DOMAIN walk : walk[q] \in Walk /\ q \in Pod
  BY WalkFacts
<1>2. DOMAIN walk' = DOMAIN walk /\ \A q \in DOMAIN walk \ {p} : walk'[q] = walk[q]
  OBVIOUS
<1>3. walk'[p] = [walk[p] EXCEPT !.read = b, !.pids = P, !.free = F]
  OBVIOUS
<1>4. walk'[p] \in Walk /\ walk'[p].to = walk[p].to /\ walk'[p].pids = P /\ walk'[p].free = F
  BY <1>1, <1>3 DEF Walk
<1>5. walk' = [q \in DOMAIN walk |-> walk'[q]]
  BY <1>2
<1>6. QED
  BY <1>1, <1>2, <1>4, <1>5 DEF OnPods

-----------------------------------------------------------------------------
(* Types                                                                   *)

\* At the start the process is down and no pod runs.
LEMMA TasksInitType == Init => TypeOK
<1> SUFFICES ASSUME Init PROVE TypeOK
  OBVIOUS
<1>1. OnPods(listed, Group) /\ OnPods(cache, Group) /\ OnPods(walk, Walk)
  BY NoneFacts DEF Init
<1>2. had \in [Pod -> SUBSET (Group \cup {None})]
  BY DEF Init
<1>3. QED
  BY <1>1, <1>2 DEF Init, TypeOK

\* Start stores labels.
LEMMA StartType == ASSUME TypeOK, Start PROVE TypeOK'
<1>1. CASE Connect \/ Stored
  BY <1>1 DEF Connect, Stored, podVars, cacheVars, threadVars, TypeOK
<1>2. CASE List
  <2>1. listed' = Listed
    BY <1>2 DEF List
  <2>2. \A p \in DOMAIN listed' : p \in Pod /\ listed'[p] = label[p] /\ label[p] # None
    BY <2>1 DEF Listed
  <2>3. OnPods(listed', Group)
    BY <2>1, <2>2 DEF OnPods, Listed, TypeOK
  <2>4. QED
    BY <1>2, <2>3 DEF List, podVars, threadVars, TypeOK
<1>3. ASSUME NEW p \in Pod, Store(p)
      PROVE  TypeOK'
  <2>1. listed[p] \in Group
    BY <1>3 DEF Store, TypeOK, OnPods
  <2>2. OnPods(cache', Group) /\ OnPods(listed', Group)
    BY <1>3, <2>1, MinusFacts, PlusFacts DEF Store, UpdatePod, TypeOK
  <2>3. late' \subseteq Pod
    BY <1>3 DEF Store, TypeOK
  <2>4. QED
    BY <1>3, <2>2, <2>3 DEF Store, podVars, threadVars, TypeOK
<1>4. QED
  BY <1>1, <1>2, <1>3 DEF Start

\* The ids a goroutine moves are thread ids and go to its group.
LEMMA SyncType ==
    ASSUME TypeOK, Sync \/ \E p \in Pod : WriteFails(p)
    PROVE  TypeOK'
<1>1. CASE StartSync
  <2>1. OnPods(walk', Walk)
    BY <1>1 DEF StartSync, ListPod, TypeOK, OnPods, Walk
  <2>2. QED
    BY <1>1, <2>1 DEF StartSync, podVars, cacheVars, threadVars, TypeOK
<1>2. ASSUME NEW p \in Pod, ReadPids(p)
      PROVE  TypeOK'
  <2>1. p \in DOMAIN walk /\ Threads(p) \subseteq Pid /\ OnPods(walk, Walk)
    BY <1>2 DEF ReadPids, Reading, Threads, TypeOK
  <2>2. walk' = [walk EXCEPT ![p].read = TRUE, ![p].pids = Threads(p), ![p].free = walk[p].free]
    BY <1>2, <2>1, WalkFacts DEF ReadPids, OnPods, Walk
  <2>3. OnPods(walk', Walk)
    BY <2>1, <2>2, RewalkFacts, WalkFacts
  <2>4. QED
    BY <1>2, <2>3 DEF ReadPids, podVars, cacheVars, threadVars, TypeOK
<1>3. ASSUME NEW p \in Pod, NEW t \in Pid, WritePid(p, t)
      PROVE  TypeOK'
  <2>1. p \in DOMAIN walk /\ OnPods(walk, Walk) /\ walk[p].read = TRUE
    BY <1>3, WalkFacts DEF WritePid, Writing, TypeOK
  <2>2. walk' = [walk EXCEPT ![p].read = TRUE, ![p].pids = walk[p].pids \ {t},
                             ![p].free = walk[p].free \ {t}]
    BY <1>3, <2>1, WalkFacts DEF WritePid, OnPods, Walk
  <2>3. OnPods(walk', Walk) /\ walk[p].to \in Group
    <3>1. /\ walk[p].pids \ {t} \in SUBSET Pid /\ walk[p].free \ {t} \in SUBSET Pid
          /\ walk[p].to \in Group
      BY <2>1, WalkFacts
    <3> DEFINE P == walk[p].pids \ {t}
               F == walk[p].free \ {t}
    <3>2. /\ P \in SUBSET Pid /\ F \in SUBSET Pid
          /\ walk' = [walk EXCEPT ![p].read = TRUE, ![p].pids = P, ![p].free = F]
      BY <2>2, <3>1
    <3> HIDE DEF P, F
    <3>3. OnPods(walk', Walk)
      BY <2>1, <3>2, RewalkFacts
    <3>4. QED
      BY <3>1, <3>3
  <2>4. grp' \in [Pid -> Group \cup {Root}] /\ strayed' \subseteq Pid
    BY <1>3, <2>3 DEF WritePid, TypeOK
  <2>5. QED
    BY <1>3, <2>3, <2>4 DEF WritePid, podVars, cacheVars, TypeOK
<1>4. ASSUME NEW p \in Pod, WalkEnds(p) \/ WriteFails(p)
      PROVE  TypeOK'
  <2>1. OnPods(walk', Walk)
    <3>1. walk' = Minus(walk, p) /\ OnPods(walk, Walk)
      BY <1>4 DEF WalkEnds, WriteFails, TypeOK
    <3>2. QED
      BY <3>1, MinusFacts
  <2>2. QED
    BY <1>4, <2>1 DEF WalkEnds, WriteFails, podVars, cacheVars, threadVars, TypeOK
<1>5. QED
  BY <1>1, <1>2, <1>3, <1>4 DEF Sync

\* The runtime's calls cache labels, and sandboxes take their threads with them.
LEMMA PodCallsType ==
    ASSUME TypeOK, NEW p \in Pod,
           \/ CreateObject(p) \/ DeleteObject(p) \/ RunPodSandbox(p) \/ StopPodSandbox(p)
           \/ \E l \in Group \cup {None} : Relabel(p, l)
    PROVE  TypeOK'
<1>1. CASE CreateObject(p)
  BY <1>1 DEF CreateObject, cacheVars, threadVars, TypeOK
<1>2. CASE DeleteObject(p)
  BY <1>2 DEF DeleteObject, cacheVars, threadVars, TypeOK
<1>3. CASE RunPodSandbox(p)
  <2>1. OnPods(cache', Group)
    <3>1. CASE pc # "down" /\ label[p] # None
      <4>1. cache' = Plus(cache, p, label[p]) /\ label[p] \in Group
        BY <1>3, <3>1 DEF RunPodSandbox, UpdatePod, TypeOK
      <4>2. QED
        BY <4>1, PlusFacts DEF TypeOK
    <3>2. CASE ~(pc # "down" /\ label[p] # None)
      BY <1>3, <3>2 DEF RunPodSandbox, TypeOK
    <3>3. QED
      BY <3>1, <3>2
  <2>2. QED
    BY <1>3, <2>1 DEF RunPodSandbox, threadVars, TypeOK
<1>4. CASE StopPodSandbox(p)
  <2>1. Ended(Threads(p)) /\ Threads(p) \in SUBSET Pid
    BY <1>4 DEF StopPodSandbox, Threads
  <2>2. OnPods(cache', Group)
    <3>1. cache' \in {cache, Minus(cache, p)} /\ OnPods(cache, Group)
      BY <1>4 DEF StopPodSandbox, DelPod, TypeOK
    <3>2. OnPods(Minus(cache, p), Group)
      BY <3>1, MinusFacts
    <3>3. QED
      BY <3>1, <3>2
  <2>3. QED
    BY <1>4, <2>1, <2>2, EndedFacts DEF StopPodSandbox, TypeOK
<1>5. ASSUME NEW l \in Group \cup {None}, Relabel(p, l)
      PROVE  TypeOK'
  <2>1. had' \in [Pod -> SUBSET (Group \cup {None})]
    BY <1>5 DEF Relabel, TypeOK
  <2>2. QED
    BY <1>5, <2>1 DEF Relabel, cacheVars, threadVars, TypeOK
<1>6. QED
  BY <1>1, <1>2, <1>3, <1>4, <1>5

\* The ends of the process, and the threads and groups of the node
LEMMA RestType ==
    ASSUME TypeOK,
           \/ ListFails \/ Crash
           \/ \E t, u \in Pid : Fork(u, t)
           \/ \E p \in Pod, t \in Pid : FirstThread(p, t)
           \/ \E t \in Pid : Exit(t)
           \/ \E g \in Group : MakeGroup(g) \/ RemoveGroup(g)
    PROVE  TypeOK'
<1>1. CASE ListFails \/ Crash
  <2>1. OnPods(listed', Group) /\ OnPods(cache', Group) /\ OnPods(walk', Walk)
    BY <1>1, NoneFacts DEF ListFails, Crash, End
  <2>2. QED
    BY <1>1, <2>1 DEF ListFails, Crash, End, threadVars, TypeOK
<1>2. ASSUME NEW t \in Pid, NEW u \in Pid, Fork(u, t)
      PROVE  TypeOK'
  BY <1>2 DEF Fork, podVars, cacheVars, TypeOK
<1>3. ASSUME NEW p \in Pod, NEW t \in Pid, FirstThread(p, t)
      PROVE  TypeOK'
  BY <1>3 DEF FirstThread, podVars, cacheVars, TypeOK
<1>4. ASSUME NEW t \in Pid, Exit(t)
      PROVE  TypeOK'
  <2>1. Ended({t}) /\ {t} \in SUBSET Pid
    BY <1>4 DEF Exit
  <2>2. QED
    BY <1>4, <2>1, EndedFacts DEF Exit, podVars, cacheVars, TypeOK
<1>5. ASSUME NEW g \in Group, MakeGroup(g) \/ RemoveGroup(g)
      PROVE  TypeOK'
  BY <1>5 DEF MakeGroup, RemoveGroup, podVars, cacheVars, TypeOK
<1>6. QED
  BY <1>1, <1>2, <1>3, <1>4, <1>5

\* Stuttering keeps the types.
LEMMA TasksStutterType == ASSUME TypeOK, UNCHANGED vars PROVE TypeOK'
BY DEF vars, TypeOK

\* The cache and the goroutines hold groups for pods, the goroutines thread ids.
THEOREM TasksTypeOK == Spec => []TypeOK
<1>1. ASSUME TypeOK, [Next]_vars
      PROVE  TypeOK'
  BY <1>1, StartType, SyncType, PodCallsType, RestType, TasksStutterType
     DEF Next, Fails, Environment
<1>2. QED
  BY <1>1, TasksInitType, PTL DEF Spec

-----------------------------------------------------------------------------
(* The cache                                                               *)

\* A step that leaves the pods and the cache alone
LEMMA CachedKept ==
    ASSUME Cached, UNCHANGED <<phase, label, changed, pc, listed, cache, late>>
    PROVE  Cached'
BY DEF Cached, Booted, OnceListed, Reached, LeftOver, Running

\* The list is as good as the labels when it is read, and storing it keeps it.
LEMMA StartCached == ASSUME TypeOK, Cached, Start PROVE Cached'
<1>1. Booted /\ OnceListed /\ Reached /\ LeftOver
  BY DEF Cached
<1>2. CASE Connect
  <2>1. pc = "down" /\ pc' = "plugin" /\ UNCHANGED <<phase, label, changed, listed, cache, late>>
    BY <1>2 DEF Connect, podVars, cacheVars
  <2>2. QED
    BY <1>1, <2>1 DEF Cached, Booted, OnceListed, Reached, LeftOver, Running
<1>3. CASE List
  <2>1. /\ pc = "plugin" /\ pc' = "store" /\ listed' = Listed
        /\ UNCHANGED <<phase, label, changed, cache, late>>
    BY <1>3 DEF List, podVars
  <2>2. OnceListed' /\ Reached'
    <3>1. /\ \A p \in Pod : p \in DOMAIN listed' <=>
                phase[p] \in {"idle", "running"} /\ label[p] # None
          /\ \A p \in DOMAIN listed' : p \in Pod /\ listed'[p] = label[p]
      BY <2>1 DEF Listed
    <3>2. OnceListed'
      BY <2>1, <3>1 DEF OnceListed
    <3>3. Reached'
      BY <2>1, <3>1, TasksAssumption DEF Reached, Running
    <3>4. QED
      BY <3>2, <3>3
  <2>3. Booted' /\ LeftOver'
    BY <1>1, <2>1 DEF Booted, LeftOver, Running
  <2>4. QED
    BY <2>2, <2>3 DEF Cached
<1>4. ASSUME NEW p \in Pod, Store(p)
      PROVE  Cached'
  <2>1. /\ pc = "store" /\ p \in DOMAIN listed
        /\ cache' = Plus(cache, p, listed[p]) /\ listed' = Minus(listed, p)
        /\ late' = IF Running(p) THEN late ELSE late \cup {p}
        /\ UNCHANGED <<phase, label, changed, pc>>
    BY <1>4 DEF Store, UpdatePod, podVars
  <2>2. /\ DOMAIN listed' = DOMAIN listed \ {p}
        /\ \A q \in DOMAIN listed \ {p} : listed'[q] = listed[q]
    BY <2>1, MinusFacts, ZenonT(30) DEF TypeOK
  <2>3. /\ DOMAIN cache' = DOMAIN cache \cup {p} /\ cache'[p] = listed[p]
        /\ \A q \in DOMAIN cache \ {p} : cache'[q] = cache[q]
    BY <2>1 DEF Plus
  <2>4. Booted' /\ OnceListed'
    BY <1>1, <2>1, <2>2 DEF Booted, OnceListed
  <2>5. Reached'
    <3> SUFFICES ASSUME NEW q \in Local \ changed, phase[q] = "running", label[q] # None
                 PROVE  q \in DOMAIN listed' \/ (q \in DOMAIN cache' /\ cache'[q] = label[q])
      BY <2>1 DEF Reached, Running
    <3>1. CASE q = p
      BY <1>1, <2>1, <2>3, <3>1 DEF OnceListed
    <3>2. CASE q # p
      <4>1. q \in DOMAIN listed \/ (q \in DOMAIN cache /\ cache[q] = label[q])
        BY <1>1, <2>1 DEF Reached, Running
      <4>2. QED
        BY <2>2, <2>3, <3>2, <4>1
    <3>3. QED
      BY <3>1, <3>2
  <2>6. LeftOver'
    BY <1>1, <2>1, <2>3 DEF LeftOver, Running
  <2>7. QED
    BY <2>4, <2>5, <2>6 DEF Cached
<1>5. CASE Stored
  <2>1. /\ pc = "store" /\ pc' = "run" /\ DOMAIN listed = {}
        /\ UNCHANGED <<phase, label, changed, listed, cache, late>>
    BY <1>5 DEF Stored, podVars, cacheVars
  <2>2. QED
    BY <1>1, <2>1 DEF Cached, Booted, OnceListed, Reached, LeftOver, Running
<1>6. QED
  BY <1>2, <1>3, <1>4, <1>5 DEF Start

\* The runtime's calls keep up with the pods, whatever Start is doing.
LEMMA PodCallsCached ==
    ASSUME TypeOK, Cached, NEW p \in Pod,
           \/ CreateObject(p) \/ DeleteObject(p) \/ RunPodSandbox(p) \/ StopPodSandbox(p)
           \/ \E l \in Group \cup {None} : Relabel(p, l)
    PROVE  Cached'
<1>1. Booted /\ OnceListed /\ Reached /\ LeftOver
  BY DEF Cached
<1>2. CASE CreateObject(p) \/ DeleteObject(p)
  <2>1. /\ phase[p] \in {"new", "idle"} /\ phase'[p] \in {"idle", "gone"}
        /\ phase[p] = "idle" => phase'[p] = "gone"
        /\ changed' \subseteq changed /\ changed \subseteq changed' \cup {p}
        /\ UNCHANGED <<pc, listed, cache, late>>
        /\ \A q \in Pod \ {p} : phase'[q] = phase[q] /\ label'[q] = label[q]
    BY <1>2 DEF CreateObject, DeleteObject, cacheVars, TypeOK
  <2>2. Booted'
    BY <1>1, <2>1 DEF Booted
  <2>3. OnceListed'
    BY <1>1, <2>1 DEF OnceListed, TypeOK, OnPods
  <2>4. Reached'
    <3> SUFFICES ASSUME pc \in {"store", "run"}, NEW q \in Local \ changed',
                        phase'[q] = "running", label'[q] # None
                 PROVE  q \in DOMAIN listed \/ (q \in DOMAIN cache /\ cache[q] = label'[q])
      BY <2>1 DEF Reached, Running
    <3>1. q # p /\ q \in Local \ changed /\ q \in Pod
      BY <2>1, TasksAssumption
    <3>2. QED
      BY <1>1, <2>1, <3>1 DEF Reached, Running
  <2>5. LeftOver'
    BY <1>1, <2>1 DEF LeftOver, Running, TypeOK, OnPods
  <2>6. QED
    BY <2>2, <2>3, <2>4, <2>5 DEF Cached
<1>3. CASE RunPodSandbox(p)
  <2>1. /\ p \in Local /\ phase[p] = "idle" /\ phase' = [phase EXCEPT ![p] = "running"]
        /\ late' = late \ {p} /\ UNCHANGED <<label, changed, pc, listed>>
    BY <1>3 DEF RunPodSandbox
  <2>2. \/ /\ pc # "down" /\ label[p] # None
           /\ cache' = Plus(cache, p, label[p])
        \/ ~(pc # "down" /\ label[p] # None) /\ cache' = cache
    BY <1>3 DEF RunPodSandbox, UpdatePod
  <2>3. phase'[p] = "running" /\ \A q \in Pod \ {p} : phase'[q] = phase[q]
    BY <2>1 DEF TypeOK
  <2>4. /\ DOMAIN cache \subseteq DOMAIN cache' /\ DOMAIN cache' \subseteq DOMAIN cache \cup {p}
        /\ \A q \in DOMAIN cache \ {p} : cache'[q] = cache[q]
        /\ pc # "down" /\ label[p] # None => p \in DOMAIN cache' /\ cache'[p] = label[p]
    BY <2>2 DEF Plus
  <2>5. Booted'
    BY <1>1, <2>1, <2>2 DEF Booted
  <2>6. OnceListed'
    BY <1>1, <2>1, <2>3 DEF OnceListed, TypeOK, OnPods
  <2>7. Reached'
    <3> SUFFICES ASSUME pc \in {"store", "run"}, NEW q \in Local \ changed,
                        phase'[q] = "running", label[q] # None
                 PROVE  q \in DOMAIN listed \/ (q \in DOMAIN cache' /\ cache'[q] = label[q])
      BY <2>1 DEF Reached, Running
    <3>1. CASE q = p
      BY <2>4, <3>1
    <3>2. CASE q # p
      <4>1. phase[q] = "running"
        BY <2>3, <3>2, TasksAssumption
      <4>2. QED
        BY <1>1, <2>4, <3>2, <4>1 DEF Reached, Running
    <3>3. QED
      BY <3>1, <3>2
  <2>8. LeftOver'
    BY <1>1, <2>1, <2>3, <2>4 DEF LeftOver, Running, TypeOK, OnPods
  <2>9. QED
    BY <2>5, <2>6, <2>7, <2>8 DEF Cached
<1>4. CASE StopPodSandbox(p)
  <2>1. /\ phase[p] = "running" /\ phase' = [phase EXCEPT ![p] = "idle"]
        /\ UNCHANGED <<label, changed, pc, listed, late>>
        /\ IF pc # "down" THEN cache' = Minus(cache, p) ELSE cache' = cache
    BY <1>4 DEF StopPodSandbox, DelPod, Running
  <2>2. phase'[p] = "idle" /\ \A q \in Pod \ {p} : phase'[q] = phase[q]
    BY <2>1 DEF TypeOK
  <2>3. /\ DOMAIN cache' = DOMAIN cache \ {p}
        /\ \A q \in DOMAIN cache \ {p} : cache'[q] = cache[q]
    BY <1>1, <2>1 DEF Booted, Minus
  <2>4. Booted'
    BY <1>1, <2>1, <2>3 DEF Booted
  <2>5. OnceListed'
    BY <1>1, <2>1, <2>2 DEF OnceListed, TypeOK, OnPods
  <2>6. Reached'
    BY <1>1, <2>1, <2>2, <2>3, TasksAssumption DEF Reached, Running
  <2>7. LeftOver'
    BY <1>1, <2>1, <2>2, <2>3 DEF LeftOver, Running, TypeOK, OnPods
  <2>8. QED
    BY <2>4, <2>5, <2>6, <2>7 DEF Cached
<1>5. ASSUME NEW l \in Group \cup {None}, Relabel(p, l)
      PROVE  Cached'
  <2>1. /\ label' = [label EXCEPT ![p] = l]
        /\ changed' = IF pc \in {"store", "run"} THEN changed \cup {p} ELSE changed
        /\ UNCHANGED <<phase, pc, listed, cache, late>>
    BY <1>5 DEF Relabel, cacheVars
  <2>2. Booted' /\ LeftOver'
    BY <1>1, <2>1 DEF Booted, LeftOver, Running
  <2>3. OnceListed'
    BY <1>1, <2>1 DEF OnceListed, Booted, TypeOK, OnPods
  <2>4. Reached'
    BY <1>1, <2>1 DEF Reached, Running, TypeOK
  <2>5. QED
    BY <2>2, <2>3, <2>4 DEF Cached
<1>6. QED
  BY <1>2, <1>3, <1>4, <1>5

\* A process that has ended has no cache.
LEMMA EndCached == ASSUME Cached, ListFails \/ Crash PROVE Cached'
<1>1. /\ pc' = "down" /\ DOMAIN listed' = {} /\ DOMAIN cache' = {} /\ changed' = {}
  BY NoneFacts DEF ListFails, Crash, End
<1>2. QED
  BY <1>1 DEF Cached, Booted, OnceListed, Reached, LeftOver

\* Threads and groups leave the cache alone.
LEMMA OthersCached ==
    ASSUME Cached,
           \/ Sync \/ \E p \in Pod : WriteFails(p)
           \/ \E t, u \in Pid : Fork(u, t)
           \/ \E p \in Pod, t \in Pid : FirstThread(p, t)
           \/ \E t \in Pid : Exit(t)
           \/ \E g \in Group : MakeGroup(g) \/ RemoveGroup(g)
           \/ UNCHANGED vars
    PROVE  Cached'
<1>1. UNCHANGED <<phase, label, changed, pc, listed, cache, late>>
  BY DEF Sync, StartSync, ReadPids, WritePid, WalkEnds, WriteFails, Fork, FirstThread, Exit,
         MakeGroup, RemoveGroup, vars, podVars, cacheVars
<1>2. QED
  BY <1>1, CachedKept

\* Nothing is cached at the start.
LEMMA InitCached == Init => Cached
BY NoneFacts DEF Init, Cached, Booted, OnceListed, Reached, LeftOver

\* A labelled pod that runs is in the list or in the cache, in both with its label.
THEOREM CacheInvariance == Spec => []Cached
<1>1. ASSUME Cached, TypeOK, [Next]_vars
      PROVE  Cached'
  BY <1>1, StartCached, PodCallsCached, EndCached, OthersCached
     DEF Next, Fails, Environment
<1>2. QED
  BY <1>1, InitCached, TasksTypeOK, PTL DEF Spec

\* Once Start has filled the cache every labelled pod that runs on the node is in
\* it, although the runtime's calls overtake the list (initPodCache).
THEOREM NoPodMissed == Spec => []NothingMissed
<1>1. Cached => NothingMissed
  <2> SUFFICES ASSUME Cached, pc = "run", NEW p \in Local \ changed, Running(p),
                      label[p] # None
               PROVE  p \in DOMAIN cache /\ cache[p] = label[p]
    BY DEF NothingMissed
  <2>1. DOMAIN listed = {}
    BY DEF Cached, Booted
  <2>2. QED
    BY <2>1 DEF Cached, Reached
<1>2. QED
  BY <1>1, CacheInvariance, PTL

\* Only initPodCache caches pods that do not run.
THEOREM OnlyLateLeftOver == Spec => []LeftOver
<1>1. Cached => LeftOver
  BY DEF Cached
<1>2. QED
  BY <1>1, CacheInvariance, PTL

-----------------------------------------------------------------------------
(* Threads                                                                 *)

\* A step after which every goroutine's ids are ids it had, and the pods and what
\* is known of them are the same
LEMMA KnownKept ==
    ASSUME Known, UNCHANGED <<phase, label, had, listed, cache>>,
           DOMAIN walk' \subseteq DOMAIN walk,
           \A p \in DOMAIN walk' : walk'[p].to = walk[p].to
    PROVE  Known'
BY DEF Known, Exists

\* The end of threads frees their ids.
LEMMA EndedMoved ==
    ASSUME TypeOK, Own, OwnGroup, NEW T \in SUBSET Pid, Ended(T), had' = had
    PROVE  Own' /\ OwnGroup'
<1>1. Own'
  <2> SUFFICES ASSUME NEW p \in DOMAIN walk, NEW t \in walk'[p].pids \ walk'[p].free
               PROVE  owner'[t] = p
    BY EndedFacts DEF Own
  <2>1. t \in walk[p].pids \ walk[p].free /\ t \in Pid \ T
    BY EndedFacts, WalkFacts DEF TypeOK
  <2>2. QED
    BY <2>1, EndedFacts DEF Own
<1>2. OwnGroup'
  BY EndedFacts DEF OwnGroup
<1>3. QED
  BY <1>1, <1>2

\* A goroutine moves an id that did not become free into a group of its own pod.
LEMMA WriteMoved ==
    ASSUME TypeOK, Moved, NEW p \in Pod, NEW t \in Pid, WritePid(p, t)
    PROVE  Moved'
<1>1. Known /\ Living /\ Own /\ OwnGroup
  BY DEF Moved
<1>2. /\ p \in DOMAIN walk /\ t \in walk[p].pids /\ OnPods(walk, Walk)
      /\ UNCHANGED <<phase, label, had, listed, cache, owner>>
      /\ grp' = IF owner[t] = None THEN grp ELSE [grp EXCEPT ![t] = walk[p].to]
      /\ strayed' = IF owner[t] \notin {p, None} /\ t \in walk[p].free
                      THEN strayed \cup {t} ELSE strayed \ {t}
  BY DEF WritePid, Writing, TypeOK, podVars, cacheVars
<1>3. /\ DOMAIN walk' = DOMAIN walk
      /\ walk'[p].to = walk[p].to
      /\ walk'[p].pids = walk[p].pids \ {t} /\ walk'[p].free = walk[p].free \ {t}
      /\ \A q \in DOMAIN walk \ {p} : walk'[q] = walk[q]
  <2>1. walk' = [walk EXCEPT ![p].pids = @ \ {t}, ![p].free = @ \ {t}]
    BY DEF WritePid
  <2>2. walk[p] \in Walk
    BY <1>2, WalkFacts
  <2>3. QED
    BY <1>2, <2>1, <2>2 DEF Walk
<1>4. Known'
  BY <1>1, <1>2, <1>3, KnownKept
<1>5. Living'
  BY <1>1, <1>2 DEF Living, Running
<1>6. Own'
  BY <1>1, <1>2, <1>3 DEF Own
<1>7. OwnGroup'
  <2> SUFFICES ASSUME NEW u \in Pid, owner[u] # None, u \notin strayed'
               PROVE  grp'[u] \in {Root} \cup had[owner[u]]
    BY <1>2 DEF OwnGroup
  <2>1. CASE u # t
    BY <1>1, <1>2, <2>1 DEF OwnGroup, TypeOK
  <2>2. CASE u = t
    <3>1. owner[t] = p
      BY <1>1, <1>2, <2>2 DEF Own
    <3>2. grp'[t] = walk[p].to
      BY <1>2, <2>2 DEF TypeOK
    <3>3. Exists(p)
      BY <1>1, <2>2, <3>1 DEF Living, Running, Exists
    <3>4. QED
      BY <1>1, <1>2, <2>2, <3>1, <3>2, <3>3 DEF Known
  <2>3. QED
    BY <2>1, <2>2
<1>8. QED
  BY <1>4, <1>5, <1>6, <1>7 DEF Moved

\* The other steps of a goroutine move no thread.
LEMMA SyncMoved ==
    ASSUME TypeOK, Moved, Sync \/ \E p \in Pod : WriteFails(p)
    PROVE  Moved'
<1>1. Known /\ Living /\ Own /\ OwnGroup /\ OnPods(walk, Walk)
  BY DEF Moved, TypeOK
<1>2. ASSUME UNCHANGED <<podVars, cacheVars, threadVars>>
      PROVE  Living' /\ OwnGroup'
  BY <1>1, <1>2 DEF podVars, threadVars, Living, Running, OwnGroup
<1>3. CASE StartSync
  <2>1. /\ DOMAIN walk' = DOMAIN cache
        /\ \A p \in DOMAIN walk' : walk'[p].to = cache[p] /\ walk'[p].pids = {}
    BY <1>3 DEF StartSync, ListPod
  <2>2. Known'
    BY <1>1, <1>3, <2>1 DEF StartSync, podVars, cacheVars, Known, Exists
  <2>3. Own'
    BY <2>1 DEF Own
  <2>4. QED
    BY <1>2, <1>3, <2>2, <2>3 DEF StartSync, Moved
<1>4. ASSUME NEW p \in Pod, ReadPids(p)
      PROVE  Moved'
  <2>1. /\ p \in DOMAIN walk /\ walk[p] \in Walk
        /\ walk' = [walk EXCEPT ![p].read = TRUE, ![p].pids = Threads(p)]
    BY <1>1, <1>4, WalkFacts DEF ReadPids, Reading
  <2>2. /\ DOMAIN walk' = DOMAIN walk
        /\ walk'[p].to = walk[p].to /\ walk'[p].pids = Threads(p)
        /\ \A q \in DOMAIN walk \ {p} : walk'[q] = walk[q]
    BY <2>1 DEF Walk
  <2>3. UNCHANGED <<phase, label, had, listed, cache, owner>>
    BY <1>4 DEF ReadPids, podVars, cacheVars, threadVars
  <2>4. Known'
    BY <1>1, <2>2, <2>3, KnownKept
  <2>5. Own'
    BY <1>1, <2>2, <2>3 DEF Own, Threads
  <2>6. QED
    BY <1>2, <1>4, <2>4, <2>5 DEF ReadPids, Moved
<1>5. ASSUME NEW p \in Pod, WalkEnds(p) \/ WriteFails(p)
      PROVE  Moved'
  <2>1. /\ walk' = Minus(walk, p)
        /\ UNCHANGED <<phase, label, had, listed, cache, owner>>
    BY <1>5 DEF WalkEnds, WriteFails, podVars, cacheVars, threadVars
  <2>2. DOMAIN walk' \subseteq DOMAIN walk /\ \A q \in DOMAIN walk' : walk'[q] = walk[q]
    BY <2>1 DEF Minus
  <2>3. Known'
    BY <1>1, <2>1, <2>2, KnownKept
  <2>4. Own'
    BY <1>1, <2>1, <2>2 DEF Own
  <2>5. QED
    BY <1>2, <1>5, <2>3, <2>4 DEF WalkEnds, WriteFails, Moved
<1>6. QED
  BY <1>3, <1>4, <1>5, WriteMoved DEF Sync

\* Start only copies labels, and the end of the process copies nothing.
LEMMA StartMoved ==
    ASSUME TypeOK, Moved, Start \/ ListFails \/ Crash
    PROVE  Moved'
<1>1. Known /\ Living /\ Own /\ OwnGroup
  BY DEF Moved
<1>2. UNCHANGED <<phase, label, had, owner, grp, strayed>>
  BY DEF Start, Connect, List, Store, Stored, ListFails, Crash, End, podVars, threadVars
<1>3. Living' /\ OwnGroup'
  BY <1>1, <1>2 DEF Living, Running, OwnGroup
<1>4. walk' = walk \/ DOMAIN walk' = {}
  BY NoneFacts DEF Start, Connect, List, Store, Stored, ListFails, Crash, End
<1>5. Own'
  BY <1>1, <1>2, <1>4 DEF Own
<1>6. Known'
  <2>1. CASE Connect \/ Stored
    BY <1>1, <2>1, KnownKept DEF Connect, Stored, podVars, cacheVars
  <2>2. CASE List
    <3>1. \A p \in DOMAIN listed' : p \in Pod /\ listed'[p] = label[p]
      BY <2>2 DEF List, Listed
    <3>2. cache' = cache /\ walk' = walk
      BY <2>2 DEF List
    <3>3. QED
      BY <1>1, <1>2, <3>1, <3>2 DEF Known, Exists
  <2>3. ASSUME NEW p \in Pod, Store(p)
        PROVE  Known'
    <3>1. /\ p \in DOMAIN listed /\ walk' = walk
          /\ cache' = Plus(cache, p, listed[p]) /\ listed' = Minus(listed, p)
      BY <2>3 DEF Store, UpdatePod
    <3>2. \A q \in DOMAIN listed' : q \in DOMAIN listed /\ listed'[q] = listed[q]
      BY <3>1 DEF Minus
    <3>3. \A q \in DOMAIN cache' : \/ q \in DOMAIN cache /\ cache'[q] = cache[q]
                                   \/ q \in DOMAIN listed /\ cache'[q] = listed[q]
      BY <3>1 DEF Plus
    <3>4. QED
      BY <1>1, <1>2, <3>1, <3>2, <3>3 DEF Known, Exists
  <2>4. CASE ListFails \/ Crash
    <3>1. DOMAIN listed' = {} /\ DOMAIN cache' = {} /\ DOMAIN walk' = {}
      BY <2>4, NoneFacts DEF ListFails, Crash, End
    <3>2. QED
      BY <1>1, <1>2, <3>1 DEF Known, Exists
  <2>5. QED
    BY <2>1, <2>2, <2>3, <2>4 DEF Start
<1>7. QED
  BY <1>3, <1>5, <1>6 DEF Moved

\* The runtime's calls cache labels, and a pod is deleted without threads.
LEMMA PodCallsMoved ==
    ASSUME TypeOK, Moved, NEW p \in Pod,
           \/ CreateObject(p) \/ DeleteObject(p) \/ RunPodSandbox(p) \/ StopPodSandbox(p)
           \/ \E l \in Group \cup {None} : Relabel(p, l)
    PROVE  Moved'
<1>1. Known /\ Living /\ Own /\ OwnGroup /\ OnPods(walk, Walk)
  BY DEF Moved, TypeOK
<1>2. CASE CreateObject(p)
  <2>1. /\ phase[p] = "new" /\ phase' = [phase EXCEPT ![p] = "idle"]
        /\ UNCHANGED <<label, had, listed, cache, walk, owner, grp, strayed>>
    BY <1>2 DEF CreateObject, cacheVars, threadVars
  <2>2. \A q \in Pod : /\ Exists(q)' <=> Exists(q)
                       /\ Running(q) => Running(q)'
    BY <2>1 DEF Exists, Running, TypeOK
  <2>3. Known'
    BY <1>1, <2>1, <2>2 DEF Known, TypeOK, OnPods
  <2>4. Living'
    BY <1>1, <2>1, <2>2 DEF Living, TypeOK
  <2>5. Own' /\ OwnGroup'
    BY <1>1, <2>1 DEF Own, OwnGroup
  <2>6. QED
    BY <2>3, <2>4, <2>5 DEF Moved
<1>3. CASE DeleteObject(p)
  <2>1. /\ phase[p] = "idle" /\ phase' = [phase EXCEPT ![p] = "gone"]
        /\ label' = [label EXCEPT ![p] = None] /\ had' = [had EXCEPT ![p] = {}]
        /\ UNCHANGED <<listed, cache, walk, owner, grp, strayed>>
    BY <1>3 DEF DeleteObject, cacheVars, threadVars
  <2>2. /\ ~Exists(p)'
        /\ \A q \in Pod \ {p} : /\ phase'[q] = phase[q] /\ had'[q] = had[q]
                                /\ label'[q] = label[q] /\ (Exists(q)' => Exists(q))
    BY <2>1 DEF Exists, TypeOK
  <2>3. Known'
    BY <1>1, <2>1, <2>2 DEF Known, TypeOK, OnPods
  <2>4. \A t \in Pid : owner[t] # None => owner[t] \in Pod \ {p}
    BY <1>1, <2>1 DEF Living, Running, TypeOK
  <2>5. Living' /\ OwnGroup'
    BY <1>1, <2>1, <2>2, <2>4 DEF Living, Running, OwnGroup
  <2>6. Own'
    BY <1>1, <2>1 DEF Own
  <2>7. QED
    BY <2>3, <2>5, <2>6 DEF Moved
<1>4. CASE RunPodSandbox(p)
  <2>1. /\ phase[p] = "idle" /\ phase' = [phase EXCEPT ![p] = "running"]
        /\ cache' \in {cache, Plus(cache, p, label[p])}
        /\ UNCHANGED <<label, had, listed, walk, owner, grp, strayed>>
    BY <1>4 DEF RunPodSandbox, UpdatePod, threadVars
  <2>2. \A q \in Pod : /\ Exists(q)' <=> Exists(q)
                       /\ Running(q) => Running(q)'
    BY <2>1 DEF Exists, Running, TypeOK
  <2>3. \A q \in DOMAIN cache' : \/ q \in DOMAIN cache /\ cache'[q] = cache[q]
                                 \/ q = p /\ cache'[q] = label[p]
    BY <2>1 DEF Plus
  <2>4. Known'
    BY <1>1, <2>1, <2>2, <2>3 DEF Known, TypeOK, OnPods
  <2>5. Living'
    BY <1>1, <2>1, <2>2 DEF Living, TypeOK
  <2>6. Own' /\ OwnGroup'
    BY <1>1, <2>1 DEF Own, OwnGroup
  <2>7. QED
    BY <2>4, <2>5, <2>6 DEF Moved
<1>5. CASE StopPodSandbox(p)
  <2>1. /\ phase[p] = "running" /\ phase' = [phase EXCEPT ![p] = "idle"]
        /\ cache' \in {cache, Minus(cache, p)}
        /\ Ended(Threads(p)) /\ Threads(p) \in SUBSET Pid
        /\ UNCHANGED <<label, had, listed>>
    BY <1>5 DEF StopPodSandbox, DelPod, Threads, Running
  <2>2. \A q \in Pod : /\ Exists(q)' <=> Exists(q)
                       /\ q # p /\ Running(q) => Running(q)'
    BY <2>1 DEF Exists, Running, TypeOK
  <2>3. \A q \in DOMAIN cache' : q \in DOMAIN cache /\ cache'[q] = cache[q]
    BY <2>1 DEF Minus
  <2>4. DOMAIN walk' = DOMAIN walk /\ \A q \in DOMAIN walk : walk'[q].to = walk[q].to
    BY <2>1, EndedFacts
  <2>5. Known'
    BY <1>1, <2>1, <2>2, <2>3, <2>4 DEF Known, TypeOK, OnPods
  <2>6. Own' /\ OwnGroup'
    BY <1>1, <2>1, EndedMoved
  <2>7. Living'
    <3> SUFFICES ASSUME NEW t \in Pid, owner'[t] # None PROVE Running(owner[t])'
      BY DEF Living
    <3>1. t \notin Threads(p) /\ owner'[t] = owner[t]
      BY <2>1, EndedFacts
    <3>2. owner[t] \in Pod /\ owner[t] # p /\ Running(owner[t])
      BY <1>1, <3>1 DEF Living, Threads, TypeOK
    <3>3. QED
      BY <2>2, <3>1, <3>2 DEF Running
  <2>8. QED
    BY <2>5, <2>6, <2>7 DEF Moved
<1>6. ASSUME NEW l \in Group \cup {None}, Relabel(p, l)
      PROVE  Moved'
  <2>1. /\ label' = [label EXCEPT ![p] = l] /\ had' = [had EXCEPT ![p] = @ \cup {l}]
        /\ UNCHANGED <<phase, listed, cache, walk, owner, grp, strayed>>
    BY <1>6 DEF Relabel, cacheVars, threadVars
  <2>2. \A q \in Pod : /\ had[q] \subseteq had'[q]
                       /\ label'[q] = label[q] \/ label'[q] \in had'[q]
    BY <2>1 DEF TypeOK
  <2>3. Known'
    BY <1>1, <2>1, <2>2 DEF Known, Exists, TypeOK, OnPods
  <2>4. Living' /\ Own'
    BY <1>1, <2>1 DEF Living, Running, Own
  <2>5. OwnGroup'
    BY <1>1, <2>1, <2>2 DEF OwnGroup, TypeOK
  <2>6. QED
    BY <2>3, <2>4, <2>5 DEF Moved
<1>7. QED
  BY <1>2, <1>3, <1>4, <1>5, <1>6

\* A new thread is in its pod's group, or has its parent's excuse; a removed group
\* leaves its threads to the root group.
LEMMA ThreadMoved ==
    ASSUME TypeOK, Moved,
           \/ \E t, u \in Pid : Fork(u, t)
           \/ \E p \in Pod, t \in Pid : FirstThread(p, t)
           \/ \E t \in Pid : Exit(t)
           \/ \E g \in Group : MakeGroup(g) \/ RemoveGroup(g)
    PROVE  Moved'
<1>1. Known /\ Living /\ Own /\ OwnGroup /\ OnPods(walk, Walk)
  BY DEF Moved, TypeOK
<1>2. UNCHANGED <<phase, label, had, listed, cache>>
  BY DEF Fork, FirstThread, Exit, MakeGroup, RemoveGroup, podVars, cacheVars
<1>3. ASSUME NEW t \in Pid, NEW q \in Pod, owner[t] = None,
             owner' = [owner EXCEPT ![t] = q], walk' = walk
      PROVE  Known' /\ Own' /\ (Running(q) => Living')
  <2>1. \A u \in Pid \ {t} : owner'[u] = owner[u]
    BY <1>3
  <2>2. Known'
    BY <1>1, <1>2, <1>3, KnownKept
  <2>3. Own'
    <3> SUFFICES ASSUME NEW p \in DOMAIN walk, NEW u \in walk[p].pids \ walk[p].free
                 PROVE  owner'[u] = p
      BY <1>3 DEF Own
    <3>1. owner[u] = p /\ p \in Pod /\ u \in Pid
      BY <1>1, WalkFacts DEF Own
    <3>2. u # t
      BY <1>3, <3>1, TasksAssumption
    <3>3. QED
      BY <2>1, <3>1, <3>2
  <2>4. Running(q) => Living'
    BY <1>1, <1>2, <1>3 DEF Living, Running, TypeOK
  <2>5. QED
    BY <2>2, <2>3, <2>4
<1>4. ASSUME NEW t \in Pid, NEW u \in Pid, Fork(u, t)
      PROVE  Moved'
  <2>1. /\ owner[u] # None /\ owner[t] = None /\ walk' = walk
        /\ owner' = [owner EXCEPT ![t] = owner[u]]
        /\ grp' = [grp EXCEPT ![t] = grp[u]]
        /\ strayed' = IF u \in strayed THEN strayed \cup {t} ELSE strayed \ {t}
    BY <1>4 DEF Fork
  <2>2. owner[u] \in Pod /\ Running(owner[u])
    BY <1>1, <2>1 DEF Living, TypeOK
  <2>3. Known' /\ Own' /\ Living'
    BY <1>3, <2>1, <2>2
  <2>4. OwnGroup'
    BY <1>1, <1>2, <2>1 DEF OwnGroup, TypeOK
  <2>5. QED
    BY <2>3, <2>4 DEF Moved
<1>5. ASSUME NEW p \in Pod, NEW t \in Pid, FirstThread(p, t)
      PROVE  Moved'
  <2>1. /\ Running(p) /\ owner[t] = None /\ walk' = walk
        /\ owner' = [owner EXCEPT ![t] = p]
        /\ grp' = [grp EXCEPT ![t] = Root]
        /\ strayed' = strayed \ {t}
    BY <1>5 DEF FirstThread
  <2>2. Known' /\ Own' /\ Living'
    BY <1>3, <2>1
  <2>3. OwnGroup'
    BY <1>1, <1>2, <2>1 DEF OwnGroup, TypeOK
  <2>4. QED
    BY <2>2, <2>3 DEF Moved
<1>6. ASSUME NEW t \in Pid, Exit(t)
      PROVE  Moved'
  <2>1. Ended({t}) /\ {t} \in SUBSET Pid
    BY <1>6 DEF Exit
  <2>2. DOMAIN walk' = DOMAIN walk /\ \A q \in DOMAIN walk : walk'[q].to = walk[q].to
    BY <2>1, EndedFacts
  <2>3. Known'
    BY <1>1, <1>2, <2>2, KnownKept
  <2>4. Own' /\ OwnGroup'
    BY <1>1, <1>2, <2>1, EndedMoved
  <2>5. \A u \in Pid : owner'[u] \in {None, owner[u]}
    BY <2>1, EndedFacts
  <2>6. Living'
    BY <1>1, <1>2, <2>5 DEF Living, Running
  <2>7. QED
    BY <2>3, <2>4, <2>6 DEF Moved
<1>7. ASSUME NEW g \in Group, MakeGroup(g) \/ RemoveGroup(g)
      PROVE  Moved'
  <2>1. UNCHANGED <<walk, owner, strayed>> /\ \A t \in Pid : grp'[t] \in {Root, grp[t]}
    BY <1>7 DEF MakeGroup, RemoveGroup
  <2>2. Known'
    BY <1>1, <1>2, <2>1, KnownKept
  <2>3. Living' /\ Own' /\ OwnGroup'
    BY <1>1, <1>2, <2>1 DEF Living, Running, Own, OwnGroup
  <2>4. QED
    BY <2>2, <2>3 DEF Moved
<1>8. QED
  BY <1>4, <1>5, <1>6, <1>7

\* Stuttering moves no thread.
LEMMA StutterMoved == ASSUME Moved, UNCHANGED vars PROVE Moved'
BY DEF vars, Moved, Known, Exists, Living, Running, Own, OwnGroup

\* There are no threads at the start.
LEMMA InitMoved == Init => Moved
BY NoneFacts DEF Init, Moved, Known, Exists, Living, Own, OwnGroup

\* The ids a goroutine has left are its pod's or have become free, and its group is
\* a label the pod has had.
THEOREM ThreadInvariance == Spec => []Moved
<1>1. ASSUME Moved, TypeOK, [Next]_vars
      PROVE  Moved'
  BY <1>1, StartMoved, SyncMoved, PodCallsMoved, ThreadMoved, StutterMoved
     DEF Next, Fails, Environment
<1>2. QED
  BY <1>1, InitMoved, TasksTypeOK, PTL DEF Spec

\* A thread is in the root group or in a group that its own pod was labelled with,
\* unless its id was another thread's when it was read (SyncResCtrlGroupTasks).
THEOREM ThreadsInOwnGroup == Spec => []OwnGroup
<1>1. Moved => OwnGroup
  BY DEF Moved
<1>2. QED
  BY <1>1, ThreadInvariance, PTL
=============================================================================
