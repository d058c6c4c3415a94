---------------------------- MODULE OenumaProof ----------------------------
(***************************************************************************)
(* TLAPS proofs about OenumaAgent, for every set of nodes and of pods,     *)
(* every policy, every channel size and every set of faults.               *)
(***************************************************************************)
EXTENDS OenumaProps, FiniteSetTheorems, TLAPS

-----------------------------------------------------------------------------
(* The data operators                                                      *)

\* Members of SpecMap are the partial functions from Node to Entry.
LEMMA SpecMapDef ==
    \A s : s \in SpecMap <=> \E S \in SUBSET Node : s \in [S -> Entry]
BY DEF SpecMap

\* Members of PodMap are the partial functions from Pod to Numa.
LEMMA PodMapDef ==
    \A m : m \in PodMap <=> \E S \in SUBSET Pod : m \in [S -> Numa]
BY DEF PodMap

\* The empty maps are in PodMap and SpecMap.
LEMMA EmptyMaps == NoPods \in PodMap /\ NoEntries \in SpecMap /\ DOMAIN NoPods = {} /\ DOMAIN NoEntries = {}
<1>1. NoPods \in [{} -> Numa]
  BY DEF NoPods
<1>2. NoEntries \in [{} -> Entry]
  BY DEF NoEntries
<1>3. QED
  BY <1>1, <1>2, PodMapDef, SpecMapDef DEF NoPods, NoEntries

\* Merge covers the pods of both maps and stays in PodMap (updateByNumafastAware).
LEMMA MergeFacts ==
    ASSUME NEW r \in PodMap, NEW m \in PodMap
    PROVE  Merge(r, m) \in PodMap /\ DOMAIN Merge(r, m) = DOMAIN r \cup DOMAIN m
<1>1. PICK R \in SUBSET Pod : r \in [R -> Numa]
  BY PodMapDef
<1>2. PICK M \in SUBSET Pod : m \in [M -> Numa]
  BY PodMapDef
<1>3. Merge(r, m) \in [R \cup M -> Numa]
  BY <1>1, <1>2 DEF Merge
<1>4. QED
  BY <1>1, <1>2, <1>3, PodMapDef

\* Without keeps every pod but those of D (deleteObsoletePodsInCr).
LEMMA WithoutFacts ==
    ASSUME NEW m \in PodMap, NEW D
    PROVE  Without(m, D) \in PodMap /\ DOMAIN Without(m, D) = DOMAIN m \ D
<1>1. PICK M \in SUBSET Pod : m \in [M -> Numa]
  BY PodMapDef
<1>2. Without(m, D) \in [M \ D -> Numa]
  BY <1>1 DEF Without
<1>3. QED
  BY <1>1, <1>2, PodMapDef

\* Put replaces n's entry and keeps all the others.
LEMMA PutFacts ==
    ASSUME NEW s \in SpecMap, NEW n \in Node, NEW e \in Entry
    PROVE  /\ Put(s, n, e) \in SpecMap
           /\ DOMAIN Put(s, n, e) = DOMAIN s \cup {n}
           /\ Put(s, n, e)[n] = e
           /\ \A k \in DOMAIN s \ {n} : Put(s, n, e)[k] = s[k]
<1>1. PICK S \in SUBSET Node : s \in [S -> Entry]
  BY SpecMapDef
<1>2. Put(s, n, e) \in [S \cup {n} -> Entry]
  BY <1>1 DEF Put
<1>3. QED
  BY <1>1, <1>2, SpecMapDef DEF Put

\* An entry is its NUMA count and its placements.
LEMMA EntryFacts ==
    /\ \A e \in Entry : e.numa \in 0 .. NumaCount /\ e.aff \in PodMap
    /\ \A k \in 0 .. NumaCount, m \in PodMap :
          MkEntry(k, m) \in Entry /\ MkEntry(k, m).aff = m /\ MkEntry(k, m).numa = k
    /\ NumaCount \in 0 .. NumaCount
BY DataAssumption DEF Entry, MkEntry

\* The value of a partial function at a point of its domain.
LEMMA SpecMapAt ==
    ASSUME NEW s \in SpecMap, NEW n \in DOMAIN s
    PROVE  n \in Node /\ s[n] \in Entry
BY SpecMapDef

\* PutAff changes the placements of n's entry and nothing else.
LEMMA PutAffFacts ==
    ASSUME NEW s \in SpecMap, NEW n \in DOMAIN s, NEW m \in PodMap
    PROVE  /\ PutAff(s, n, m) \in SpecMap
           /\ DOMAIN PutAff(s, n, m) = DOMAIN s
           /\ PutAff(s, n, m)[n].aff = m
           /\ \A k \in DOMAIN s \ {n} : PutAff(s, n, m)[k] = s[k]
<1>1. n \in Node /\ s[n].numa \in 0 .. NumaCount
  BY SpecMapAt, EntryFacts
<1> DEFINE e == MkEntry(s[n].numa, m)
<1>2. e \in Entry /\ e.aff = m
  BY <1>1, EntryFacts
<1>3. /\ Put(s, n, e) \in SpecMap
      /\ DOMAIN Put(s, n, e) = DOMAIN s \cup {n}
      /\ Put(s, n, e)[n] = e
      /\ \A k \in DOMAIN s \ {n} : Put(s, n, e)[k] = s[k]
  <2> HIDE DEF e
  <2> QED BY <1>1, <1>2, PutFacts
<1>4. PutAff(s, n, m) = Put(s, n, e)
  BY DEF PutAff
<1>5. QED
  BY <1>2, <1>3, <1>4

-----------------------------------------------------------------------------
(* Types                                                                   *)

\* Return leaves a well-typed idle handler.
LEMMA ReturnType ==
    ASSUME NEW a \in Node, TypeOK, Return(a)
    PROVE  /\ pc' \in [Node -> PC] /\ un' \in [Node -> SpecMap]
           /\ plan' \in [Node -> PodMap] /\ del' \in [Node -> SUBSET Pod]
BY EmptyMaps DEF TypeOK, Return, PC

\* A GET gives the handler a well-typed copy.
LEMMA ReadType ==
    ASSUME NEW a \in Node, TypeOK, Read(a)
    PROVE  un' \in [Node -> SpecMap] /\ fresh' \subseteq Node
BY DEF TypeOK, Read

\* An UPDATE stores the value it is given.
LEMMA CommitType ==
    ASSUME NEW a \in Node, NEW s \in SpecMap, TypeOK, Commit(a, s)
    PROVE  /\ crExists' \in BOOLEAN /\ spec' \in SpecMap
           /\ fresh' \subseteq Node /\ edits' \in 0 .. MaxEdits
BY DEF TypeOK, Commit

\* An ended process leaves a well-typed state.
LEMMA DieType ==
    ASSUME NEW a \in Node, TypeOK, Die(a)
    PROVE  TypeOK'
<1>1. Queued(a) \subseteq Pod
  BY DEF Queued, TypeOK
<1>2. lost' \in [Node -> SUBSET Pod]
  BY <1>1 DEF TypeOK, Die
<1>3. podEv' \in [Node -> Seq(SUBSET Pod)] /\ \A n \in Node : Len(podEv'[n]) <= ChanSize
  BY AgentAssumption DEF TypeOK, Die
<1>4. QED
  BY <1>2, <1>3, EmptyMaps DEF TypeOK, Die, PC

\* An event is appended only where there is room for it.
LEMMA DeliverType ==
    ASSUME NEW ev \in SUBSET Pod, NEW Miss \in SUBSET watching, TypeOK, Deliver(ev, Miss)
    PROVE  /\ podEv' \in [Node -> Seq(SUBSET Pod)]
           /\ \A n \in Node : Len(podEv'[n]) <= ChanSize
           /\ watching' \subseteq Node
<1>1. \A n \in Node : podEv'[n] \in Seq(SUBSET Pod) /\ Len(podEv'[n]) <= ChanSize
  <2> TAKE n \in Node
  <2>1. podEv[n] \in Seq(SUBSET Pod) /\ Len(podEv[n]) <= ChanSize
    BY DEF TypeOK
  <2>2. CASE n \in Hear(Miss)
    BY <2>1, <2>2, AgentAssumption DEF Deliver, Hear
  <2>3. CASE n \notin Hear(Miss)
    BY <2>1, <2>3 DEF Deliver
  <2>4. QED
    BY <2>2, <2>3
<1>2. podEv' \in [Node -> Seq(SUBSET Pod)]
  BY <1>1 DEF Deliver
<1>3. watching' \subseteq Node
  BY DEF Deliver, Hear, TypeOK
<1>4. QED
  BY <1>1, <1>2, <1>3

\* The channel of a new watch holds no more than its capacity.
LEMMA BootType ==
    ASSUME NEW a \in Node, TypeOK, Boot(a)
    PROVE  TypeOK' /\ \A i \in 1 .. Len(podEv'[a]) : podEv'[a][i] = {}
<1> DEFINE k == IF Cardinality(DOMAIN pods) <= ChanSize
                  THEN Cardinality(DOMAIN pods) ELSE ChanSize
           q == [i \in 1 .. k |-> {}]
<1>1. DOMAIN pods \subseteq Pod
  BY DEF TypeOK
<1>2. Cardinality(DOMAIN pods) \in Nat
  BY <1>1, AgentAssumption, FS_Subset, FS_CardinalityType
<1>3. k \in Nat /\ k <= ChanSize
  BY <1>2, AgentAssumption
<1>4. q \in Seq(SUBSET Pod) /\ Len(q) = k
  <2> HIDE DEF k
  <2>1. \A i \in 1 .. k : q[i] \in SUBSET Pod
    OBVIOUS
  <2>2. QED
    BY <1>3, <2>1
<1>5. podEv' = [podEv EXCEPT ![a] = q]
  BY DEF Boot
<1>6. podEv' \in [Node -> Seq(SUBSET Pod)] /\ \A n \in Node : Len(podEv'[n]) <= ChanSize
  <2> HIDE DEF q, k
  <2> QED BY <1>3, <1>4, <1>5 DEF TypeOK
<1>7. pc' \in [Node -> PC] /\ watching' \subseteq Node
  BY DEF Boot, TypeOK, PC
<1>8. \A i \in 1 .. Len(q) : q[i] = {}
  <2> HIDE DEF k
  <2> QED BY <1>4
<1>9. podEv'[a] = q
  <2> HIDE DEF q
  <2> QED BY <1>5 DEF TypeOK
<1>10. TypeOK'
  BY <1>6, <1>7 DEF Boot, TypeOK, crVars
<1>11. QED
  <2> HIDE DEF q
  <2> QED BY <1>8, <1>9, <1>10

\* A pod event leaves the channel.
LEMMA TakeType ==
    ASSUME NEW a \in Node, TypeOK, TakeEvent(a)
    PROVE  /\ podEv' \in [Node -> Seq(SUBSET Pod)]
           /\ \A n \in Node : Len(podEv'[n]) <= ChanSize
           /\ Head(podEv[a]) \in SUBSET Pod
<1>1. podEv[a] \in Seq(SUBSET Pod) /\ podEv[a] # <<>> /\ Len(podEv[a]) <= ChanSize
  BY DEF TypeOK, TakeEvent
<1>2. /\ Tail(podEv[a]) \in Seq(SUBSET Pod) /\ Len(Tail(podEv[a])) = Len(podEv[a]) - 1
      /\ Head(podEv[a]) \in SUBSET Pod /\ Len(podEv[a]) \in Nat
  BY <1>1
<1>3. QED
  BY <1>1, <1>2, AgentAssumption DEF TypeOK, TakeEvent

\* Every step of an agent keeps the types.
LEMMA AgentType ==
    ASSUME NEW a \in Node, TypeOK, IndInv, Agent(a)
    PROVE  TypeOK'
<1> USE DEF crVars, podVars, handlerVars
<1>1. CASE Boot(a)
  BY <1>1, BootType
<1>2. CASE SetupExists(a)
  BY <1>2, ReturnType DEF SetupExists, TypeOK
<1>3. CASE SetupCreate(a)
  BY <1>3, EmptyMaps DEF SetupCreate, TypeOK, PC
<1>4. CASE SetupRead(a)
  BY <1>4, ReadType DEF SetupRead, TypeOK, PC
<1>5. CASE SetupWrite(a)
  <2>1. MkEntry(NumaCount, NoPods) \in Entry
    BY EmptyMaps, EntryFacts
  <2>2. un[a] \in SpecMap
    BY DEF TypeOK
  <2>3. Put(un[a], a, MkEntry(NumaCount, NoPods)) \in SpecMap
    BY <2>1, <2>2, PutFacts
  <2>4. QED
    BY <1>5, <2>3, CommitType, ReturnType DEF SetupWrite, TypeOK
<1>6. CASE NetRead(a)
  BY <1>6, ReadType DEF NetRead, TypeOK, PC
<1>7. CASE NetAsk(a)
  BY <1>7 DEF NetAsk, TypeOK, PC, Responses
<1>8. CASE NetPanic(a)
  BY <1>8, DieType DEF NetPanic
<1>9. CASE NetWrite(a)
  <2>1. a \in DOMAIN un[a] /\ un[a] \in SpecMap /\ plan[a] \in PodMap
    BY <1>9 DEF NetWrite, IndInv, HandlerState, HandlerOK, TypeOK
  <2>2. Merge(plan[a], un[a][a].aff) \in PodMap
    BY <2>1, SpecMapAt, EntryFacts, MergeFacts
  <2>3. PutAff(un[a], a, Merge(plan[a], un[a][a].aff)) \in SpecMap
    BY <2>1, <2>2, PutAffFacts
  <2>4. QED
    BY <1>9, <2>3, CommitType, ReturnType DEF NetWrite, TypeOK
<1>10. CASE LbRead(a)
  BY <1>10, ReadType DEF LbRead, TypeOK, PC
<1>11. CASE LbPanic(a)
  BY <1>11, DieType DEF LbPanic
<1>12. CASE LbAsk(a)
  <2>1. PICK S \in SUBSET Pod : \E m \in [S -> Numa] : plan' = [plan EXCEPT ![a] = m]
    <3>1. PICK S \in {Live(a) \cap Whitelist} \cup (IF "api" \in Faults THEN {{}} ELSE {}) :
             \E m \in [S -> Numa] : plan' = [plan EXCEPT ![a] = m]
      BY <1>12 DEF LbAsk
    <3>2. S \in SUBSET Pod
      BY <3>1, DataAssumption
    <3>3. QED
      BY <3>1, <3>2
  <2>2. PICK m \in PodMap : plan' = [plan EXCEPT ![a] = m]
    BY <2>1, PodMapDef
  <2>3. QED
    BY <1>12, <2>2 DEF LbAsk, TypeOK, PC
<1>13. CASE LbWrite(a)
  <2>1. un[a] \in SpecMap /\ plan[a] \in PodMap /\ MkEntry(NumaCount, NoPods) \in Entry
    BY EmptyMaps, EntryFacts DEF TypeOK
  <2> DEFINE s == IF a \in DOMAIN un[a] THEN PutAff(un[a], a, plan[a])
                  ELSE Put(un[a], a, MkEntry(NumaCount, NoPods))
  <2>2. s \in SpecMap
    BY <2>1, PutFacts, PutAffFacts
  <2>3. Commit(a, s) /\ Return(a) /\ UNCHANGED <<wlExists, podVars>>
    BY <1>13 DEF LbWrite
  <2>4. QED
    <3> HIDE DEF s
    <3> QED BY <2>2, <2>3, CommitType, ReturnType DEF TypeOK
<1>14. CASE SkipEvent(a)
  BY <1>14, TakeType DEF SkipEvent, TakeEvent, TypeOK
<1>15. CASE DelRead(a)
  BY <1>15, TakeType, ReadType DEF DelRead, TakeEvent, TypeOK, PC
<1>16. CASE DelNoEntry(a)
  BY <1>16, TakeType DEF DelNoEntry, TakeEvent, TypeOK
<1>17. CASE DelNoObject(a)
  BY <1>17, TakeType DEF DelNoObject, TakeEvent, TypeOK
<1>18. CASE DelWrite(a)
  <2>1. a \in DOMAIN un[a] /\ un[a] \in SpecMap
    BY <1>18 DEF DelWrite, IndInv, HandlerState, HandlerOK, TypeOK
  <2>2. Without(un[a][a].aff, del[a]) \in PodMap
    BY <2>1, SpecMapAt, EntryFacts, WithoutFacts
  <2>3. PutAff(un[a], a, Without(un[a][a].aff, del[a])) \in SpecMap
    BY <2>1, <2>2, PutAffFacts
  <2>4. QED
    BY <1>18, <2>3, CommitType, ReturnType DEF DelWrite, TypeOK
<1>19. CASE Fail(a)
  BY <1>19, ReturnType DEF Fail, TypeOK
<1>20. QED
  BY <1>1, <1>2, <1>3, <1>4, <1>5, <1>6, <1>7, <1>8, <1>9, <1>10, <1>11, <1>12,
     <1>13, <1>14, <1>15, <1>16, <1>17, <1>18, <1>19
  DEF Agent, Setup, Tick, PodEvent

\* Every step of the environment keeps the types.
LEMMA EnvironmentType ==
    ASSUME TypeOK, Environment
    PROVE  TypeOK'
<1> USE DEF crVars, podVars, handlerVars
<1>1. ASSUME NEW p \in Pod, PodDelete(p) PROVE TypeOK'
  <2>1. PICK Miss \in SUBSET watching :
           /\ Deliver({p}, Miss)
           /\ lost' = [n \in Node |-> IF n \in Hear(Miss) THEN lost[n] \ {p}
                                                         ELSE lost[n] \cup {p}]
    BY <1>1 DEF PodDelete
  <2>2. pods' \in UNION {[S -> Node] : S \in SUBSET Pod}
    <3>1. PICK S \in SUBSET Pod : pods \in [S -> Node]
      BY DEF TypeOK
    <3>2. pods' \in [S \ {p} -> Node]
      BY <1>1, <3>1 DEF PodDelete
    <3>3. QED
      BY <3>2
  <2>3. lost' \in [Node -> SUBSET Pod]
    BY <2>1 DEF TypeOK
  <2>4. /\ podEv' \in [Node -> Seq(SUBSET Pod)]
        /\ \A n \in Node : Len(podEv'[n]) <= ChanSize
        /\ watching' \subseteq Node
    BY <2>1, DeliverType
  <2>5. QED
    BY <1>1, <2>2, <2>3, <2>4 DEF PodDelete, TypeOK
<1>2. ASSUME NEW p \in Pod, NEW n \in Node, PodCreate(p, n) PROVE TypeOK'
  <2>1. Deliver({}, {})
    BY <1>2 DEF PodCreate
  <2>2. pods' \in UNION {[S -> Node] : S \in SUBSET Pod}
    <3>1. PICK S \in SUBSET Pod : pods \in [S -> Node]
      BY DEF TypeOK
    <3>2. pods' \in [S \cup {p} -> Node]
      BY <1>2, <3>1 DEF PodCreate
    <3>3. QED
      BY <3>2
  <2>3. lost' \in [Node -> SUBSET Pod]
    BY <1>2 DEF PodCreate, TypeOK
  <2>4. /\ podEv' \in [Node -> Seq(SUBSET Pod)]
        /\ \A k \in Node : Len(podEv'[k]) <= ChanSize
        /\ watching' \subseteq Node
    BY <2>1, DeliverType
  <2>5. QED
    BY <1>2, <2>2, <2>3, <2>4 DEF PodCreate, TypeOK
<1>3. ASSUME NEW n \in Node, Crash(n) PROVE TypeOK'
  BY <1>3, DieType DEF Crash
<1>4. ASSUME NEW n \in Node, WatchBreak(n) PROVE TypeOK'
  BY <1>4 DEF WatchBreak, TypeOK
<1>5. ASSUME NEW n \in Node, NEW e \in Entry, UserApply(n, e) PROVE TypeOK'
  <2>1. Put(spec, n, e) \in SpecMap
    BY PutFacts DEF TypeOK
  <2>2. edits' \in 0 .. MaxEdits
    BY <1>5, AgentAssumption DEF UserApply, TypeOK
  <2>3. QED
    BY <1>5, <2>1, <2>2 DEF UserApply, TypeOK
<1>6. CASE UserWhitelist
  BY <1>6 DEF UserWhitelist, TypeOK
<1>7. QED
  BY <1>1, <1>2, <1>3, <1>4, <1>5, <1>6 DEF Environment

-----------------------------------------------------------------------------
(* The strengthening                                                       *)

\* The initial state satisfies the strengthening.
LEMMA InitIndInv == Init => IndInv
<1> SUFFICES ASSUME Init PROVE IndInv
  OBVIOUS
<1>2. pods \in UNION {[S -> Node] : S \in SUBSET Pod}
  <2>1. pods \in [{} -> Node]
    BY DEF Init, NoPods
  <2>2. QED
    BY <2>1
<1>3. TypeOK
  <2>1. podEv \in [Node -> Seq(SUBSET Pod)] /\ \A n \in Node : Len(podEv[n]) <= ChanSize
    BY AgentAssumption DEF Init
  <2>2. crExists \in BOOLEAN /\ wlExists \in BOOLEAN
    BY Zenon DEF Init
  <2>3. edits \in 0 .. MaxEdits
    BY AgentAssumption DEF Init
  <2>4. /\ spec \in SpecMap /\ fresh \subseteq Node /\ pc \in [Node -> PC]
        /\ un \in [Node -> SpecMap] /\ plan \in [Node -> PodMap]
        /\ del \in [Node -> SUBSET Pod] /\ watching \subseteq Node
        /\ lost \in [Node -> SUBSET Pod]
    BY EmptyMaps DEF Init, PC
  <2>5. QED
    BY <1>2, <2>1, <2>2, <2>3, <2>4 DEF TypeOK
<1>4. FreshCopy
  BY DEF Init, FreshCopy
<1>5. HandlerState
  BY EmptyMaps DEF Init, HandlerState, HandlerOK, EventsOK
<1>6. ObsoleteAccounted /\ CopiesAccounted /\ DownClean
  BY EmptyMaps DEF Init, ObsoleteAccounted, CopiesAccounted, DownClean, Placed
<1>7. NoObject
  BY DEF Init, NoObject
<1>8. QED
  BY <1>3, <1>4, <1>5, <1>6, <1>7 DEF IndInv

\* A handler that ends after its UPDATE, a changed object included, leaves only
\* current copies behind.
LEMMA CommitFresh ==
    ASSUME NEW a \in Node, NEW s, TypeOK, FreshCopy, Commit(a, s), Return(a)
    PROVE  FreshCopy'
BY DEF TypeOK, FreshCopy, Commit, Return

\* Every copy of the current version is the current value, after every step.
LEMMA FreshCopyStep ==
    ASSUME IndInv, Next
    PROVE  FreshCopy'
<1> USE DEF crVars, podVars, handlerVars, FreshCopy
<1> TypeOK /\ FreshCopy /\ \A k \in fresh : pc[k] \in {"setupWrite", "ask", "write", "del"}
  BY DEF IndInv, HandlerState, HandlerOK, TypeOK
<1>1. ASSUME NEW a \in Node, Setup(a) PROVE FreshCopy'
  <2>1. CASE Boot(a) \/ SetupExists(a) \/ SetupCreate(a)
    BY <2>1 DEF Boot, SetupExists, SetupCreate, Return, TypeOK
  <2>2. CASE SetupRead(a)
    BY <2>2 DEF SetupRead, Read, TypeOK
  <2>3. CASE SetupWrite(a)
    BY <2>3, CommitFresh DEF SetupWrite
  <2>4. QED
    BY <1>1, <2>1, <2>2, <2>3 DEF Setup
<1>2. ASSUME NEW a \in Node, Tick(a) PROVE FreshCopy'
  <2>1. CASE NetRead(a) \/ LbRead(a)
    BY <2>1 DEF NetRead, LbRead, Read, TypeOK
  <2>2. CASE NetAsk(a) \/ LbAsk(a)
    BY <2>2 DEF NetAsk, LbAsk
  <2>3. CASE NetPanic(a) \/ LbPanic(a)
    BY <2>3 DEF NetPanic, LbPanic, Die, TypeOK
  <2>4. CASE NetWrite(a)
    BY <2>4, CommitFresh DEF NetWrite
  <2>5. CASE LbWrite(a)
    BY <2>5, CommitFresh DEF LbWrite
  <2>6. QED
    BY <1>2, <2>1, <2>2, <2>3, <2>4, <2>5 DEF Tick
<1>3. ASSUME NEW a \in Node, PodEvent(a) PROVE FreshCopy'
  <2>1. CASE SkipEvent(a) \/ DelNoEntry(a) \/ DelNoObject(a)
    BY <2>1 DEF SkipEvent, DelNoEntry, DelNoObject, TakeEvent
  <2>2. CASE DelRead(a)
    BY <2>2 DEF DelRead, TakeEvent, Read, TypeOK
  <2>3. CASE DelWrite(a)
    BY <2>3, CommitFresh DEF DelWrite
  <2>4. QED
    BY <1>3, <2>1, <2>2, <2>3 DEF PodEvent
<1>4. ASSUME NEW a \in Node, Fail(a) PROVE FreshCopy'
  BY <1>4 DEF Fail, Return, TypeOK
<1>5. CASE Environment
  <2>1. ASSUME NEW p \in Pod, PodDelete(p) \/ \E n \in Node : PodCreate(p, n) PROVE FreshCopy'
    BY <2>1 DEF PodDelete, PodCreate
  <2>2. ASSUME NEW n \in Node, Crash(n) PROVE FreshCopy'
    BY <2>2 DEF Crash, Die, TypeOK
  <2>3. ASSUME NEW n \in Node, WatchBreak(n) PROVE FreshCopy'
    BY <2>3 DEF WatchBreak
  <2>4. ASSUME NEW n \in Node, NEW e \in Entry, UserApply(n, e) PROVE FreshCopy'
    BY <2>4 DEF UserApply
  <2>5. CASE UserWhitelist
    BY <2>5 DEF UserWhitelist
  <2>6. QED
    BY <1>5, <2>1, <2>2, <2>3, <2>4, <2>5 DEF Environment
<1>6. QED
  BY <1>1, <1>2, <1>3, <1>4, <1>5 DEF Next, Agent

\* Taking an event keeps the rest of the channel.
LEMMA EventsTail ==
    ASSUME NEW q \in Seq(SUBSET Pod), q # <<>>, EventsOK(q)
    PROVE  EventsOK(Tail(q)) /\ (Head(q) = {} \/ \E p \in Pod : Head(q) = {p})
<1>1. Len(Tail(q)) = Len(q) - 1 /\ Len(q) \in Nat /\ Len(q) >= 1 /\ Head(q) = q[1]
  OBVIOUS
<1>2. \A i \in 1 .. Len(Tail(q)) : Tail(q)[i] = q[i + 1] /\ i + 1 \in 1 .. Len(q)
  BY <1>1
<1>3. QED
  BY <1>1, <1>2 DEF EventsOK

\* Appending an event about one pod, or none, keeps the channel as it should be.
LEMMA EventsAppend ==
    ASSUME NEW q \in Seq(SUBSET Pod), NEW ev \in SUBSET Pod, EventsOK(q),
           ev = {} \/ \E p \in Pod : ev = {p}
    PROVE  EventsOK(Append(q, ev))
<1>1. Len(Append(q, ev)) = Len(q) + 1 /\ Len(q) \in Nat /\ Append(q, ev)[Len(q) + 1] = ev
  OBVIOUS
<1>2. \A i \in 1 .. Len(q) : Append(q, ev)[i] = q[i]
  OBVIOUS
<1>3. \A i \in 1 .. Len(q) + 1 : i \in 1 .. Len(q) \/ i = Len(q) + 1
  BY <1>1
<1>4. QED
  BY <1>1, <1>2, <1>3 DEF EventsOK

\* Delivering an event about one pod keeps every channel as it should be.
LEMMA EventsDeliver ==
    ASSUME NEW ev \in SUBSET Pod, NEW Miss, TypeOK, Deliver(ev, Miss),
           ev = {} \/ \E p \in Pod : ev = {p}, \A n \in Node : EventsOK(podEv[n])
    PROVE  \A n \in Node : EventsOK(podEv'[n])
<1> TAKE n \in Node
<1>1. podEv[n] \in Seq(SUBSET Pod) /\ EventsOK(podEv[n])
  BY DEF TypeOK
<1>2. EventsOK(Append(podEv[n], ev))
  BY <1>1, EventsAppend
<1>3. podEv'[n] = Append(podEv[n], ev) \/ podEv'[n] = podEv[n]
  BY DEF Deliver
<1>4. QED
  BY <1>1, <1>2, <1>3

\* What agent a does leaves the handlers of the others as they are.
LEMMA OthersOK ==
    ASSUME NEW a \in Node, NEW n \in Node \ {a}, HandlerOK(n),
           pc'[n] = pc[n], un'[n] = un[n], plan'[n] = plan[n], del'[n] = del[n],
           n \in fresh' => n \in fresh
    PROVE  HandlerOK(n)'
BY DEF HandlerOK

\* Return leaves an idle handler.
LEMMA ReturnOK ==
    ASSUME NEW a \in Node, TypeOK, Return(a), a \notin fresh'
    PROVE  HandlerOK(a)'
BY EmptyMaps DEF Return, TypeOK, HandlerOK

\* An agent's step keeps the state of its handler consistent.
LEMMA HandlerStep ==
    ASSUME NEW a \in Node, IndInv, Agent(a)
    PROVE  HandlerState'
<1> USE DEF crVars, podVars, handlerVars
<1> TypeOK /\ HandlerState
  BY DEF IndInv
<1>1. ASSUME NEW n \in Node \ {a} PROVE HandlerOK(n)'
  <2>1. /\ pc'[n] = pc[n] /\ un'[n] = un[n] /\ plan'[n] = plan[n] /\ del'[n] = del[n]
        /\ n \in fresh' => n \in fresh
    <3>1. CASE Setup(a)
      BY <3>1 DEF Setup, Boot, SetupExists, SetupCreate, SetupRead, SetupWrite,
                  Return, Read, Commit, TypeOK
    <3>2. CASE Tick(a)
      BY <3>2 DEF Tick, NetRead, NetAsk, NetPanic, NetWrite, LbRead, LbPanic, LbAsk,
                  LbWrite, Return, Read, Commit, Die, TypeOK
    <3>3. CASE PodEvent(a)
      BY <3>3 DEF PodEvent, SkipEvent, DelRead, DelNoEntry, DelNoObject, DelWrite,
                  TakeEvent, Return, Read, Commit, TypeOK
    <3>4. CASE Fail(a)
      BY <3>4 DEF Fail, Return, TypeOK
    <3>5. QED
      BY <3>1, <3>2, <3>3, <3>4 DEF Agent
  <2>2. QED
    BY <1>1, <2>1, OthersOK DEF HandlerState
<1>2. HandlerOK(a)'
  <2>0. HandlerOK(a)
    BY DEF HandlerState
  <2>1. CASE Boot(a)
    BY <2>0, <2>1 DEF Boot, HandlerOK, TypeOK
  <2>2. CASE SetupExists(a)
    BY <2>0, <2>2, ReturnOK DEF SetupExists, HandlerOK
  <2>3. CASE SetupCreate(a)
    BY <2>0, <2>3 DEF SetupCreate, HandlerOK, TypeOK
  <2>4. CASE SetupRead(a)
    BY <2>0, <2>4 DEF SetupRead, HandlerOK, TypeOK
  <2>5. CASE SetupWrite(a) \/ NetWrite(a) \/ LbWrite(a) \/ DelWrite(a)
    <3>1. a \notin fresh' /\ Return(a)
      BY <2>5 DEF SetupWrite, NetWrite, LbWrite, DelWrite, Commit
    <3>2. QED
      BY <3>1, ReturnOK
  <2>6. CASE NetRead(a) \/ LbRead(a)
    BY <2>0, <2>6 DEF NetRead, LbRead, Read, HandlerOK, TypeOK
  <2>7. CASE NetAsk(a)
    BY <2>0, <2>7 DEF NetAsk, HandlerOK, TypeOK
  <2>8. CASE NetPanic(a) \/ LbPanic(a)
    BY <2>8, EmptyMaps DEF NetPanic, LbPanic, Die, HandlerOK, TypeOK
  <2>9. CASE LbAsk(a)
    <3>1. PICK S \in {Live(a) \cap Whitelist} \cup (IF "api" \in Faults THEN {{}} ELSE {}) :
             \E m \in [S -> Numa] : plan' = [plan EXCEPT ![a] = m]
      BY <2>9 DEF LbAsk
    <3>2. DOMAIN plan'[a] \subseteq Whitelist
      BY <3>1 DEF TypeOK
    <3>3. QED
      BY <2>0, <2>9, <3>2 DEF LbAsk, HandlerOK, TypeOK
  <2>10. CASE SkipEvent(a) \/ DelNoEntry(a) \/ DelNoObject(a)
    BY <2>0, <2>10 DEF SkipEvent, DelNoEntry, DelNoObject, TakeEvent, HandlerOK
  <2>11. CASE DelRead(a)
    <3>1. Head(podEv[a]) # {} /\ podEv[a] \in Seq(SUBSET Pod) /\ EventsOK(podEv[a])
      BY <2>11 DEF DelRead, HandlerState, TypeOK
    <3>2. \E p \in Pod : Head(podEv[a]) = {p}
      BY <2>11, <3>1, EventsTail DEF DelRead, TakeEvent
    <3>3. QED
      BY <2>0, <2>11, <3>2 DEF DelRead, TakeEvent, Read, HandlerOK, TypeOK
  <2>12. CASE Fail(a)
    BY <2>12, ReturnOK DEF Fail
  <2>13. QED
    BY <2>1, <2>2, <2>3, <2>4, <2>5, <2>6, <2>7, <2>8, <2>9, <2>10, <2>11, <2>12
    DEF Agent, Setup, Tick, PodEvent
<1>3. \A n \in Node : EventsOK(podEv'[n])
  <2>0. \A n \in Node : EventsOK(podEv[n])
    BY DEF HandlerState
  <2>1. EventsOK(<<>>)
    BY DEF EventsOK
  <2>2. CASE UNCHANGED podEv
    BY <2>0, <2>2
  <2>3. CASE Boot(a)
    <3>1. EventsOK(podEv'[a])
      BY <2>3, BootType DEF EventsOK
    <3>2. \A n \in Node \ {a} : podEv'[n] = podEv[n]
      BY <2>3 DEF Boot, TypeOK
    <3>3. QED
      BY <2>0, <3>1, <3>2
  <2>4. CASE NetPanic(a) \/ LbPanic(a)
    BY <2>0, <2>1, <2>4 DEF NetPanic, LbPanic, Die, TypeOK
  <2>5. CASE TakeEvent(a)
    BY <2>0, <2>5, EventsTail DEF TakeEvent, TypeOK
  <2>6. QED
    BY <2>2, <2>3, <2>4, <2>5
    DEF Agent, Setup, Tick, PodEvent, SetupExists, SetupCreate, SetupRead, SetupWrite,
        NetRead, NetAsk, NetWrite, LbRead, LbAsk, LbWrite, SkipEvent, DelRead, DelNoEntry,
        DelNoObject, DelWrite, Fail
<1>4. QED
  BY <1>1, <1>2, <1>3 DEF HandlerState

\* The environment touches a handler only by ending its process.
LEMMA EnvironmentHandler ==
    ASSUME IndInv, Environment
    PROVE  HandlerState'
<1> USE DEF crVars, podVars, handlerVars
<1> TypeOK /\ HandlerState
  BY DEF IndInv
<1>1. ASSUME NEW p \in Pod, PodDelete(p) PROVE HandlerState'
  <2>1. PICK Miss \in SUBSET watching : Deliver({p}, Miss)
    BY <1>1 DEF PodDelete
  <2>2. \A n \in Node : EventsOK(podEv'[n])
    BY <2>1, EventsDeliver DEF HandlerState
  <2>3. \A n \in Node : HandlerOK(n)'
    BY <1>1 DEF PodDelete, HandlerState, HandlerOK
  <2>4. QED
    BY <2>2, <2>3 DEF HandlerState
<1>2. ASSUME NEW p \in Pod, NEW k \in Node, PodCreate(p, k) PROVE HandlerState'
  <2>1. \A n \in Node : EventsOK(podEv'[n])
    BY <1>2, EventsDeliver DEF PodCreate, HandlerState
  <2>2. \A n \in Node : HandlerOK(n)'
    BY <1>2 DEF PodCreate, HandlerState, HandlerOK
  <2>3. QED
    BY <2>1, <2>2 DEF HandlerState
<1>3. ASSUME NEW a \in Node, Crash(a) PROVE HandlerState'
  <2>1. Die(a)
    BY <1>3 DEF Crash
  <2>2. HandlerOK(a)'
    BY <2>1, EmptyMaps DEF Die, HandlerOK, TypeOK
  <2>3. \A n \in Node \ {a} : HandlerOK(n)'
    BY <2>1, OthersOK DEF Die, HandlerState, TypeOK
  <2>4. \A n \in Node : EventsOK(podEv'[n])
    <3>1. EventsOK(<<>>)
      BY DEF EventsOK
    <3>2. QED
      BY <2>1, <3>1 DEF Die, HandlerState, TypeOK
  <2>5. QED
    BY <2>2, <2>3, <2>4 DEF HandlerState
<1>4. ASSUME NEW a \in Node, WatchBreak(a) PROVE HandlerState'
  BY <1>4 DEF WatchBreak, HandlerState, HandlerOK
<1>5. ASSUME NEW n \in Node, NEW e \in Entry, UserApply(n, e) PROVE HandlerState'
  BY <1>5 DEF UserApply, HandlerState, HandlerOK
<1>6. CASE UserWhitelist
  BY <1>6 DEF UserWhitelist, HandlerState, HandlerOK
<1>7. QED
  BY <1>1, <1>2, <1>3, <1>4, <1>5, <1>6 DEF Environment

-----------------------------------------------------------------------------
(* No placement outlives its pod unaccounted for                           *)

\* Events that stay in the channel stay queued; a taken one is its head.
LEMMA QueuedTail ==
    ASSUME NEW a \in Node, TypeOK, TakeEvent(a)
    PROVE  /\ Queued(a) \subseteq Queued(a)' \cup Head(podEv[a])
           /\ \A n \in Node \ {a} : Queued(n)' = Queued(n)
<1>1. podEv[a] \in Seq(SUBSET Pod) /\ podEv[a] # <<>> /\ podEv'[a] = Tail(podEv[a])
  BY DEF TypeOK, TakeEvent
<1> DEFINE q == podEv[a]
<1>2. Len(Tail(q)) = Len(q) - 1 /\ Len(q) \in Nat /\ Head(q) = q[1]
  BY <1>1
<1>3. ASSUME NEW i \in 1 .. Len(q), i # 1 PROVE i - 1 \in 1 .. Len(Tail(q)) /\ Tail(q)[i - 1] = q[i]
  BY <1>1, <1>2, <1>3
<1>4. Queued(a) \subseteq Queued(a)' \cup Head(podEv[a])
  <2> SUFFICES ASSUME NEW i \in 1 .. Len(q), NEW p \in q[i]
               PROVE  p \in Queued(a)' \cup Head(q)
    BY DEF Queued
  <2>1. CASE i = 1
    BY <1>2, <2>1
  <2>2. CASE i # 1
    <3>1. i - 1 \in 1 .. Len(podEv'[a]) /\ podEv'[a][i - 1] = q[i]
      BY <1>1, <1>3, <2>2
    <3>2. QED
      BY <3>1 DEF Queued
  <2>3. QED
    BY <2>1, <2>2
<1>5. \A n \in Node \ {a} : Queued(n)' = Queued(n)
  BY DEF TakeEvent, Queued, TypeOK
<1>6. QED
  BY <1>4, <1>5

\* Delivering an event queues it where it is heard and drops nothing.
LEMMA QueuedDeliver ==
    ASSUME NEW ev \in SUBSET Pod, NEW Miss, NEW n \in Node, TypeOK, Deliver(ev, Miss)
    PROVE  /\ Queued(n) \subseteq Queued(n)'
           /\ n \in Hear(Miss) => ev \subseteq Queued(n)'
<1>1. podEv[n] \in Seq(SUBSET Pod)
  BY DEF TypeOK
<1>2. CASE n \in Hear(Miss)
  <2>1. podEv'[n] = Append(podEv[n], ev)
    BY <1>2 DEF Deliver
  <2>2. /\ Len(podEv'[n]) = Len(podEv[n]) + 1 /\ Len(podEv[n]) \in Nat
        /\ podEv'[n][Len(podEv[n]) + 1] = ev
        /\ \A i \in 1 .. Len(podEv[n]) : podEv'[n][i] = podEv[n][i]
    BY <1>1, <2>1
  <2>3. QED
    BY <2>2 DEF Queued
<1>3. CASE n \notin Hear(Miss)
  BY <1>3 DEF Deliver, Queued
<1>4. QED
  BY <1>2, <1>3

\* An agent's step leaves a pod accounted for, but for the one it removes and
\* for one whose event finds no entry.
LEMMA AgentKeeps ==
    ASSUME NEW a \in Node, IndInv, Agent(a), NEW n \in Node, NEW p \in Pod, Accounted(n, p)
    PROVE  \/ Accounted(n, p)'
           \/ n = a /\ DelWrite(a) /\ p \in del[a]
           \/ n = a /\ DelNoEntry(a)
<1> USE DEF crVars, podVars, handlerVars
<1> TypeOK /\ HandlerState
  BY DEF IndInv
<1>0. p \in Live(n) \cup Queued(n) \cup del[n] \cup lost[n]
  BY DEF Accounted
<1>1. pods' = pods /\ Live(n)' = Live(n)
  BY DEF Live, Agent, Setup, Tick, PodEvent, Boot, SetupExists, SetupCreate, SetupRead,
     SetupWrite, NetRead, NetAsk, NetPanic, NetWrite, LbRead, LbPanic, LbAsk, LbWrite,
     SkipEvent, DelRead, DelNoEntry, DelNoObject, DelWrite, TakeEvent, Fail, Die
<1>2. CASE Boot(a)
  <2>1. podEv[a] = <<>> /\ Queued(a) = {}
    BY <1>2 DEF Boot, IndInv, DownClean, Queued
  <2>2. n # a => Queued(n)' = Queued(n)
    BY <1>2 DEF Boot, Queued, TypeOK
  <2>3. del' = del /\ lost' = lost
    BY <1>2 DEF Boot
  <2>4. QED
    BY <1>0, <1>1, <2>1, <2>2, <2>3 DEF Accounted
<1>3. CASE UNCHANGED <<podEv, del, lost>>
  BY <1>0, <1>1, <1>3 DEF Accounted, Queued
<1>4. CASE UNCHANGED <<podEv, lost>> /\ pc[a] # "del" /\ Return(a)
  BY <1>0, <1>1, <1>4 DEF Accounted, Queued, Return, HandlerState, HandlerOK, TypeOK
<1>5. CASE NetPanic(a) \/ LbPanic(a)
  <2>1. Die(a)
    BY <1>5 DEF NetPanic, LbPanic
  <2>2. n # a => Queued(n)' = Queued(n)
    BY <2>1 DEF Die, Queued, TypeOK
  <2>3. n # a => del'[n] = del[n] /\ lost'[n] = lost[n]
    BY <2>1 DEF Die, TypeOK
  <2>4. lost'[a] = lost[a] \cup del[a] \cup Queued(a)
    BY <2>1 DEF Die, TypeOK
  <2>5. QED
    BY <1>0, <1>1, <2>2, <2>3, <2>4 DEF Accounted
<1>6. CASE SkipEvent(a) \/ DelRead(a) \/ DelNoEntry(a) \/ DelNoObject(a)
  <2>1. TakeEvent(a)
    BY <1>6 DEF SkipEvent, DelRead, DelNoEntry, DelNoObject
  <2>2. Queued(n) \subseteq Queued(n)' \cup (IF n = a THEN Head(podEv[a]) ELSE {})
    BY <2>1, QueuedTail
  <2>3. n # a => del'[n] = del[n] /\ lost'[n] = lost[n]
    BY <1>6 DEF SkipEvent, DelRead, DelNoEntry, DelNoObject, TypeOK
  <2>4. lost[n] \subseteq lost'[n] /\ del[n] \subseteq del'[n]
    <3>1. pc[a] = "ready" => del[a] = {}
      BY DEF HandlerState, HandlerOK
    <3>2. QED
      BY <1>6, <2>1, <2>3, <3>1 DEF SkipEvent, DelRead, DelNoEntry, DelNoObject, TakeEvent, TypeOK
  <2>5. DelNoEntry(a) \/ Head(podEv[a]) \subseteq del'[a] \cup lost'[a]
    BY <1>6 DEF SkipEvent, DelRead, DelNoEntry, DelNoObject, TypeOK
  <2>6. QED
    BY <1>0, <1>1, <2>2, <2>4, <2>5 DEF Accounted
<1>7. CASE DelWrite(a)
  <2>1. podEv' = podEv /\ Queued(n)' = Queued(n)
    BY <1>7 DEF DelWrite, Queued
  <2>2. n # a => del'[n] = del[n] /\ lost'[n] = lost[n]
    BY <1>7 DEF DelWrite, Return, TypeOK
  <2>3. lost'[a] = lost[a] \ del[a]
    BY <1>7 DEF DelWrite, TypeOK
  <2>4. QED
    BY <1>0, <1>1, <1>7, <2>1, <2>2, <2>3 DEF Accounted
<1>8. CASE Fail(a)
  <2>1. podEv' = podEv /\ Queued(n)' = Queued(n)
    BY <1>8 DEF Fail, Queued
  <2>2. n # a => del'[n] = del[n] /\ lost'[n] = lost[n]
    BY <1>8 DEF Fail, Return, TypeOK
  <2>3. lost'[a] = lost[a] \cup del[a]
    BY <1>8 DEF Fail, TypeOK
  <2>4. QED
    BY <1>0, <1>1, <2>1, <2>2, <2>3 DEF Accounted
<1>9. QED
  BY <1>2, <1>3, <1>4, <1>5, <1>6, <1>7, <1>8
  DEF Agent, Setup, Tick, PodEvent, SetupExists, SetupCreate, SetupRead, SetupWrite,
      NetRead, NetAsk, NetWrite, LbRead, LbAsk, LbWrite

\* The environment's steps leave every pod accounted for.
LEMMA EnvironmentKeeps ==
    ASSUME IndInv, Environment, NEW n \in Node, NEW p \in Pod, Accounted(n, p)
    PROVE  Accounted(n, p)'
<1> USE DEF crVars, podVars, handlerVars
<1> TypeOK
  BY DEF IndInv
<1>0. p \in Live(n) \cup Queued(n) \cup del[n] \cup lost[n]
  BY DEF Accounted
<1>1. ASSUME NEW q \in Pod, PodDelete(q) PROVE Accounted(n, p)'
  <2>1. PICK Miss \in SUBSET watching :
           /\ Deliver({q}, Miss)
           /\ lost' = [k \in Node |-> IF k \in Hear(Miss) THEN lost[k] \ {q}
                                                         ELSE lost[k] \cup {q}]
    BY <1>1 DEF PodDelete
  <2>2. Queued(n) \subseteq Queued(n)' /\ (n \in Hear(Miss) => q \in Queued(n)')
    BY <2>1, QueuedDeliver
  <2>3. Live(n) \subseteq Live(n)' \cup {q}
    BY <1>1 DEF PodDelete, Live
  <2>4. q \in Queued(n)' \cup lost'[n] /\ lost[n] \subseteq lost'[n] \cup {q}
    BY <2>1, <2>2
  <2>5. del' = del
    BY <1>1 DEF PodDelete
  <2>6. QED
    BY <1>0, <2>2, <2>3, <2>4, <2>5 DEF Accounted
<1>2. ASSUME NEW q \in Pod, NEW k \in Node, PodCreate(q, k) PROVE Accounted(n, p)'
  <2>1. Deliver({}, {})
    BY <1>2 DEF PodCreate
  <2>2. Queued(n) \subseteq Queued(n)'
    BY <2>1, QueuedDeliver
  <2>3. Live(n) \subseteq Live(n)' /\ (n = k => q \in Live(n)')
    BY <1>2 DEF PodCreate, Live
  <2>4. lost[n] \subseteq lost'[n] \cup (IF n = k THEN {q} ELSE {}) /\ del' = del
    BY <1>2 DEF PodCreate, TypeOK
  <2>5. QED
    BY <1>0, <2>2, <2>3, <2>4 DEF Accounted
<1>3. ASSUME NEW a \in Node, Crash(a) PROVE Accounted(n, p)'
  <2>1. Die(a)
    BY <1>3 DEF Crash
  <2>2. n # a => Queued(n)' = Queued(n)
    BY <2>1 DEF Die, Queued, TypeOK
  <2>3. n # a => del'[n] = del[n] /\ lost'[n] = lost[n]
    BY <2>1 DEF Die, TypeOK
  <2>4. lost'[a] = lost[a] \cup del[a] \cup Queued(a)
    BY <2>1 DEF Die, TypeOK
  <2>5. Live(n)' = Live(n)
    BY <2>1 DEF Die, Live
  <2>6. QED
    BY <1>0, <2>2, <2>3, <2>4, <2>5 DEF Accounted
<1>4. CASE UNCHANGED <<pods, podEv, del, lost>>
  BY <1>0, <1>4 DEF Accounted, Queued, Live
<1>5. QED
  BY <1>1, <1>2, <1>3, <1>4 DEF Environment, WatchBreak, UserApply, UserWhitelist

\* The pods of an entry are pods.
LEMMA PlacedPods ==
    ASSUME NEW s \in SpecMap, NEW n
    PROVE  Placed(s, n) \subseteq Pod
BY SpecMapAt, EntryFacts, PodMapDef DEF Placed

\* No entry, no pod.
LEMMA PlacedNone == \A n : Placed(NoEntries, n) = {}
BY EmptyMaps DEF Placed

\* Putting an entry changes what is placed on that node only.
LEMMA PlacedPut ==
    ASSUME NEW s \in SpecMap, NEW n \in Node, NEW e \in Entry
    PROVE  /\ Placed(Put(s, n, e), n) = DOMAIN e.aff
           /\ \A k \in Node \ {n} : Placed(Put(s, n, e), k) = Placed(s, k)
<1>1. /\ DOMAIN Put(s, n, e) = DOMAIN s \cup {n}
      /\ Put(s, n, e)[n] = e
      /\ \A k \in DOMAIN s \ {n} : Put(s, n, e)[k] = s[k]
  BY PutFacts
<1>2. QED
  BY <1>1 DEF Placed

\* Replacing the placements of an entry changes that node's only.
LEMMA PlacedPutAff ==
    ASSUME NEW s \in SpecMap, NEW n \in DOMAIN s, NEW m \in PodMap
    PROVE  /\ Placed(PutAff(s, n, m), n) = DOMAIN m
           /\ \A k \in Node \ {n} : Placed(PutAff(s, n, m), k) = Placed(s, k)
BY PutAffFacts DEF Placed

\* A running process stays clean, and an ended one has nothing.
LEMMA DownCleanStep ==
    ASSUME IndInv, Next
    PROVE  DownClean'
<1> USE DEF crVars, podVars, handlerVars
<1> TypeOK /\ DownClean
  BY DEF IndInv
<1>1. ASSUME NEW a \in Node, Setup(a) PROVE DownClean'
  BY <1>1 DEF Setup, Boot, SetupExists, SetupCreate, SetupRead, SetupWrite, Return,
              DownClean, TypeOK
<1>2. ASSUME NEW a \in Node, Tick(a) PROVE DownClean'
  BY <1>2 DEF Tick, NetRead, NetAsk, NetPanic, NetWrite, LbRead, LbPanic, LbAsk,
              LbWrite, Return, Die, DownClean, TypeOK
<1>3. ASSUME NEW a \in Node, PodEvent(a) PROVE DownClean'
  BY <1>3 DEF PodEvent, SkipEvent, DelRead, DelNoEntry, DelNoObject, DelWrite,
              TakeEvent, Return, DownClean, TypeOK
<1>4. ASSUME NEW a \in Node, Fail(a) PROVE DownClean'
  BY <1>4 DEF Fail, InHandler, Return, DownClean, TypeOK
<1>5. ASSUME NEW ev, NEW Miss, Deliver(ev, Miss), pc' = pc PROVE DownClean'
  BY <1>5 DEF Deliver, Hear, DownClean
<1>6. CASE Environment
  <2>1. ASSUME NEW a \in Node, Crash(a) \/ WatchBreak(a) PROVE DownClean'
    BY <2>1 DEF Crash, WatchBreak, Die, DownClean, TypeOK
  <2>2. CASE UNCHANGED <<pc, podEv, watching>>
    BY <2>2 DEF DownClean
  <2>3. QED
    BY <1>5, <1>6, <2>1, <2>2 DEF Environment, PodDelete, PodCreate, UserApply, UserWhitelist
<1>7. QED
  BY <1>1, <1>2, <1>3, <1>4, <1>6 DEF Next, Agent

\* An update changes the placements of the agent's own entry only, and leaves
\* there pods that were placed or that the handler has accounted for.
LEMMA AgentSpec ==
    ASSUME NEW a \in Node, IndInv, Agent(a)
    PROVE  /\ \A n \in Node \ {a} : Placed(spec', n) = Placed(spec, n)
           /\ \/ spec' = spec /\ ~DelWrite(a)
              \/ Placed(spec', a) = {}
              \/ /\ NetWrite(a) \/ LbWrite(a)
                 /\ Placed(spec', a) \subseteq DOMAIN plan[a] \cup Placed(un[a], a)
              \/ DelWrite(a) /\ Placed(spec', a) = Placed(un[a], a) \ del[a]
<1> USE DEF crVars, podVars, handlerVars
<1> TypeOK /\ FreshCopy /\ HandlerOK(a)
  BY DEF IndInv, HandlerState
<1>0. un[a] \in SpecMap /\ plan[a] \in PodMap
  BY DEF TypeOK
<1> DEFINE new == MkEntry(NumaCount, NoPods)
<1>1. new \in Entry /\ new.aff = NoPods
  BY EmptyMaps, EntryFacts
<1>2. ASSUME spec' = Put(un[a], a, new), un[a] = spec
      PROVE  /\ \A n \in Node \ {a} : Placed(spec', n) = Placed(spec, n)
             /\ Placed(spec', a) = {}
  <2> HIDE DEF new
  <2>1. new \in Entry
    BY <1>1
  <2>2. /\ Placed(Put(un[a], a, new), a) = DOMAIN new.aff
        /\ \A k \in Node \ {a} : Placed(Put(un[a], a, new), k) = Placed(un[a], k)
    BY <1>0, <2>1, PlacedPut
  <2>3. DOMAIN new.aff = {}
    BY <1>1, EmptyMaps
  <2>4. QED
    BY <1>2, <2>2, <2>3
<1>3. ASSUME NEW m \in PodMap, a \in DOMAIN un[a], spec' = PutAff(un[a], a, m), un[a] = spec
      PROVE  /\ \A n \in Node \ {a} : Placed(spec', n) = Placed(spec, n)
             /\ Placed(spec', a) = DOMAIN m
  <2>1. /\ Placed(PutAff(un[a], a, m), a) = DOMAIN m
        /\ \A k \in Node \ {a} : Placed(PutAff(un[a], a, m), k) = Placed(un[a], k)
    BY <1>0, <1>3, PlacedPutAff
  <2>2. QED
    BY <1>3, <2>1
<1>4. a \in DOMAIN un[a] => /\ un[a][a].aff \in PodMap
                            /\ DOMAIN un[a][a].aff = Placed(un[a], a)
  BY <1>0, SpecMapAt, EntryFacts DEF Placed
<1>5. CASE spec' = spec /\ ~DelWrite(a)
  BY <1>5
<1>6. CASE SetupCreate(a)
  <2>1. spec' = NoEntries /\ ~crExists
    BY <1>6 DEF SetupCreate
  <2>2. \A n \in Node : Placed(spec, n) = {}
    BY <2>1, PlacedNone DEF IndInv, NoObject
  <2>3. QED
    BY <2>1, <2>2, PlacedNone
<1>7. CASE SetupWrite(a)
  <2>1. un[a] = spec /\ spec' = Put(un[a], a, new)
    BY <1>7 DEF SetupWrite, Commit, FreshCopy
  <2>2. QED
    BY <1>2, <2>1
<1>8. CASE NetWrite(a)
  <2>1. un[a] = spec /\ a \in DOMAIN un[a]
    BY <1>8 DEF NetWrite, Commit, FreshCopy, HandlerOK
  <2> DEFINE m == Merge(plan[a], un[a][a].aff)
  <2>2. m \in PodMap /\ DOMAIN m = DOMAIN plan[a] \cup Placed(un[a], a)
    BY <1>0, <1>4, <2>1, MergeFacts
  <2>3. spec' = PutAff(un[a], a, m)
    BY <1>8 DEF NetWrite, Commit
  <2>4. QED
    <3> HIDE DEF m
    <3> QED BY <1>3, <1>8, <2>1, <2>2, <2>3
<1>9. CASE LbWrite(a)
  <2>1. un[a] = spec
    BY <1>9 DEF LbWrite, Commit, FreshCopy
  <2>2. CASE a \in DOMAIN un[a]
    <3>1. spec' = PutAff(un[a], a, plan[a])
      BY <1>9, <2>2 DEF LbWrite, Commit
    <3>2. QED
      BY <1>0, <1>3, <1>9, <2>1, <2>2, <3>1
  <2>3. CASE a \notin DOMAIN un[a]
    <3>1. spec' = Put(un[a], a, new)
      BY <1>9, <2>3 DEF LbWrite, Commit
    <3>2. QED
      BY <1>2, <2>1, <3>1
  <2>4. QED
    BY <2>2, <2>3
<1>10. CASE DelWrite(a)
  <2>1. un[a] = spec /\ a \in DOMAIN un[a]
    BY <1>10 DEF DelWrite, Commit, FreshCopy, HandlerOK
  <2> DEFINE m == Without(un[a][a].aff, del[a])
  <2>2. m \in PodMap /\ DOMAIN m = Placed(un[a], a) \ del[a]
    BY <1>4, <2>1, WithoutFacts
  <2>3. spec' = PutAff(un[a], a, m)
    BY <1>10 DEF DelWrite, Commit
  <2>4. QED
    <3> HIDE DEF m
    <3> QED BY <1>3, <1>10, <2>1, <2>2, <2>3
<1>11. Setup(a) => SetupCreate(a) \/ SetupWrite(a) \/ (spec' = spec /\ ~DelWrite(a))
  BY DEF Setup, Boot, SetupExists, SetupRead, DelWrite
<1>12. Tick(a) => NetWrite(a) \/ LbWrite(a) \/ (spec' = spec /\ ~DelWrite(a))
  BY DEF Tick, NetRead, NetAsk, NetPanic, LbRead, LbPanic, LbAsk, Die, DelWrite
<1>13. PodEvent(a) \/ Fail(a) => DelWrite(a) \/ spec' = spec
  BY DEF PodEvent, Fail, SkipEvent, DelRead, DelNoEntry, DelNoObject, TakeEvent
<1>14. QED
  BY <1>5, <1>6, <1>7, <1>8, <1>9, <1>10, <1>11, <1>12, <1>13 DEF Agent

\* What the handlers hold after an agent's step comes from what they held, from
\* the object, or from the pods of the node.
LEMMA AgentCopies ==
    ASSUME NEW a \in Node, IndInv, Agent(a)
    PROVE  /\ \A n \in Node \ {a} : un'[n] = un[n] /\ plan'[n] = plan[n]
           /\ \/ un'[a] = NoEntries
              \/ un'[a] = un[a] /\ ~DelWrite(a)
              \/ un'[a] = spec /\ ~DelWrite(a)
           /\ \/ plan'[a] = NoPods
              \/ plan'[a] = plan[a] /\ ~DelWrite(a)
              \/ DOMAIN plan'[a] \subseteq Live(a) /\ Live(a)' = Live(a)
<1> USE DEF crVars, podVars, handlerVars
<1> TypeOK
  BY DEF IndInv
<1>1. CASE Setup(a)
  BY <1>1 DEF Setup, Boot, SetupExists, SetupCreate, SetupRead, SetupWrite, Read, Return,
              DelWrite, TypeOK
<1>2. CASE NetAsk(a)
  <2>1. PICK r \in Responses(Live(a)) : plan' = [plan EXCEPT ![a] = r]
    BY <1>2 DEF NetAsk
  <2>2. DOMAIN plan'[a] \subseteq Live(a)
    BY <2>1 DEF Responses, TypeOK
  <2>3. QED
    BY <1>2, <2>1, <2>2 DEF NetAsk, DelWrite, Live, TypeOK
<1>3. CASE LbAsk(a)
  <2>1. PICK S \in {Live(a) \cap Whitelist} \cup (IF "api" \in Faults THEN {{}} ELSE {}) :
           \E m \in [S -> Numa] : plan' = [plan EXCEPT ![a] = m]
    BY <1>3 DEF LbAsk
  <2>2. DOMAIN plan'[a] \subseteq Live(a)
    BY <2>1 DEF TypeOK
  <2>3. QED
    BY <1>3, <2>1, <2>2 DEF LbAsk, DelWrite, Live, TypeOK
<1>4. CASE Tick(a) /\ ~NetAsk(a) /\ ~LbAsk(a)
  BY <1>4 DEF Tick, NetRead, NetPanic, NetWrite, LbRead, LbPanic, LbWrite, Read, Return,
              Die, DelWrite, TypeOK
<1>5. CASE PodEvent(a) \/ Fail(a)
  BY <1>5 DEF PodEvent, Fail, SkipEvent, DelRead, DelNoEntry, DelNoObject, DelWrite,
              TakeEvent, Read, Return, TypeOK
<1>6. QED
  BY <1>1, <1>2, <1>3, <1>4, <1>5 DEF Agent

\* Every placement stays accounted for, in the object and in the handlers.
LEMMA AccountedStep ==
    ASSUME IndInv, Next
    PROVE  ObsoleteAccounted' /\ CopiesAccounted'
<1> TypeOK /\ FreshCopy /\ HandlerState /\ ObsoleteAccounted /\ CopiesAccounted
  BY DEF IndInv
<1>1. \A n \in Node : Placed(spec, n) \subseteq Pod
  BY PlacedPods DEF TypeOK
<1>2. \A n \in Node : Placed(un[n], n) \cup DOMAIN plan[n] \subseteq Pod
  BY PlacedPods, PodMapDef, ZenonT(30) DEF TypeOK
<1>3. ASSUME NEW a \in Node, Agent(a) PROVE ObsoleteAccounted' /\ CopiesAccounted'
  <2>1. \A n \in Node \ {a}, p \in Pod : Accounted(n, p) => Accounted(n, p)'
    BY <1>3, AgentKeeps
  <2>2. ASSUME NEW p \in Pod, Accounted(a, p),
               ~DelNoEntry(a), ~(DelWrite(a) /\ p \in del[a])
        PROVE  Accounted(a, p)'
    BY <1>3, <2>2, AgentKeeps
  <2>3. DelNoEntry(a) => /\ spec' = spec /\ Placed(spec, a) = {}
                         /\ un'[a] = NoEntries /\ plan'[a] = NoPods
    BY DEF DelNoEntry, TakeEvent, HandlerState, HandlerOK, Placed
  <2>4. DelWrite(a) => ~DelNoEntry(a) /\ un'[a] = NoEntries /\ plan'[a] = NoPods
    BY DEF DelWrite, DelNoEntry, TakeEvent, Return, TypeOK
  <2>5. NetWrite(a) \/ LbWrite(a) => ~DelNoEntry(a) /\ ~DelWrite(a)
    BY DEF DelNoEntry, DelWrite, TakeEvent, NetWrite, LbWrite
  <2>6. \A p \in Live(a)' : Accounted(a, p)'
    BY DEF Accounted
  <2>7. ASSUME NEW n \in Node, n # a
        PROVE  \A p \in Placed(spec', n) \cup Placed(un'[n], n) \cup DOMAIN plan'[n] :
                  Accounted(n, p)'
    <3>1. Placed(spec', n) = Placed(spec, n) /\ un'[n] = un[n] /\ plan'[n] = plan[n]
      BY <1>3, <2>7, AgentSpec, AgentCopies
    <3>2. QED
      BY <1>1, <1>2, <2>1, <2>7, <3>1 DEF ObsoleteAccounted, CopiesAccounted
  <2>8. \A p \in Placed(spec', a) : Accounted(a, p)'
    <3>1. CASE spec' = spec /\ ~DelWrite(a)
      BY <1>1, <2>2, <2>3, <3>1 DEF ObsoleteAccounted
    <3>2. CASE Placed(spec', a) = {}
      BY <3>2
    <3>3. CASE /\ NetWrite(a) \/ LbWrite(a)
               /\ Placed(spec', a) \subseteq DOMAIN plan[a] \cup Placed(un[a], a)
      BY <1>2, <2>2, <2>5, <3>3 DEF CopiesAccounted
    <3>4. CASE DelWrite(a) /\ Placed(spec', a) = Placed(un[a], a) \ del[a]
      BY <1>2, <2>2, <2>4, <3>4 DEF CopiesAccounted
    <3>5. QED
      BY <1>3, <3>1, <3>2, <3>3, <3>4, AgentSpec
  <2>9. \A p \in Placed(un'[a], a) : Accounted(a, p)'
    <3>1. CASE un'[a] = NoEntries
      BY <3>1, PlacedNone
    <3>2. CASE un'[a] = un[a] /\ ~DelWrite(a) /\ ~DelNoEntry(a)
      BY <1>2, <2>2, <3>2 DEF CopiesAccounted
    <3>3. CASE un'[a] = spec /\ ~DelWrite(a) /\ ~DelNoEntry(a)
      BY <1>1, <2>2, <3>3 DEF ObsoleteAccounted
    <3>4. QED
      BY <1>3, <2>3, <3>1, <3>2, <3>3, AgentCopies
  <2>10. \A p \in DOMAIN plan'[a] : Accounted(a, p)'
    <3>1. CASE plan'[a] = NoPods
      BY <3>1, EmptyMaps
    <3>2. CASE plan'[a] = plan[a] /\ ~DelWrite(a) /\ ~DelNoEntry(a)
      BY <1>2, <2>2, <3>2 DEF CopiesAccounted
    <3>3. CASE DOMAIN plan'[a] \subseteq Live(a) /\ Live(a)' = Live(a)
      BY <2>6, <3>3
    <3>4. QED
      BY <1>3, <2>3, <3>1, <3>2, <3>3, AgentCopies
  <2>11. QED
    BY <2>7, <2>8, <2>9, <2>10 DEF ObsoleteAccounted, CopiesAccounted
<1>4. CASE Environment
  <2>1. \A n \in Node, p \in Pod : Accounted(n, p) => Accounted(n, p)'
    BY <1>4, EnvironmentKeeps
  <2>2. \A n \in Node :
           \/ un'[n] = un[n] /\ plan'[n] = plan[n]
           \/ un'[n] = NoEntries /\ plan'[n] = NoPods
    <3>1. ASSUME NEW a \in Node, Crash(a)
          PROVE  \A n \in Node :
                    \/ un'[n] = un[n] /\ plan'[n] = plan[n]
                    \/ un'[n] = NoEntries /\ plan'[n] = NoPods
      BY <3>1 DEF Crash, Die, TypeOK
    <3>2. CASE un' = un /\ plan' = plan
      BY <3>2
    <3>3. QED
      BY <1>4, <3>1, <3>2 DEF Environment, PodDelete, PodCreate, WatchBreak, UserApply,
         UserWhitelist, handlerVars
  <2>3. CopiesAccounted'
    <3>1. DOMAIN NoPods = {}
      BY EmptyMaps
    <3>2. QED
      BY <1>2, <2>1, <2>2, <3>1, PlacedNone DEF CopiesAccounted
  <2>4. CASE spec' = spec
    BY <1>1, <2>1, <2>3, <2>4 DEF ObsoleteAccounted
  <2>5. ASSUME NEW k \in Node, NEW e \in Entry, UserApply(k, e) PROVE ObsoleteAccounted'
    <3>1. /\ Placed(spec', k) = DOMAIN e.aff
          /\ \A n \in Node \ {k} : Placed(spec', n) = Placed(spec, n)
      BY <2>5, PlacedPut DEF UserApply, TypeOK
    <3>2. \A p \in DOMAIN e.aff : Accounted(k, p)'
      BY <2>5 DEF UserApply, podVars, Live, Accounted
    <3>3. QED
      BY <1>1, <2>1, <3>1, <3>2 DEF ObsoleteAccounted
  <2>6. QED
    BY <1>4, <2>3, <2>4, <2>5 DEF Environment, PodDelete, PodCreate, Crash, Die, WatchBreak,
       UserWhitelist, crVars
<1>5. QED
  BY <1>3, <1>4 DEF Next

\* Only an existing object is updated.
LEMMA NoObjectStep ==
    ASSUME IndInv, Next
    PROVE  NoObject'
<1> USE DEF crVars, podVars, handlerVars
<1> TypeOK /\ FreshCopy /\ NoObject
  BY DEF IndInv
<1>1. CASE UNCHANGED <<crExists, spec>>
  BY <1>1 DEF NoObject
<1>2. ASSUME NEW a \in Node, NEW s, Commit(a, s) PROVE NoObject'
  BY <1>2 DEF Commit, FreshCopy, NoObject
<1>3. ASSUME NEW a \in Node, SetupCreate(a) PROVE NoObject'
  BY <1>3 DEF SetupCreate, NoObject
<1>4. ASSUME NEW n \in Node, NEW e \in Entry, UserApply(n, e) PROVE NoObject'
  BY <1>4 DEF UserApply, NoObject
<1>5. ASSUME NEW a \in Node, Agent(a) PROVE NoObject'
  <2>1. Setup(a) => (\E s : Commit(a, s)) \/ SetupCreate(a) \/ UNCHANGED <<crExists, spec>>
    BY DEF Setup, Boot, SetupExists, SetupRead, SetupWrite
  <2>2. Tick(a) => (\E s : Commit(a, s)) \/ UNCHANGED <<crExists, spec>>
    BY DEF Tick, NetRead, NetAsk, NetPanic, NetWrite, LbRead, LbPanic, LbAsk, LbWrite, Die
  <2>3. PodEvent(a) \/ Fail(a) => (\E s : Commit(a, s)) \/ UNCHANGED <<crExists, spec>>
    BY DEF PodEvent, Fail, SkipEvent, DelRead, DelNoEntry, DelNoObject, DelWrite, TakeEvent
  <2>4. QED
    BY <1>1, <1>2, <1>3, <1>5, <2>1, <2>2, <2>3 DEF Agent
<1>6. CASE Environment
  BY <1>1, <1>4, <1>6 DEF Environment, PodDelete, PodCreate, Crash, Die, WatchBreak, UserWhitelist
<1>7. QED
  BY <1>5, <1>6 DEF Next

\* The strengthening is inductive.
LEMMA NextIndInv == IndInv /\ [Next]_vars => IndInv'
<1>1. ASSUME IndInv, Next PROVE IndInv'
  <2>1. TypeOK'
    BY <1>1, AgentType, EnvironmentType DEF IndInv, Next
  <2>2. HandlerState'
    BY <1>1, HandlerStep, EnvironmentHandler DEF Next
  <2>3. FreshCopy' /\ DownClean' /\ NoObject'
    BY <1>1, FreshCopyStep, DownCleanStep, NoObjectStep
  <2>4. ObsoleteAccounted' /\ CopiesAccounted'
    BY <1>1, AccountedStep
  <2>5. QED
    BY <2>1, <2>2, <2>3, <2>4 DEF IndInv
<1>2. ASSUME IndInv, UNCHANGED vars PROVE IndInv'
  <2> USE <1>2 DEF IndInv, vars
  <2>1. TypeOK'
    BY DEF TypeOK
  <2>2. FreshCopy' /\ DownClean' /\ NoObject'
    BY DEF FreshCopy, DownClean, NoObject
  <2>3. HandlerState'
    BY DEF HandlerState, HandlerOK, EventsOK
  <2>4. \A n, p : Accounted(n, p)' <=> Accounted(n, p)
    BY DEF Accounted, Queued, Live
  <2>5. \A n : Placed(spec', n) = Placed(spec, n) /\ Placed(un'[n], n) = Placed(un[n], n)
    OBVIOUS
  <2>6. ObsoleteAccounted' /\ CopiesAccounted'
    BY <2>4, <2>5 DEF ObsoleteAccounted, CopiesAccounted
  <2>7. QED
    BY <2>1, <2>2, <2>3, <2>6
<1>3. QED
  BY <1>1, <1>2

-----------------------------------------------------------------------------
(* Implementation of the abstract store                                    *)

\* The edits of an entry, as the abstract store names them.
LEMMA StoreOps ==
    /\ \A s, n, e : Store!Put(s, n, e) = Put(s, n, e)
    /\ \A s, n, m : Store!PutAff(s, n, m) = PutAff(s, n, m)
    /\ \A r, m : Store!Merge(r, m) = Merge(r, m)
    /\ \A m, D : Store!Without(m, D) = Without(m, D)
    /\ Store!MkEntry(NumaCount, NoPods) = MkEntry(NumaCount, NoPods)
    /\ Store!NoEntries = NoEntries /\ Store!NoPods = NoPods
    /\ Store!PodMap = PodMap /\ Store!Entry = Entry
BY DEF Store!Put, Put, Store!PutAff, PutAff, Store!Merge, Merge, Store!Without, Without,
   Store!MkEntry, MkEntry, Store!NoEntries, NoEntries, Store!NoPods, NoPods,
   Store!PodMap, PodMap, Store!Entry, Entry, Store!Numa, Numa

\* A step that leaves the object alone may end a's setup.
LEMMA QuietStep ==
    ASSUME NEW a \in Node, TypeOK, UNCHANGED <<crExists, spec, edits>>,
           NEW v, pc' = [pc EXCEPT ![a] = v],
           v \in {"setup", "setupWrite"} => pc[a] \in {"setup", "setupWrite"}
    PROVE  UNCHANGED Store!storeVars \/ Store!GiveUp(a)
<1>1. \A n \in Node : pc'[n] = IF n = a THEN v ELSE pc[n]
  BY DEF TypeOK
<1>2. CASE v \in {"setup", "setupWrite"}
  <2>1. Creator' = Creator
    BY <1>1, <1>2 DEF Creator
  <2>2. QED
    BY <2>1 DEF Store!storeVars
<1>3. CASE v \notin {"setup", "setupWrite"}
  <2>1. Creator' = Creator \ {a}
    BY <1>1, <1>3 DEF Creator
  <2>2. CASE a \in Creator
    BY <2>1, <2>2 DEF Store!GiveUp
  <2>3. CASE a \notin Creator
    BY <2>1, <2>3 DEF Store!storeVars
  <2>4. QED
    BY <2>2, <2>3
<1>4. QED
  BY <1>2, <1>3

\* A handler's return ends a's setup, and no other's.
LEMMA ReturnCreator ==
    ASSUME NEW a \in Node, TypeOK, Return(a)
    PROVE  Creator' = Creator \ {a} /\ (pc[a] # "ready" => pc'[a] # pc[a])
<1>1. \A n \in Node : pc'[n] = IF n = a THEN "ready" ELSE pc[n]
  BY DEF Return, TypeOK
<1>2. QED
  BY <1>1 DEF Creator

\* An agent's step is one atomic change of its own entry, or none.
LEMMA AgentImplements ==
    ASSUME NEW a \in Node, IndInv, Agent(a)
    PROVE  \/ UNCHANGED Store!storeVars
           \/ Store!GiveUp(a)
           \/ Store!Create(a)
           \/ /\ pc'[a] # pc[a]
              /\ \/ Store!Reset(a)
                 \/ Store!Register(a)
                 \/ \E m \in PodMap : Store!Overlay(a, m) \/ Store!Assign(a, m)
                 \/ \E p \in Pod : Store!Drop(a, p)
<1> USE DEF crVars, podVars, handlerVars
<1> TypeOK /\ FreshCopy /\ HandlerOK(a)
  BY DEF IndInv, HandlerState
<1>1. CASE SetupCreate(a)
  <2>1. \A n \in Node : pc'[n] = IF n = a THEN "setup" ELSE pc[n]
    BY <1>1 DEF SetupCreate, TypeOK
  <2>2. Creator' = Creator \cup {a}
    BY <2>1 DEF Creator
  <2>3. QED
    BY <1>1, <2>2, StoreOps DEF SetupCreate, Store!Create
<1>3. CASE SetupWrite(a)
  <2>1. un[a] = spec /\ pc'[a] # pc[a] /\ Creator' = Creator \ {a} /\ a \in Creator
    BY <1>3, ReturnCreator DEF SetupWrite, Commit, FreshCopy, Creator
  <2>2. spec' = Put(spec, a, MkEntry(NumaCount, NoPods)) /\ crExists' = crExists /\ edits' = edits
    BY <1>3, <2>1 DEF SetupWrite, Commit
  <2>3. QED
    BY <2>1, <2>2, StoreOps DEF Store!Reset
<1>4. CASE NetWrite(a)
  <2>1. un[a] = spec /\ a \in DOMAIN spec /\ pc'[a] # pc[a] /\ plan[a] \in PodMap /\ Creator' = Creator
    BY <1>4, ReturnCreator DEF NetWrite, Commit, FreshCopy, HandlerOK, TypeOK, Creator
  <2>2. spec' = PutAff(spec, a, Merge(plan[a], spec[a].aff)) /\ crExists' = crExists /\ edits' = edits
    BY <1>4, <2>1 DEF NetWrite, Commit
  <2>3. Policy[a] = "net_affinity"
    BY <1>4 DEF NetWrite
  <2>4. Store!Overlay(a, plan[a])
    BY <2>1, <2>2, <2>3, StoreOps DEF Store!Overlay
  <2>5. QED
    BY <2>1, <2>4
<1>5. CASE LbWrite(a)
  <2>1. /\ un[a] = spec /\ pc'[a] # pc[a] /\ plan[a] \in PodMap
        /\ Policy[a] = "load_balance" /\ DOMAIN plan[a] \subseteq Whitelist
        /\ crExists' = crExists /\ edits' = edits /\ Creator' = Creator
    BY <1>5, ReturnCreator DEF LbWrite, Commit, FreshCopy, HandlerOK, TypeOK, Creator
  <2>2. CASE a \in DOMAIN spec
    <3>1. spec' = PutAff(spec, a, plan[a])
      BY <1>5, <2>1, <2>2 DEF LbWrite, Commit
    <3>2. Store!Assign(a, plan[a])
      BY <2>1, <2>2, <3>1, StoreOps DEF Store!Assign
    <3>3. QED
      BY <2>1, <3>2
  <2>3. CASE a \notin DOMAIN spec
    <3>1. spec' = Put(spec, a, MkEntry(NumaCount, NoPods))
      BY <1>5, <2>1, <2>3 DEF LbWrite, Commit
    <3>2. QED
      BY <2>1, <2>3, <3>1, StoreOps DEF Store!Register
  <2>4. QED
    BY <2>2, <2>3
<1>6. CASE DelWrite(a)
  <2>1. /\ un[a] = spec /\ a \in DOMAIN spec /\ pc'[a] # pc[a]
        /\ crExists' = crExists /\ edits' = edits /\ Creator' = Creator
    BY <1>6, ReturnCreator DEF DelWrite, Commit, FreshCopy, HandlerOK, Creator
  <2>2. PICK p \in Pod : del[a] = {p}
    BY <1>6 DEF DelWrite, HandlerOK
  <2>3. spec' = PutAff(spec, a, Without(spec[a].aff, {p}))
    BY <1>6, <2>1, <2>2 DEF DelWrite, Commit
  <2>4. Store!Drop(a, p)
    BY <2>1, <2>3, StoreOps DEF Store!Drop
  <2>5. QED
    BY <2>1, <2>4
<1>7. CASE Boot(a) \/ SetupExists(a) \/ SetupRead(a)
  <2>1. /\ UNCHANGED <<crExists, spec, edits>>
        /\ \E v : /\ pc' = [pc EXCEPT ![a] = v]
                  /\ v \in {"setup", "setupWrite"} => pc[a] \in {"setup", "setupWrite"}
    BY <1>7 DEF Boot, SetupExists, SetupRead, Return
  <2>2. QED
    BY <2>1, QuietStep
<1>8. CASE NetRead(a) \/ NetAsk(a) \/ NetPanic(a) \/ LbRead(a) \/ LbPanic(a) \/ LbAsk(a)
  <2>1. UNCHANGED <<crExists, spec, edits>>
    BY <1>8 DEF NetRead, NetAsk, NetPanic, LbRead, LbPanic, LbAsk, Die
  <2>2. \E v \in {"ask", "write", "down"} : pc' = [pc EXCEPT ![a] = v]
    BY <1>8 DEF NetRead, NetAsk, NetPanic, LbRead, LbPanic, LbAsk, Die
  <2>3. QED
    BY <2>1, <2>2, QuietStep
<1>9. CASE SkipEvent(a) \/ DelRead(a) \/ DelNoEntry(a) \/ DelNoObject(a) \/ Fail(a)
  <2>1. UNCHANGED <<crExists, spec, edits>>
    BY <1>9 DEF SkipEvent, DelRead, DelNoEntry, DelNoObject, TakeEvent, Fail
  <2>2. (\E v \in {"del", "ready"} : pc' = [pc EXCEPT ![a] = v]) \/ pc' = pc
    BY <1>9 DEF SkipEvent, DelRead, DelNoEntry, DelNoObject, Fail, Return
  <2>3. CASE pc' = pc
    BY <2>1, <2>3 DEF Store!storeVars, Creator
  <2>4. CASE \E v \in {"del", "ready"} : pc' = [pc EXCEPT ![a] = v]
    BY <2>1, <2>4, QuietStep
  <2>5. QED
    BY <2>2, <2>3, <2>4
<1>10. QED
  BY <1>1, <1>3, <1>4, <1>5, <1>6, <1>7, <1>8, <1>9 DEF Agent, Setup, Tick, PodEvent

\* The environment changes the object only by a user's edit.
LEMMA EnvironmentImplements ==
    ASSUME TypeOK, Environment
    PROVE  \/ UNCHANGED Store!storeVars
           \/ \E n \in Node : Store!GiveUp(n)
           \/ /\ edits' # edits
              /\ \E n \in Node, e \in Entry : Store!Edit(n, e)
<1> USE DEF crVars, podVars, handlerVars
<1>1. ASSUME NEW n \in Node, NEW e \in Entry, UserApply(n, e), TypeOK
      PROVE  edits' # edits /\ Store!Edit(n, e)
  BY <1>1, StoreOps DEF UserApply, Store!Edit, TypeOK, Creator
<1>2. ASSUME NEW n \in Node, Crash(n)
      PROVE  UNCHANGED Store!storeVars \/ Store!GiveUp(n)
  <2>1. UNCHANGED <<crExists, spec, edits>> /\ pc' = [pc EXCEPT ![n] = "down"]
    BY <1>2 DEF Crash, Die
  <2>2. QED
    BY <2>1, QuietStep
<1>3. CASE UNCHANGED <<crExists, spec, edits, pc>>
  BY <1>3 DEF Store!storeVars, Creator
<1>4. QED
  BY <1>1, <1>2, <1>3 DEF Environment, PodDelete, PodCreate, WatchBreak, UserWhitelist

\* Replacing a's entry leaves every other entry alone.
LEMMA PutOthers ==
    ASSUME NEW s, NEW a, NEW e, NEW n, n # a
    PROVE  EntryOf(Put(s, a, e), n) = EntryOf(s, n)
BY DEF EntryOf, Put

\* A step that changes n's entry is n's agent's, or a user's.
LEMMA OwnerStep ==
    ASSUME IndInv, [Next]_vars, NEW n \in Node, EntryOf(spec', n) # EntryOf(spec, n)
    PROVE  pc[n] # pc'[n] \/ edits # edits'
<1>1. Next /\ TypeOK /\ NoObject /\ spec' # spec
  BY DEF vars, IndInv
<1>2. \A a : ~Store!Create(a) /\ ~Store!GiveUp(a)
  <2>1. EntryOf(NoEntries, n) = {}
    BY EmptyMaps DEF EntryOf
  <2>2. QED
    BY <1>1, <2>1, StoreOps DEF Store!Create, Store!GiveUp, NoObject
<1>3. ASSUME NEW a \in Node, n # a PROVE /\ ~Store!Reset(a) /\ ~Store!Register(a)
                                         /\ \A m : ~Store!Overlay(a, m) /\ ~Store!Assign(a, m)
                                         /\ \A p : ~Store!Drop(a, p)
  <2>1. \A e : spec' # Put(spec, a, e)
    BY <1>3, PutOthers
  <2>2. \A e : spec' # Store!Put(spec, a, e)
    BY <2>1, StoreOps
  <2>3. QED
    BY <2>2 DEF Store!Reset, Store!Register, Store!Overlay, Store!Assign, Store!Drop, Store!PutAff
<1>4. ASSUME NEW a \in Node, Agent(a) PROVE pc[n] # pc'[n]
  BY <1>1, <1>2, <1>3, <1>4, AgentImplements DEF Store!storeVars
<1>5. CASE Environment
  BY <1>1, <1>2, <1>5, EnvironmentImplements DEF Store!storeVars
<1>6. QED
  BY <1>1, <1>4, <1>5 DEF Next

-----------------------------------------------------------------------------
(* Theorems                                                                *)

\* The strengthening holds in every state of every behaviour.
THEOREM Invariance == Spec => []IndInv
BY InitIndInv, NextIndInv, PTL DEF Spec

\* Type correctness: no channel ever holds more than its capacity, and no
\* update puts a malformed entry into the object.
THEOREM TypeCorrect == Spec => []TypeOK
<1>1. IndInv => TypeOK
  BY DEF IndInv
<1>2. QED
  BY <1>1, Invariance, PTL

\* A placement whose pod is gone has its Deleted event pending, in hand, or
\* lost (deleteObsoletePodsInCr and both ticks).
THEOREM ObsoletePods == Spec => []ObsoleteAccounted
<1>1. IndInv => ObsoleteAccounted
  BY DEF IndInv
<1>2. QED
  BY <1>1, Invariance, PTL

\* A copy that the API server would accept is the current object, so an
\* accepted update cannot undo another agent's (UpdateConfigCrd).
THEOREM CopiesCurrent == Spec => []FreshCopy
<1>1. IndInv => FreshCopy
  BY DEF IndInv
<1>2. QED
  BY <1>1, Invariance, PTL

\* An agent's updates, and its failures, change no other node's entry
\* (UpdateConfigCrd with the resourceVersion of the copy).
THEOREM OwnerOnly == Spec => OnlyOwnerWrites
<1>1. IndInv /\ [Next]_vars =>
        [\A n \in Node : EntryOf(spec', n) # EntryOf(spec, n)
                            => pc[n] # pc'[n] \/ edits # edits']_vars
  BY OwnerStep
<1>2. QED
  BY <1>1, Invariance, PTL DEF Spec, OnlyOwnerWrites

\* The agents implement the store of atomically changed entries.
THEOREM Implementation == Spec => ImplementsStore
<1>1. Init => Store!Init
  BY StoreOps DEF Init, Store!Init, Creator
<1>2. IndInv /\ [Next]_vars => [Store!Next]_(Store!storeVars)
  <2> SUFFICES ASSUME IndInv, [Next]_vars PROVE Store!Next \/ UNCHANGED Store!storeVars
    OBVIOUS
  <2>1. ASSUME NEW a \in Node, Agent(a) PROVE Store!Next \/ UNCHANGED Store!storeVars
    <3>1. CASE Store!Create(a) \/ Store!GiveUp(a)
      BY <3>1 DEF Store!Next
    <3>2. CASE \/ Store!Reset(a)
               \/ Store!Register(a)
               \/ \E m \in PodMap : Store!Overlay(a, m) \/ Store!Assign(a, m)
               \/ \E p \in Pod : Store!Drop(a, p)
      BY <3>2, StoreOps DEF Store!Next
    <3>3. QED
      BY <2>1, <3>1, <3>2, AgentImplements
  <2>2. CASE Environment
    <3>1. CASE \E n \in Node, e \in Entry : Store!Edit(n, e)
      BY <3>1, StoreOps DEF Store!Next
    <3>2. CASE \E n \in Node : Store!GiveUp(n)
      BY <3>2 DEF Store!Next
    <3>3. QED
      BY <2>2, <3>1, <3>2, EnvironmentImplements DEF IndInv
  <2>3. CASE UNCHANGED vars
    BY <2>3 DEF vars, Store!storeVars, Creator
  <2>4. QED
    BY <2>1, <2>2, <2>3 DEF Next
<1>3. QED
  BY <1>1, <1>2, Invariance, PTL DEF Spec, ImplementsStore, Store!Spec
=============================================================================
