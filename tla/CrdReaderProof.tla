--------------------------- MODULE CrdReaderProof ---------------------------
(***************************************************************************)
(* Proofs about CrdReader for every set of pods, number of NUMA nodes, size *)
(* of the watch's channel and bound on starts and edits.                   *)
(*                                                                         *)
(* The argument: an entry of the object is a copy, and copies lie in the   *)
(* channel, in the handler and in the update for the runtime.  Containers  *)
(* are numbered, so a copy can only name the pod's container of now or a   *)
(* former one (NotAhead), and whatever it says of the one of now has been  *)
(* published for it (Backed).  The last copy of an open watch is the       *)
(* object (Latest), and while that copy is applied no container it names   *)
(* is forgotten (Applying).                                                *)
(***************************************************************************)
EXTENDS CrdReader, SequenceTheorems, TLAPS

\* The pods that are still to be looked up are those of the event.
Pending == pc = "apply" => todo \subseteq DOMAIN plan

\* Who may publish a placement that pins p's container
Publishers(p) == IF policy = "load_balance" /\ p \notin Guaranteed
                   THEN {"other"} ELSE {"tick", "other"}

\* p's container was told to be on node n.
Told(p, n) == \E who \in Publishers(p) : <<n, who>> \in said[p]

\* The entry e names no container that is not there yet ...
NotAhead(e) == \A p \in DOMAIN e : e[p].inc <= inc[p]

\* ... and what it says of the containers that run has been published.
Backed(e) == \A p \in DOMAIN e \cap up : e[p].inc = inc[p] => Told(p, e[p].numa)

\* The version o of the object
Recorded(o) == NotAhead(o.entry) /\ (o.enable => Backed(o.entry))

\* A load-balancing tick is about to name Guaranteed pods only.
PlanNames == pc = "write" /\ policy = "load_balance" =>
                 \A p \in DOMAIN plan \ Guaranteed : plan[p].inc = 0

Sound == /\ \A p \in up : inc[p] > 0
         /\ Recorded(obj)
         /\ \A i \in 1 .. Len(chan) : Recorded(chan[i])
         /\ NotAhead(plan)
         /\ pc = "apply" => Backed(plan)
         /\ PlanNames
         /\ NotAhead(cfg) /\ Backed(cfg)
         /\ \A p \in up : numa[p] # Free => Told(p, numa[p])

Latest == watch = "open" /\ chan # <<>> => chan[Len(chan)] = obj

\* No container that the object names is forgotten by the handler.
Kept == \A p \in Pod \ todo : Named(p) => p \in DOMAIN cfg /\ cfg[p] = plan[p]

Applying == pc = "apply" /\ chan = <<>> /\ watch = "open" =>
                obj.enable /\ plan = obj.entry /\ (missed \/ Kept)

\* The inductive invariant, together with TypeOK, Pending and Sound
Following == Latest /\ Applying /\ Settled

-----------------------------------------------------------------------------
(* Entries, containers and the channel                                     *)

\* Members of Entry are the partial functions from pods to placements.
LEMMA EntryDef == \A e : e \in Entry <=> \E S \in SUBSET Pod : e \in [S -> Placement]
BY DEF Entry

\* The numbers of containers are natural numbers.
LEMMA IncFacts == /\ Inc \subseteq Nat
                  /\ \A p \in Pod : 0 .. MaxInc[p] \subseteq Inc
BY ReaderAssumption DEF Inc

\* What an entry says of a pod
LEMMA EntryFacts ==
    ASSUME NEW e \in Entry
    PROVE  /\ DOMAIN e \subseteq Pod /\ e \in [DOMAIN e -> Placement]
           /\ \A p \in DOMAIN e : /\ e[p] \in Placement
                                  /\ e[p].numa \in Numa
                                  /\ e[p].inc \in Inc /\ e[p].inc \in Nat
<1>1. PICK S \in SUBSET Pod : e \in [S -> Placement]
  BY EntryDef
<1>2. \A p \in S : e[p] \in Placement
  BY <1>1
<1>3. QED
  BY <1>1, <1>2, IncFacts DEF Placement

\* The empty entry
LEMMA NothingType == Nothing \in Entry /\ DOMAIN Nothing = {}
<1>1. Nothing \in [{} -> Placement]
  BY DEF Nothing
<1>2. QED
  BY <1>1, EntryDef DEF Nothing

\* The plans of both ticks are entries that name the containers of now, and the
\* load-balancing ones those of Guaranteed pods.
LEMMA PlanFacts ==
    ASSUME TypeOK, NEW e, e \in NetPlans \/ e \in LbPlans
    PROVE  /\ e \in Entry
           /\ \A p \in DOMAIN e : e[p].inc \in {0, inc[p]}
           /\ e \in LbPlans => \A p \in DOMAIN e \ Guaranteed : e[p].inc = 0
<1>1. \A p \in Pod : 0 \in Inc /\ inc[p] \in Inc
  <2>1. \A p \in Pod : 0 \in 0 .. MaxInc[p]
    BY ReaderAssumption
  <2>2. QED
    BY <2>1, IncFacts DEF TypeOK
<1>2. obj.entry \in Entry
  BY DEF TypeOK, Object
<1>3. CASE e \in NetPlans
  <2> DEFINE Plan(S, f) == [p \in DOMAIN obj.entry \cup S |->
                              [numa |-> IF p \in S THEN f[p] ELSE obj.entry[p].numa,
                               inc |-> IF p \in up THEN inc[p] ELSE 0]]
             Plans(S) == {Plan(S, f) : f \in [S -> Numa]}
  <2>1. PICK S \in SUBSET up : e \in Plans(S)
    <3>1. e \in UNION {Plans(S) : S \in SUBSET up}
      BY <1>3 DEF NetPlans
    <3> HIDE DEF Plans
    <3>2. QED
      BY <3>1
  <2>2. PICK f \in [S -> Numa] : e = Plan(S, f)
    BY <2>1
  <2>3. DOMAIN e = DOMAIN obj.entry \cup S /\ DOMAIN e \subseteq Pod
    BY <1>2, <2>2, EntryFacts DEF TypeOK
  <2>4. \A p \in DOMAIN e : /\ e[p].inc = IF p \in up THEN inc[p] ELSE 0
                            /\ e[p] \in Placement
    BY <1>1, <1>2, <2>2, <2>3, EntryFacts DEF Placement
  <2>5. e \in [DOMAIN e -> Placement]
    BY <2>2, <2>4
  <2>6. e \in LbPlans => \A p \in DOMAIN e \ Guaranteed : e[p].inc = 0
    BY DEF LbPlans
  <2>7. QED
    BY <2>3, <2>4, <2>5, <2>6, EntryDef
<1>4. CASE e \in LbPlans
  <2>1. PICK f \in [up -> Numa] :
          e = [p \in up |-> [numa |-> f[p],
                             inc |-> IF p \in Guaranteed THEN inc[p] ELSE 0]]
    BY <1>4 DEF LbPlans
  <2>2. \A p \in up : /\ e[p].inc = IF p \in Guaranteed THEN inc[p] ELSE 0
                      /\ e[p] \in Placement
    BY <1>1, <2>1 DEF Placement, TypeOK
  <2>3. e \in [up -> Placement]
    BY <2>1, <2>2
  <2>4. QED
    BY <2>1, <2>2, <2>3, EntryDef DEF TypeOK
<1>5. QED
  BY <1>3, <1>4

\* An event enters the channel at its end, if there is room.
LEMMA SendFacts ==
    ASSUME TypeOK, NEW o \in Object, Send(o)
    PROVE  /\ chan' \in Seq(Object) /\ Len(chan') <= ChanSize
           /\ watch' \in {"open", "lost"}
           /\ \A i \in 1 .. Len(chan') : chan'[i] = o \/ (i \in 1 .. Len(chan) /\ chan'[i] = chan[i])
           /\ watch' = "open" => chan' # <<>> /\ chan'[Len(chan')] = o
<1>1. chan \in Seq(Object) /\ Len(chan) \in Nat /\ ChanSize \in Nat
  BY ReaderAssumption DEF TypeOK
<1>2. CASE Len(chan) < ChanSize
  <2>1. chan' = Append(chan, o) /\ watch' = "open"
    BY <1>2 DEF Send
  <2>2. /\ chan' \in Seq(Object) /\ Len(chan') = Len(chan) + 1
        /\ \A i \in 1 .. Len(chan) : chan'[i] = chan[i]
        /\ chan'[Len(chan) + 1] = o /\ chan' # <<>>
    BY <1>1, <2>1
  <2>3. \A i \in 1 .. Len(chan') : i \in 1 .. Len(chan) \/ i = Len(chan) + 1
    BY <1>1, <2>2
  <2>4. QED
    BY <1>1, <1>2, <2>1, <2>2, <2>3
<1>3. CASE ~(Len(chan) < ChanSize)
  BY <1>3 DEF Send, TypeOK
<1>4. QED
  BY <1>2, <1>3

\* An event is taken from the channel's front.
LEMMA TakeFacts ==
    ASSUME TypeOK, Take
    PROVE  /\ Head(chan) \in Object /\ Head(chan) = chan[1] /\ 1 \in 1 .. Len(chan)
           /\ chan' \in Seq(Object) /\ Len(chan') <= ChanSize
           /\ \A i \in 1 .. Len(chan') : i + 1 \in 1 .. Len(chan) /\ chan'[i] = chan[i + 1]
           /\ chan' # <<>> => chan'[Len(chan')] = chan[Len(chan)]
           /\ chan' = <<>> => Head(chan) = chan[Len(chan)]
<1> DEFINE n == Len(chan)
           t == Tail(chan)
<1>1. /\ chan \in Seq(Object) /\ chan # <<>> /\ n <= ChanSize /\ chan' = t
      /\ ChanSize \in Nat
  BY ReaderAssumption DEF TypeOK, Take
<1>2. n \in Nat \ {0} /\ Head(chan) = chan[1] /\ Head(chan) \in Object
  BY <1>1
<1>3. /\ t \in Seq(Object) /\ Len(t) = n - 1
      /\ \A i \in 1 .. n - 1 : t[i] = chan[i + 1]
  BY <1>1
<1>4. Len(t) = 0 <=> t = <<>>
  BY <1>3, EmptySeq
<1> HIDE DEF n, t
<1>5. CASE n = 1
  BY <1>1, <1>2, <1>3, <1>4, <1>5 DEF n
<1>6. CASE n # 1
  <2>1. n - 1 \in 1 .. n - 1 /\ (n - 1) + 1 = n
    BY <1>2, <1>6
  <2>2. t[n - 1] = chan[n] /\ t # <<>>
    BY <1>2, <1>3, <1>4, <1>6, <2>1
  <2>3. \A i \in 1 .. n - 1 : i + 1 \in 1 .. n
    BY <1>2
  <2>4. QED
    BY <1>1, <1>2, <1>3, <2>1, <2>2, <2>3 DEF n
<1>7. QED
  BY <1>5, <1>6

\* One version of the object is one event.
LEMMA OneEvent ==
    ASSUME NEW o \in Object
    PROVE  /\ <<o>> \in Seq(Object) /\ Len(<<o>>) = 1 /\ Len(<<o>>) <= ChanSize
           /\ <<o>>[1] = o /\ <<o>> # <<>>
BY ReaderAssumption

\* What a write of the object changes
LEMMA WriteFacts ==
    ASSUME TypeOK, NEW o \in Object, NEW who \in {"tick", "other"}, Write(o, who)
    PROVE  /\ obj' = o /\ fresh' = FALSE
           /\ chan' \in Seq(Object) /\ Len(chan') <= ChanSize
           /\ watch' \in {"open", "gap", "lost"}
           /\ said' \in [Pod -> SUBSET (Numa \X {"tick", "other"})]
           /\ \A p \in Pod : said[p] \subseteq said'[p]
           /\ \A p \in Pod : Names(o, p) => <<o.entry[p].numa, who>> \in said'[p]
           /\ \A i \in 1 .. Len(chan') : chan'[i] = o \/ (i \in 1 .. Len(chan) /\ chan'[i] = chan[i])
           /\ watch' = "open" => chan' # <<>> /\ chan'[Len(chan')] = o
<1>1. \A p \in Pod : Names(o, p) => o.entry[p].numa \in Numa
  BY EntryFacts DEF Names, Object
<1>2. obj' = o /\ fresh' = FALSE
  BY DEF Write
<1>3. said' = [p \in Pod |-> IF Names(o, p) THEN said[p] \cup {<<o.entry[p].numa, who>>}
                                            ELSE said[p]]
  BY DEF Write
<1>4. \A p \in Pod : /\ said'[p] \in SUBSET (Numa \X {"tick", "other"})
                     /\ said[p] \subseteq said'[p]
                     /\ Names(o, p) => <<o.entry[p].numa, who>> \in said'[p]
  BY <1>1, <1>3 DEF TypeOK
<1>5. said' \in [Pod -> SUBSET (Numa \X {"tick", "other"})]
  BY <1>3, <1>4
<1>6. CASE watch = "open"
  BY <1>2, <1>4, <1>5, <1>6, SendFacts DEF Write
<1>7. CASE watch # "open"
  BY <1>2, <1>4, <1>5, <1>7 DEF Write, TypeOK
<1>8. QED
  BY <1>6, <1>7

-----------------------------------------------------------------------------
(* Types                                                                   *)

\* The process starts with nothing read, and no pod runs.
LEMMA InitType == Init => TypeOK /\ Pending
<1> SUFFICES ASSUME Init PROVE TypeOK /\ Pending
  OBVIOUS
<1>1. \A p \in Pod : 0 \in Inc
  <2>1. \A p \in Pod : 0 \in 0 .. MaxInc[p]
    BY ReaderAssumption
  <2>2. QED
    BY <2>1, IncFacts
<1>2. obj \in Object
  BY NothingType DEF Init, Object
<1>3. chan \in Seq(Object) /\ Len(chan) <= ChanSize
  <2>1. chan = <<obj>>
    BY DEF Init
  <2>2. QED
    BY <1>2, <2>1, OneEvent
<1>4. inc \in [Pod -> Inc] /\ numa \in [Pod -> Numa \cup {Free}]
  BY <1>1 DEF Init
<1>5. plan \in Entry /\ cfg \in Entry
  BY NothingType DEF Init
<1>6. said \in [Pod -> SUBSET (Numa \X {"tick", "other"})]
  BY DEF Init
<1>7. edits \in 0 .. MaxEdits
  BY ReaderAssumption DEF Init
<1>8. Pending /\ up \subseteq Pod /\ todo \subseteq Pod
  BY DEF Init, Pending
<1>9. QED
  BY <1>2, <1>3, <1>4, <1>5, <1>6, <1>7, <1>8 DEF Init, TypeOK

\* Every tick keeps the types.
LEMMA TickType == ASSUME TypeOK, Tick PROVE TypeOK' /\ Pending'
<1> USE DEF Pending
<1>1. CASE TickRead
  BY <1>1 DEF TickRead, TypeOK, objVars, podVars, applyVars
<1>2. CASE TickList
  <2>1. plan' \in Entry
    BY <1>2, PlanFacts DEF TickList
  <2>2. QED
    BY <1>2, <2>1 DEF TickList, TypeOK, objVars, podVars, applyVars
<1>3. CASE TickWrite
  <2> DEFINE o == [obj EXCEPT !.entry = plan]
  <2>1. o \in Object
    BY DEF TypeOK, Object
  <2>2. plan' \in Entry
    BY <1>3, NothingType DEF TickWrite, Return
  <2>3. /\ obj' \in Object /\ watch' \in {"open", "gap", "lost"}
        /\ chan' \in Seq(Object) /\ Len(chan') <= ChanSize
        /\ said' \in [Pod -> SUBSET (Numa \X {"tick", "other"})]
    <3>1. CASE o = obj
      BY <1>3, <3>1 DEF TickWrite, TypeOK
    <3>2. CASE o # obj
      <4>1. Write(o, "tick")
        BY <1>3, <3>2 DEF TickWrite
      <4>2. QED
        BY <2>1, <4>1, WriteFacts
    <3>3. QED
      BY <3>1, <3>2
  <2>4. QED
    BY <1>3, <2>2, <2>3 DEF TickWrite, Return, TypeOK, applyVars
<1>4. CASE TickFail
  BY <1>4, NothingType DEF TickFail, Return, TypeOK, objVars, podVars, applyVars
<1>5. QED
  BY <1>1, <1>2, <1>3, <1>4 DEF Tick

\* What the look-up of a pod adds to the update
LEMMA LookUpFacts ==
    ASSUME TypeOK, Pending, NEW p \in Pod, LookUp(p)
    PROVE  /\ cfg' \in Entry /\ p \in DOMAIN plan
           /\ plan[p].inc = 0 => cfg' = cfg
           /\ plan[p].inc # 0 => /\ DOMAIN cfg' = DOMAIN cfg \cup {p}
                                 /\ cfg'[p] = plan[p]
                                 /\ \A q \in DOMAIN cfg \ {p} : cfg'[q] = cfg[q]
<1>1. p \in DOMAIN plan /\ plan \in Entry /\ cfg \in Entry
  BY DEF LookUp, Pending, TypeOK
<1>2. CASE plan[p].inc = 0
  BY <1>1, <1>2 DEF LookUp
<1>3. CASE plan[p].inc # 0
  <2>1. cfg' = [q \in DOMAIN cfg \cup {p} |-> IF q = p THEN plan[p] ELSE cfg[q]]
    BY <1>3 DEF LookUp, Pushed
  <2>2. plan[p] \in Placement /\ cfg \in [DOMAIN cfg -> Placement] /\ DOMAIN cfg \subseteq Pod
    BY <1>1, EntryFacts
  <2>3. cfg' \in [DOMAIN cfg \cup {p} -> Placement]
    BY <2>1, <2>2
  <2>4. cfg' \in Entry
    BY <2>2, <2>3, EntryDef
  <2>5. QED
    BY <1>1, <1>3, <2>1, <2>4
<1>4. QED
  BY <1>2, <1>3

\* What the runtime makes of an update
LEMMA PushFacts ==
    ASSUME TypeOK, NEW F \in SUBSET Pod, Push(F)
    PROVE  /\ numa' \in [Pod -> Numa \cup {Free}]
           /\ \A p \in Pod :
                numa'[p] = IF p \in (DOMAIN cfg \ F) \cap up /\ cfg[p].inc = inc[p]
                             THEN cfg[p].numa ELSE numa[p]
<1>1. numa' = [p \in Pod |-> IF p \in (DOMAIN cfg \ F) \cap up /\ cfg[p].inc = inc[p]
                              THEN cfg[p].numa ELSE numa[p]]
  BY DEF Push
<1>2. \A p \in DOMAIN cfg : cfg[p].numa \in Numa
  BY EntryFacts DEF TypeOK
<1>3. \A p \in Pod : numa'[p] \in Numa \cup {Free}
  BY <1>1, <1>2 DEF TypeOK
<1>4. QED
  BY <1>1, <1>3

\* Every step of the handler keeps the types.
LEMMA EventType == ASSUME TypeOK, Pending, Event PROVE TypeOK' /\ Pending'
<1>1. CASE TakeDisabled
  <2>1. chan' \in Seq(Object) /\ Len(chan') <= ChanSize /\ Take
    BY <1>1, TakeFacts DEF TakeDisabled
  <2>2. QED
    BY <1>1, <2>1 DEF TakeDisabled, Take, TypeOK, Pending, podVars, applyVars
<1>2. CASE TakeEnabled
  <2>1. chan' \in Seq(Object) /\ Len(chan') <= ChanSize /\ Take /\ Head(chan) \in Object
    BY <1>2, TakeFacts DEF TakeEnabled
  <2>2. Head(chan).entry \in Entry
    BY <2>1 DEF Object
  <2>3. plan' \in Entry /\ todo' = DOMAIN plan' /\ todo' \subseteq Pod /\ cfg' \in Entry
    BY <1>2, <2>2, EntryFacts, NothingType DEF TakeEnabled
  <2>4. QED
    BY <1>2, <2>1, <2>3 DEF TakeEnabled, Take, TypeOK, Pending, podVars
<1>3. ASSUME NEW p \in Pod, LookUp(p)
      PROVE  TypeOK' /\ Pending'
  <2>1. cfg' \in Entry
    BY <1>3, LookUpFacts
  <2>2. QED
    BY <1>3, <2>1 DEF LookUp, TypeOK, Pending, objVars, podVars
<1>4. ASSUME NEW p \in Pod, LookUpFails(p)
      PROVE  TypeOK' /\ Pending'
  BY <1>4 DEF LookUpFails, TypeOK, Pending, objVars, podVars
<1>5. ASSUME NEW F \in SUBSET Pod, Push(F)
      PROVE  TypeOK' /\ Pending'
  <2>1. numa' \in [Pod -> Numa \cup {Free}]
    BY <1>5, PushFacts
  <2>2. QED
    BY <1>5, <2>1, NothingType DEF Push, Return, TypeOK, Pending, objVars
<1>6. QED
  BY <1>1, <1>2, <1>3, <1>4, <1>5 DEF Event

\* The containers that start have a number within the bound.
LEMMA PodType ==
    ASSUME TypeOK, Pending, NEW p \in Pod, PodStart(p) \/ PodStop(p) \/ ContainerRestart(p)
    PROVE  TypeOK' /\ Pending'
<1>1. /\ numa' = [numa EXCEPT ![p] = Free] /\ said' = [said EXCEPT ![p] = {}]
      /\ UNCHANGED <<policy, objVars, pc, fresh, plan, applyVars>>
  BY DEF PodStart, PodStop, ContainerRestart
<1>2. up' \subseteq Pod
  BY DEF PodStart, PodStop, ContainerRestart, TypeOK
<1>3. inc' \in [Pod -> Inc]
  <2>1. CASE PodStop(p)
    BY <2>1 DEF PodStop, TypeOK
  <2>2. CASE PodStart(p) \/ ContainerRestart(p)
    <3>1. inc[p] < MaxInc[p] /\ inc' = [inc EXCEPT ![p] = @ + 1]
      BY <2>2 DEF PodStart, ContainerRestart
    <3>2. inc[p] + 1 \in 0 .. MaxInc[p]
      <4>1. inc[p] \in Nat /\ MaxInc[p] \in Nat
        BY IncFacts, ReaderAssumption DEF TypeOK
      <4>2. QED
        BY <3>1, <4>1
    <3>3. inc[p] + 1 \in Inc
      BY <3>2, IncFacts
    <3>4. QED
      BY <3>1, <3>3 DEF TypeOK
  <2>3. QED
    BY <2>1, <2>2
<1>4. QED
  BY <1>1, <1>2, <1>3 DEF TypeOK, Pending, objVars, applyVars

\* Writes of others, ends of streams and restarts of the process keep the types.
LEMMA OtherType ==
    ASSUME TypeOK, Pending, Reopen \/ Environment \/ Restart
    PROVE  TypeOK' /\ Pending'
<1>1. ASSUME NEW o \in Object, Write(o, "other"), edits < MaxEdits, edits' = edits + 1,
             UNCHANGED <<policy, up, inc, numa, pc, plan, applyVars>>
      PROVE  TypeOK' /\ Pending'
  <2>1. /\ obj' \in Object /\ watch' \in {"open", "gap", "lost"} /\ fresh' = FALSE
        /\ chan' \in Seq(Object) /\ Len(chan') <= ChanSize
        /\ said' \in [Pod -> SUBSET (Numa \X {"tick", "other"})]
    BY <1>1, WriteFacts
  <2>2. edits' \in 0 .. MaxEdits
    BY <1>1, ReaderAssumption DEF TypeOK
  <2>3. QED
    BY <1>1, <2>1, <2>2 DEF TypeOK, Pending, applyVars
<1>2. ASSUME NEW o \in Object, UserApply(o)
      PROVE  TypeOK' /\ Pending'
  BY <1>1, <1>2 DEF UserApply
<1>3. CASE OtherWrite
  <2>1. obj \in Object
    BY DEF TypeOK
  <2>2. QED
    BY <1>1, <1>3, <2>1 DEF OtherWrite
<1>4. CASE Expire \/ Break
  BY <1>4 DEF Expire, Break, TypeOK, Pending, podVars, applyVars
<1>5. CASE Reopen
  <2>1. /\ chan' \in Seq(Object) /\ Len(chan') <= ChanSize
        /\ watch' \in {"open", "lost"}
    BY <1>5, SendFacts DEF Reopen, TypeOK
  <2>2. QED
    BY <1>5, <2>1 DEF Reopen, TypeOK, Pending, podVars, applyVars
<1>6. CASE Restart
  <2>1. chan' = <<obj>> /\ obj \in Object
    BY <1>6 DEF Restart, TypeOK
  <2>2. chan' \in Seq(Object) /\ Len(chan') <= ChanSize
    BY <2>1, OneEvent
  <2>3. QED
    BY <1>6, <2>2, NothingType DEF Restart, Return, TypeOK, Pending, podVars
<1>7. QED
  BY <1>2, <1>3, <1>4, <1>5, <1>6, PodType DEF Environment

\* Stuttering keeps the types.
LEMMA StutterType == ASSUME TypeOK, Pending, UNCHANGED vars PROVE TypeOK' /\ Pending'
BY DEF vars, TypeOK, Pending

\* The type invariant, with the pods to be looked up among those of the event.
THEOREM ReaderTypes == Spec => [](TypeOK /\ Pending)
<1>1. ASSUME TypeOK /\ Pending, [Next]_vars
      PROVE  (TypeOK /\ Pending)'
  BY <1>1, TickType, EventType, OtherType, StutterType DEF Next
<1>2. QED
  BY <1>1, InitType, PTL DEF Spec

\* The watch's channel never holds more than its capacity, and what the handler
\* gives the runtime is an entry for pods of the node.
THEOREM ReaderTypeOK == Spec => []TypeOK
<1>1. TypeOK /\ Pending => TypeOK
  OBVIOUS
<1>2. QED
  BY <1>1, ReaderTypes, PTL

-----------------------------------------------------------------------------
(* What copies of the object say                                           *)

\* What has been said stays said while the containers are the same.
LEMMA SaidGrows ==
    ASSUME TypeOK, UNCHANGED <<policy, up, inc>>, \A p \in Pod : said[p] \subseteq said'[p]
    PROVE  /\ \A e : NotAhead(e) => NotAhead(e)'
           /\ \A e : Backed(e) => Backed(e)'
           /\ \A o : Recorded(o) => Recorded(o)'
           /\ \A p \in Pod, n \in Numa : Told(p, n) => Told(p, n)'
<1>1. \A p \in Pod : Publishers(p)' = Publishers(p)
  BY DEF Publishers
<1>2. \A p \in Pod : \A n : Told(p, n) => Told(p, n)'
  BY <1>1 DEF Told
<1>3. \A e : NotAhead(e) => NotAhead(e)'
  BY DEF NotAhead
<1>4. \A e : Backed(e) => Backed(e)'
  BY <1>2 DEF Backed, TypeOK
<1>5. QED
  BY <1>2, <1>3, <1>4 DEF Recorded

\* A copy that is not ahead says nothing of a container that starts.
LEMMA PodKeeps ==
    ASSUME TypeOK, NEW p \in Pod, PodStart(p) \/ PodStop(p) \/ ContainerRestart(p),
           NEW e \in Entry, NotAhead(e)
    PROVE  NotAhead(e)' /\ (Backed(e) => Backed(e)')
<1>1. \A q \in Pod : inc[q] \in Nat
  BY IncFacts DEF TypeOK
<1>2. \A q \in Pod \ {p} : /\ inc'[q] = inc[q] /\ said'[q] = said[q]
                           /\ q \in up' <=> q \in up
  BY DEF PodStart, PodStop, ContainerRestart, TypeOK
<1>3. \/ inc'[p] = inc[p] + 1
      \/ inc'[p] = inc[p] /\ p \notin up'
  BY DEF PodStart, PodStop, ContainerRestart, TypeOK
<1>4. \A q \in DOMAIN e : q \in Pod /\ e[q].inc \in Nat /\ e[q].inc <= inc[q]
  BY EntryFacts DEF NotAhead
<1>5. NotAhead(e)'
  <2>1. \A q \in Pod : q = p \/ inc'[q] = inc[q]
    BY <1>2
  <2>2. \A q \in DOMAIN e : e[q].inc <= inc'[q]
    BY <1>1, <1>3, <1>4, <2>1
  <2>3. QED
    BY <2>2 DEF NotAhead
<1>6. policy' = policy
  BY DEF PodStart, PodStop, ContainerRestart
<1>7. ASSUME Backed(e), NEW q \in DOMAIN e \cap up', e[q].inc = inc'[q]
      PROVE  Told(q, e[q].numa)'
  <2>1. q # p
    BY <1>1, <1>3, <1>4, <1>7
  <2>2. q \in Pod \ {p}
    BY <1>4, <1>7, <2>1
  <2>3. q \in DOMAIN e \cap up /\ e[q].inc = inc[q] /\ said'[q] = said[q]
    BY <1>2, <1>7, <2>2
  <2>4. Told(q, e[q].numa)
    BY <1>7, <2>3 DEF Backed
  <2>5. Publishers(q)' = Publishers(q)
    BY <1>6 DEF Publishers
  <2>6. QED
    BY <2>3, <2>4, <2>5 DEF Told
<1>8. QED
  BY <1>5, <1>7 DEF Backed

\* A version that is written is recorded, if its writer may publish it.
LEMMA WriteRecorded ==
    ASSUME TypeOK, NEW o \in Object, NEW who \in {"tick", "other"}, Write(o, who),
           UNCHANGED <<policy, up, inc>>, NotAhead(o.entry),
           \A p \in Pod : Names(o, p) => who \in Publishers(p)
    PROVE  Recorded(o)'
<1>1. o.entry \in Entry /\ DOMAIN o.entry \subseteq Pod
  BY EntryFacts DEF Object
<1>2. NotAhead(o.entry)'
  BY DEF NotAhead
<1>3. ASSUME o.enable, NEW p \in DOMAIN o.entry \cap up, o.entry[p].inc = inc[p]
      PROVE  Told(p, o.entry[p].numa)'
  <2>1. p \in Pod /\ Names(o, p)
    BY <1>1, <1>3 DEF Names
  <2>2. <<o.entry[p].numa, who>> \in said'[p] /\ who \in Publishers(p)
    BY <2>1, WriteFacts
  <2>3. QED
    BY <2>2 DEF Told, Publishers
<1>4. QED
  BY <1>2, <1>3 DEF Recorded, Backed

\* A step of the handler or a tick keeps what is known of the copies, if it only
\* copies what is known.
LEMMA SoundNext ==
    ASSUME TypeOK, TypeOK', Sound, UNCHANGED <<policy, up, inc>>,
           \A p \in Pod : said[p] \subseteq said'[p],
           Recorded(obj)',
           \A i \in 1 .. Len(chan') : chan'[i] = obj' \/ Recorded(chan'[i]),
           NotAhead(plan'), pc' = "apply" => Backed(plan'), PlanNames',
           NotAhead(cfg'), Backed(cfg'),
           \A p \in up : numa'[p] \in {Free, numa[p]} \/ Told(p, numa'[p])
    PROVE  Sound'
<1>1. /\ \A e : NotAhead(e) => NotAhead(e)'
      /\ \A e : Backed(e) => Backed(e)'
      /\ \A o : Recorded(o) => Recorded(o)'
      /\ \A p \in Pod, n \in Numa : Told(p, n) => Told(p, n)'
  BY SaidGrows
<1>2. \A p \in up' : inc'[p] > 0
  BY DEF Sound
<1>3. \A i \in 1 .. Len(chan') : Recorded(chan[i])'
  BY <1>1
<1>4. NotAhead(plan)' /\ (pc' = "apply" => Backed(plan)') /\ NotAhead(cfg)' /\ Backed(cfg)'
  BY <1>1
<1>5. \A p \in up' : numa'[p] # Free => Told(p, numa[p])'
  BY <1>1 DEF Sound, TypeOK
<1>6. QED
  BY <1>2, <1>3, <1>4, <1>5 DEF Sound

\* An entry without placements is no copy of anything.
LEMMA NothingSound == NotAhead(Nothing) /\ Backed(Nothing)
BY NothingType DEF NotAhead, Backed

\* A step that leaves the object, its watch and the pods alone
LEMMA SoundHandler ==
    ASSUME TypeOK, TypeOK', Sound, UNCHANGED <<policy, obj, up, inc, said>>,
           \A i \in 1 .. Len(chan') : chan'[i] = obj' \/ Recorded(chan'[i]),
           NotAhead(plan'), pc' = "apply" => Backed(plan'), PlanNames',
           NotAhead(cfg'), Backed(cfg'),
           \A p \in up : numa'[p] \in {Free, numa[p]} \/ Told(p, numa'[p])
    PROVE  Sound'
<1>1. Recorded(obj)'
  BY SaidGrows DEF Sound, Recorded, NotAhead, Backed, Told, Publishers
<1>2. QED
  BY <1>1, SoundNext

\* A write of the object by someone who may publish what it says
LEMMA SoundWrite ==
    ASSUME TypeOK, TypeOK', Sound, NEW o \in Object, NEW who \in {"tick", "other"},
           Write(o, who), UNCHANGED <<policy, up, inc, numa, cfg>>,
           NotAhead(o.entry), \A p \in Pod : Names(o, p) => who \in Publishers(p),
           plan' \in {plan, Nothing}, pc' = pc \/ pc' = "ready"
    PROVE  Sound'
<1>1. Recorded(o)' /\ obj' = o
  BY WriteRecorded, WriteFacts
<1>2. Recorded(obj)'
  BY <1>1
<1>3. \A i \in 1 .. Len(chan') : chan'[i] = obj' \/ Recorded(chan'[i])
  BY WriteFacts DEF Sound
<1>4. NotAhead(plan') /\ (pc' = "apply" => Backed(plan')) /\ NotAhead(cfg') /\ Backed(cfg')
  BY NothingSound DEF Sound
<1>5. PlanNames'
  BY NothingType DEF Sound, PlanNames
<1>6. QED
  BY <1>2, <1>3, <1>4, <1>5, SoundNext, WriteFacts

\* A tick plans from the containers of now, and names what its policy pins.
LEMMA SoundTick == ASSUME TypeOK, TypeOK', Sound, Tick PROVE Sound'
<1>1. /\ NotAhead(plan) /\ NotAhead(cfg) /\ Backed(cfg) /\ PlanNames
      /\ \A i \in 1 .. Len(chan) : Recorded(chan[i])
  BY DEF Sound
<1>2. CASE TickRead
  <2>1. UNCHANGED <<policy, obj, up, inc, said, chan, plan, cfg, numa>> /\ pc' = "list"
    BY <1>2 DEF TickRead, objVars, podVars, applyVars
  <2>2. QED
    BY <1>1, <2>1, SoundHandler DEF PlanNames
<1>3. CASE TickList
  <2>1. UNCHANGED <<policy, obj, up, inc, said, chan, cfg, numa>> /\ pc' = "write"
    BY <1>3 DEF TickList, objVars, podVars, applyVars
  <2>2. /\ plan' \in NetPlans \/ plan' \in LbPlans
        /\ policy = "load_balance" => plan' \in LbPlans
    BY <1>3 DEF TickList
  <2>3. /\ \A p \in DOMAIN plan' : p \in Pod /\ plan'[p].inc \in {0, inc[p]}
        /\ policy = "load_balance" => \A p \in DOMAIN plan' \ Guaranteed : plan'[p].inc = 0
    BY <2>2, PlanFacts, EntryFacts
  <2>4. \A p \in Pod : inc[p] \in Nat
    BY IncFacts DEF TypeOK
  <2>5. NotAhead(plan')
    BY <2>3, <2>4 DEF NotAhead
  <2>6. PlanNames'
    BY <2>1, <2>3 DEF PlanNames
  <2>7. QED
    BY <1>1, <2>1, <2>5, <2>6, SoundHandler
<1>4. CASE TickWrite
  <2> DEFINE o == [obj EXCEPT !.entry = plan]
  <2>1. /\ pc = "write" /\ pc' = "ready" /\ plan' = Nothing
        /\ UNCHANGED <<policy, up, inc, numa, cfg>>
    BY <1>4 DEF TickWrite, Return, applyVars
  <2>2. CASE o = obj
    <3>1. UNCHANGED <<obj, said, chan>>
      BY <1>4, <2>2 DEF TickWrite
    <3>2. PlanNames'
      BY <2>1 DEF PlanNames
    <3>3. QED
      BY <1>1, <2>1, <3>1, <3>2, NothingSound, SoundHandler
  <2>3. CASE o # obj
    <3>1. Write(o, "tick")
      BY <1>4, <2>3 DEF TickWrite
    <3>2. o \in Object /\ o.entry = plan
      BY DEF TypeOK, Object
    <3>3. ASSUME NEW p \in Pod, Names(o, p) PROVE "tick" \in Publishers(p)
      <4>1. p \in up /\ p \in DOMAIN plan /\ plan[p].inc = inc[p]
        BY <3>2, <3>3 DEF Names
      <4>2. inc[p] # 0
        BY <4>1 DEF Sound
      <4>3. policy = "load_balance" => p \in Guaranteed
        BY <1>1, <2>1, <4>1, <4>2 DEF PlanNames
      <4>4. QED
        BY <4>3 DEF Publishers
    <3> HIDE DEF o
    <3>4. QED
      BY <1>1, <2>1, <3>1, <3>2, <3>3, SoundWrite
  <2>4. QED
    BY <2>2, <2>3
<1>5. CASE TickFail
  <2>1. /\ UNCHANGED <<policy, obj, up, inc, said, chan, cfg, numa>>
        /\ pc' = "ready" /\ plan' = Nothing
    BY <1>5 DEF TickFail, Return, objVars, podVars, applyVars
  <2>2. PlanNames'
    BY <2>1 DEF PlanNames
  <2>3. QED
    BY <1>1, <2>1, <2>2, NothingSound, SoundHandler
<1>6. QED
  BY <1>2, <1>3, <1>4, <1>5 DEF Tick

\* The handler copies the event's entry, and gives the runtime parts of it.
LEMMA SoundEvent == ASSUME TypeOK, Pending, TypeOK', Sound, Event PROVE Sound'
<1>1. /\ NotAhead(plan) /\ NotAhead(cfg) /\ Backed(cfg) /\ PlanNames
      /\ \A i \in 1 .. Len(chan) : Recorded(chan[i])
  BY DEF Sound
<1>2. ASSUME Take
      PROVE  /\ UNCHANGED <<policy, obj, up, inc, said, numa>>
             /\ Recorded(Head(chan))
             /\ \A i \in 1 .. Len(chan') : Recorded(chan'[i])
  <2>1. UNCHANGED <<policy, obj, up, inc, said, numa>>
    BY <1>2 DEF Take, podVars
  <2>2. Recorded(Head(chan)) /\ \A i \in 1 .. Len(chan') : Recorded(chan'[i])
    BY <1>1, <1>2, TakeFacts
  <2>3. QED
    BY <2>1, <2>2
<1>3. CASE TakeDisabled
  <2>1. Take /\ pc = "ready" /\ UNCHANGED <<pc, plan, cfg>>
    BY <1>3 DEF TakeDisabled, Take, applyVars
  <2>2. PlanNames'
    BY <2>1 DEF PlanNames
  <2>3. QED
    BY <1>1, <1>2, <2>1, <2>2, SoundHandler
<1>4. CASE TakeEnabled
  <2>1. /\ Take /\ pc' = "apply" /\ plan' = Head(chan).entry /\ cfg' = Nothing
        /\ Head(chan).enable
    BY <1>4 DEF TakeEnabled
  <2>2. NotAhead(plan') /\ Backed(plan')
    BY <1>2, <2>1 DEF Recorded
  <2>3. PlanNames'
    BY <2>1 DEF PlanNames
  <2>4. QED
    BY <1>1, <1>2, <2>1, <2>2, <2>3, NothingSound, SoundHandler
<1>5. ASSUME NEW p \in Pod, LookUp(p)
      PROVE  Sound'
  <2>1. /\ UNCHANGED <<policy, obj, up, inc, said, numa, chan, plan, pc>>
        /\ pc = "apply"
    BY <1>5 DEF LookUp, objVars, podVars
  <2>2. PlanNames' /\ Backed(plan)
    BY <2>1 DEF PlanNames, Sound
  <2>3. \A q \in DOMAIN cfg' : \/ q \in DOMAIN cfg /\ cfg'[q] = cfg[q]
                               \/ q = p /\ cfg'[q] = plan[p] /\ p \in DOMAIN plan
    BY <1>5, LookUpFacts
  <2>4. NotAhead(cfg') /\ Backed(cfg')
    BY <1>1, <2>2, <2>3 DEF NotAhead, Backed
  <2>5. QED
    BY <1>1, <2>1, <2>2, <2>4, SoundHandler
<1>6. ASSUME NEW p \in Pod, LookUpFails(p)
      PROVE  Sound'
  <2>1. /\ UNCHANGED <<policy, obj, up, inc, said, numa, chan, plan, cfg, pc>>
        /\ pc = "apply"
    BY <1>6 DEF LookUpFails, objVars, podVars
  <2>2. PlanNames' /\ Backed(plan)
    BY <2>1 DEF PlanNames, Sound
  <2>3. QED
    BY <1>1, <2>1, <2>2, SoundHandler
<1>7. ASSUME NEW F \in SUBSET Pod, Push(F)
      PROVE  Sound'
  <2>1. /\ UNCHANGED <<policy, obj, up, inc, said, chan>>
        /\ pc' = "ready" /\ plan' = Nothing /\ cfg' = Nothing
    BY <1>7 DEF Push, Return, objVars
  <2>2. PlanNames'
    BY <2>1 DEF PlanNames
  <2>3. \A p \in up : \/ numa'[p] = numa[p]
                      \/ /\ p \in DOMAIN cfg \cap up /\ cfg[p].inc = inc[p]
                         /\ numa'[p] = cfg[p].numa
    BY <1>7, PushFacts DEF TypeOK
  <2>4. \A p \in up : numa'[p] \in {Free, numa[p]} \/ Told(p, numa'[p])
    BY <1>1, <2>3 DEF Backed
  <2>5. QED
    BY <1>1, <2>1, <2>2, <2>4, NothingSound, SoundHandler
<1>8. QED
  BY <1>3, <1>4, <1>5, <1>6, <1>7 DEF Event

\* A container that starts or stops is named by no copy, and has no CPUs yet.
LEMMA SoundPod ==
    ASSUME TypeOK, TypeOK', Sound,
           NEW p \in Pod, PodStart(p) \/ PodStop(p) \/ ContainerRestart(p)
    PROVE  Sound'
<1>1. /\ UNCHANGED <<policy, obj, chan, pc, plan, cfg>>
      /\ numa' = [numa EXCEPT ![p] = Free] /\ said' = [said EXCEPT ![p] = {}]
  BY DEF PodStart, PodStop, ContainerRestart, objVars, applyVars
<1>2. \A q \in Pod \ {p} : /\ inc'[q] = inc[q] /\ said'[q] = said[q] /\ numa'[q] = numa[q]
                           /\ q \in up' <=> q \in up
  BY DEF PodStart, PodStop, ContainerRestart, TypeOK
<1>3. \A e \in Entry : NotAhead(e) => NotAhead(e)' /\ (Backed(e) => Backed(e)')
  BY PodKeeps
<1>4. \A o \in Object : Recorded(o) => Recorded(o)'
  BY <1>3 DEF Recorded, Object
<1>5. Recorded(obj)' /\ \A i \in 1 .. Len(chan') : Recorded(chan[i])'
  <2>1. obj \in Object /\ \A i \in 1 .. Len(chan) : chan[i] \in Object
    BY DEF TypeOK
  <2>2. QED
    BY <1>1, <1>4, <2>1 DEF Sound
<1>6. /\ NotAhead(plan)' /\ (pc' = "apply" => Backed(plan)')
      /\ NotAhead(cfg)' /\ Backed(cfg)'
  BY <1>1, <1>3 DEF Sound, TypeOK
<1>7. PlanNames'
  BY <1>1 DEF Sound, PlanNames
<1>8. \A q \in up' : inc'[q] > 0
  <2>1. \A q \in Pod : inc[q] \in Nat
    BY IncFacts DEF TypeOK
  <2>2. p \in up' => inc'[p] = inc[p] + 1
    BY DEF PodStart, PodStop, ContainerRestart, TypeOK
  <2>3. QED
    BY <1>2, <2>1, <2>2, SMTT(30) DEF Sound, TypeOK
<1>9. \A q \in up' : numa'[q] # Free => Told(q, numa[q])'
  <2> SUFFICES ASSUME NEW q \in up', numa'[q] # Free
               PROVE  Told(q, numa[q])'
    OBVIOUS
  <2>1. q \in Pod \ {p}
    BY <1>1 DEF TypeOK
  <2>2. q \in up /\ numa'[q] = numa[q] /\ said'[q] = said[q]
    BY <1>2, <2>1
  <2>3. Told(q, numa[q])
    BY <2>2 DEF Sound
  <2>4. Publishers(q)' = Publishers(q)
    BY <1>1 DEF Publishers
  <2>5. QED
    BY <2>2, <2>3, <2>4 DEF Told
<1>10. QED
  BY <1>5, <1>6, <1>7, <1>8, <1>9 DEF Sound

\* Others may publish everything, and a new stream or process knows the object.
LEMMA SoundOther ==
    ASSUME TypeOK, TypeOK', Sound, Reopen \/ Environment \/ Restart
    PROVE  Sound'
<1>1. /\ NotAhead(plan) /\ NotAhead(cfg) /\ Backed(cfg) /\ PlanNames
      /\ \A i \in 1 .. Len(chan) : Recorded(chan[i])
      /\ Recorded(obj) /\ (pc = "apply" => Backed(plan))
  BY DEF Sound
<1>2. \A p \in Pod : "other" \in Publishers(p)
  BY DEF Publishers
<1>3. ASSUME NEW o \in Object, UserApply(o)
      PROVE  Sound'
  <2>1. /\ Write(o, "other") /\ UNCHANGED <<policy, up, inc, numa, cfg, plan, pc>>
        /\ \A p \in DOMAIN o.entry : p \in up /\ o.entry[p].inc \in {0, inc[p]}
    BY <1>3 DEF UserApply, applyVars
  <2>2. \A p \in up : inc[p] \in Nat
    BY IncFacts DEF TypeOK
  <2>3. NotAhead(o.entry)
    BY <2>1, <2>2 DEF NotAhead
  <2>4. QED
    BY <1>2, <2>1, <2>3, SoundWrite
<1>4. CASE OtherWrite
  <2>1. Write(obj, "other") /\ UNCHANGED <<policy, up, inc, numa, cfg, plan, pc>>
    BY <1>4 DEF OtherWrite, applyVars
  <2>2. obj \in Object /\ NotAhead(obj.entry)
    BY <1>1 DEF Recorded, TypeOK
  <2>3. QED
    BY <1>2, <2>1, <2>2, SoundWrite
<1>5. CASE Expire \/ Break
  <2>1. UNCHANGED <<policy, obj, up, inc, said, chan, numa, plan, cfg, pc>>
    BY <1>5 DEF Expire, Break, podVars, applyVars
  <2>2. PlanNames'
    BY <1>1, <2>1 DEF PlanNames
  <2>3. QED
    BY <1>1, <2>1, <2>2, SoundHandler
<1>6. CASE Reopen
  <2>1. UNCHANGED <<policy, obj, up, inc, said, numa, plan, cfg, pc>> /\ Send(obj)
    BY <1>6 DEF Reopen, podVars, applyVars
  <2>2. \A i \in 1 .. Len(chan') : chan'[i] = obj' \/ Recorded(chan'[i])
    BY <1>1, <2>1, SendFacts DEF TypeOK
  <2>3. PlanNames'
    BY <1>1, <2>1 DEF PlanNames
  <2>4. QED
    BY <1>1, <2>1, <2>2, <2>3, SoundHandler
<1>7. CASE Restart
  <2>1. /\ UNCHANGED <<policy, obj, up, inc, said, numa>>
        /\ pc' = "ready" /\ plan' = Nothing /\ cfg' = Nothing /\ chan' = <<obj>>
    BY <1>7 DEF Restart, Return, podVars
  <2>2. \A i \in 1 .. Len(chan') : chan'[i] = obj' \/ Recorded(chan'[i])
    BY <2>1
  <2>3. PlanNames'
    BY <2>1 DEF PlanNames
  <2>4. QED
    BY <2>1, <2>2, <2>3, NothingSound, SoundHandler
<1>8. QED
  BY <1>3, <1>4, <1>5, <1>6, <1>7, SoundPod DEF Environment

\* Stuttering keeps what is known of the copies.
LEMMA SoundStutter == ASSUME TypeOK, TypeOK', Sound, UNCHANGED vars PROVE Sound'
<1>1. UNCHANGED <<policy, obj, up, inc, said, numa, chan, plan, cfg, pc>>
  BY DEF vars
<1>2. PlanNames'
  BY <1>1 DEF Sound, PlanNames
<1>3. QED
  BY <1>1, <1>2, SoundHandler DEF Sound

\* Nothing is copied at the start.
LEMMA SoundInit == Init => Sound
<1> SUFFICES ASSUME Init PROVE Sound
  OBVIOUS
<1>1. /\ obj.entry = Nothing /\ plan = Nothing /\ cfg = Nothing /\ up = {}
      /\ pc = "ready" /\ chan = <<obj>>
  BY DEF Init
<1>2. Recorded(obj) /\ \A i \in 1 .. Len(chan) : chan[i] = obj
  BY <1>1, NothingSound DEF Recorded
<1>3. QED
  BY <1>1, <1>2, NothingSound DEF Sound, PlanNames

\* No copy names a container that is not there yet, and what a copy says of one
\* that runs was published for it, by someone who may.
THEOREM CopiesSound == Spec => []Sound
<1>1. ASSUME Sound, TypeOK, Pending, TypeOK', [Next]_vars
      PROVE  Sound'
  BY <1>1, SoundTick, SoundEvent, SoundOther, SoundStutter DEF Next
<1>2. QED
  BY <1>1, SoundInit, ReaderTypes, PTL DEF Spec

\* A container only ever has CPUs that the object gave to that very container.
THEOREM PinsOnlyNamed == Spec => []OnlyNamed
<1>1. Sound => OnlyNamed
  BY DEF Sound, OnlyNamed, Told, Publishers
<1>2. QED
  BY <1>1, CopiesSound, PTL

\* Under load balancing no tick ever pins a pod that is not Guaranteed.
THEOREM SharedStaysUnpinned == Spec => []SharedNotPinned
<1>1. Sound => SharedNotPinned
  BY DEF Sound, SharedNotPinned, Told, Publishers
<1>2. QED
  BY <1>1, CopiesSound, PTL

-----------------------------------------------------------------------------
(* The runtime follows the object                                          *)

\* Settled and Applying ask nothing of a watch that is not open or has events.
LEMMA FollowsLater ==
    ASSUME watch' = "open" => chan' # <<>> /\ chan'[Len(chan')] = obj'
    PROVE  Following'
BY DEF Following, Latest, Applying, Settled

\* A step that changes nothing Following is about, but where the tick is
LEMMA FollowsTick ==
    ASSUME Following, UNCHANGED <<obj, watch, chan, up, inc, numa, missed, todo, cfg>>,
           pc \in {"ready", "list", "write"}, pc' \in {"ready", "list", "write"}
    PROVE  Following'
<1>1. Latest'
  BY DEF Following, Latest
<1>2. Applying'
  BY DEF Applying
<1>3. Settled'
  BY DEF Following, Settled, Named, Names
<1>4. QED
  BY <1>1, <1>2, <1>3 DEF Following

\* A tick writes through the watch.
LEMMA TickFollows == ASSUME TypeOK, Following, Tick PROVE Following'
<1>1. CASE TickRead \/ TickList \/ TickFail
  BY <1>1, FollowsTick
     DEF TickRead, TickList, TickFail, Return, objVars, podVars, applyVars
<1>2. CASE TickWrite
  <2> DEFINE o == [obj EXCEPT !.entry = plan]
  <2>1. CASE o = obj
    BY <1>2, <2>1, FollowsTick DEF TickWrite, Return, applyVars
  <2>2. CASE o # obj
    <3>1. Write(o, "tick") /\ o \in Object
      BY <1>2, <2>2 DEF TickWrite, TypeOK, Object
    <3> HIDE DEF o
    <3>2. watch' = "open" => chan' # <<>> /\ chan'[Len(chan')] = obj'
      BY <3>1, WriteFacts
    <3>3. QED
      BY <3>2, FollowsLater
  <2>3. QED
    BY <2>1, <2>2
<1>3. QED
  BY <1>1, <1>2 DEF Tick

\* Taking an event leaves the later ones, the last of which is the object.
LEMMA TakeFollows ==
    ASSUME TypeOK, Following, TakeDisabled \/ TakeEnabled
    PROVE  Following'
<1>1. /\ Take /\ UNCHANGED <<obj, watch, up, inc, numa>>
      /\ pc = "ready" /\ chan # <<>>
  BY DEF TakeDisabled, TakeEnabled, Take, podVars
<1>2. watch = "open" => chan[Len(chan)] = obj
  BY <1>1 DEF Following, Latest
<1>3. Latest'
  BY <1>1, <1>2, TakeFacts DEF Latest
<1>4. watch' = "open" /\ chan' = <<>> => Head(chan) = obj
  BY <1>1, <1>2, TakeFacts
<1>5. CASE TakeDisabled
  <2>1. pc' = "ready" /\ ~Head(chan).enable
    BY <1>1, <1>5 DEF TakeDisabled
  <2>2. Applying'
    BY <2>1 DEF Applying
  <2>3. Settled'
    BY <1>1, <1>4, <2>1 DEF Settled, Named, Names
  <2>4. QED
    BY <1>3, <2>2, <2>3 DEF Following
<1>6. CASE TakeEnabled
  <2>1. /\ pc' = "apply" /\ Head(chan).enable /\ plan' = Head(chan).entry
        /\ todo' = DOMAIN plan'
    BY <1>6 DEF TakeEnabled
  <2>2. Applying'
    BY <1>1, <1>4, <2>1 DEF Applying, Kept, Named, Names
  <2>3. Settled'
    BY <2>1 DEF Settled
  <2>4. QED
    BY <1>3, <2>2, <2>3 DEF Following
<1>7. QED
  BY <1>5, <1>6

\* A pod that has been looked up is in the update, if the object names its container.
LEMMA LookUpFollows ==
    ASSUME TypeOK, Pending, Sound, Following,
           NEW p \in Pod, LookUp(p) \/ LookUpFails(p)
    PROVE  Following'
<1>1. /\ UNCHANGED <<obj, watch, chan, up, inc, pc, plan>> /\ pc = "apply"
      /\ todo' = todo \ {p}
  BY DEF LookUp, LookUpFails, objVars, podVars
<1> missed => missed'
  BY DEF LookUp, LookUpFails, TypeOK
<1>2. Latest' /\ Settled'
  BY <1>1 DEF Following, Latest, Settled
<1>3. ASSUME chan' = <<>>, watch' = "open", ~missed'
      PROVE  Kept'
  <2>1. obj.enable /\ plan = obj.entry /\ Kept
    BY <1>1, <1>3 DEF Following, Applying
  <2> SUFFICES ASSUME NEW q \in Pod \ todo', Named(q)'
               PROVE  q \in DOMAIN cfg' /\ cfg'[q] = plan'[q]
    BY DEF Kept
  <2>2. Named(q) /\ q \in DOMAIN plan /\ plan[q].inc = inc[q] /\ inc[q] > 0 /\ q \in up
    BY <1>1, <2>1 DEF Named, Names, Sound
  <2> plan[q].inc # 0
    BY <2>2
  <2>3. CASE LookUpFails(p)
    <3>1. p \notin up /\ cfg' = cfg
      BY <1>3, <2>3 DEF LookUpFails
    <3>2. q \in Pod \ todo
      BY <1>1, <2>2, <3>1
    <3>3. QED
      BY <1>1, <2>1, <2>2, <3>1, <3>2 DEF Kept
  <2>4. CASE LookUp(p)
    <3>1. CASE q = p
      BY <1>1, <2>2, <2>4, <3>1, LookUpFacts
    <3>2. CASE q # p
      <4>1. q \in DOMAIN cfg /\ cfg[q] = plan[q]
        BY <1>1, <2>1, <2>2, <3>2 DEF Kept
      <4>2. QED
        BY <1>1, <2>4, <3>2, <4>1, LookUpFacts
    <3>3. QED
      BY <3>1, <3>2
  <2>5. QED
    BY <2>3, <2>4
<1>4. Applying'
  BY <1>1, <1>3 DEF Following, Applying
<1>5. QED
  BY <1>2, <1>4 DEF Following

\* The runtime is told of every container that the object names.
LEMMA PushFollows ==
    ASSUME TypeOK, Following, NEW F \in SUBSET Pod, Push(F)
    PROVE  Following'
<1>1. /\ UNCHANGED <<obj, watch, chan, up, inc>> /\ pc = "apply" /\ pc' = "ready"
      /\ todo = {} /\ missed' = (missed \/ F # {})
  BY DEF Push, Return, objVars
<1>2. Latest' /\ Applying'
  BY <1>1 DEF Following, Latest, Applying
<1>3. ASSUME chan = <<>>, watch = "open", ~missed', NEW p \in Pod, Named(p)
      PROVE  numa'[p] = obj.entry[p].numa
  <2>1. plan = obj.entry /\ F = {} /\ Kept
    BY <1>1, <1>3 DEF Following, Applying
  <2>2. p \in DOMAIN cfg /\ cfg[p] = plan[p]
    BY <1>1, <1>3, <2>1 DEF Kept
  <2>3. p \in up /\ plan[p].inc = inc[p]
    BY <1>3, <2>1 DEF Named, Names
  <2>4. QED
    BY <2>1, <2>2, <2>3, PushFacts
<1>4. Settled'
  BY <1>1, <1>3 DEF Settled, Named, Names
<1>5. QED
  BY <1>2, <1>4 DEF Following

\* The object names no container that has just started or stopped.
LEMMA PodFollows ==
    ASSUME TypeOK, Sound, Following,
           NEW p \in Pod, PodStart(p) \/ PodStop(p) \/ ContainerRestart(p)
    PROVE  Following'
<1>1. /\ UNCHANGED <<obj, watch, chan, pc, plan, cfg, todo, missed>>
      /\ numa' = [numa EXCEPT ![p] = Free]
  BY DEF PodStart, PodStop, ContainerRestart, objVars, applyVars
<1>2. \A q \in Pod \ {p} : Named(q)' => Named(q) /\ numa'[q] = numa[q]
  BY <1>1 DEF PodStart, PodStop, ContainerRestart, TypeOK, Named, Names
<1>3. ~Named(p)'
  <2>1. p \notin up' \/ inc'[p] = inc[p] + 1
    BY DEF PodStart, PodStop, ContainerRestart, TypeOK
  <2>2. inc[p] \in Nat
    BY IncFacts DEF TypeOK
  <2>3. p \in DOMAIN obj.entry => obj.entry[p].inc \in Nat /\ obj.entry[p].inc <= inc[p]
    BY EntryFacts DEF Sound, Recorded, NotAhead, TypeOK, Object
  <2>4. QED
    BY <1>1, <2>1, <2>2, <2>3 DEF Named, Names
<1>4. Latest'
  BY <1>1 DEF Following, Latest
<1>5. Applying'
  <2>1. Kept => Kept'
    BY <1>1, <1>2, <1>3 DEF Kept
  <2>2. QED
    BY <1>1, <2>1 DEF Following, Applying
<1>6. Settled'
  BY <1>1, <1>2, <1>3 DEF Following, Settled
<1>7. QED
  BY <1>4, <1>5, <1>6 DEF Following

\* Every other step either is an event or ends the watch.
LEMMA OtherFollows ==
    ASSUME TypeOK, Sound, Following, Reopen \/ Environment \/ Restart
    PROVE  Following'
<1>1. ASSUME NEW o \in Object, Write(o, "other")
      PROVE  Following'
  <2>1. watch' = "open" => chan' # <<>> /\ chan'[Len(chan')] = obj'
    BY <1>1, WriteFacts
  <2>2. QED
    BY <2>1, FollowsLater
<1>2. CASE OtherWrite \/ \E o \in Object : UserApply(o)
  BY <1>1, <1>2 DEF OtherWrite, UserApply, TypeOK
<1>3. CASE Expire \/ Break
  BY <1>3, FollowsLater DEF Expire, Break
<1>4. CASE Reopen
  <2>1. Send(obj) /\ obj \in Object /\ obj' = obj
    BY <1>4 DEF Reopen, TypeOK
  <2>2. watch' = "open" => chan' # <<>> /\ chan'[Len(chan')] = obj'
    BY <2>1, SendFacts
  <2>3. QED
    BY <2>2, FollowsLater
<1>5. CASE Restart
  <2>1. chan' = <<obj>> /\ obj' = obj
    BY <1>5 DEF Restart
  <2>2. QED
    BY <2>1, FollowsLater
<1>6. QED
  BY <1>2, <1>3, <1>4, <1>5, PodFollows DEF Environment

\* Stuttering loses nothing.
LEMMA StutterFollows == ASSUME Following, UNCHANGED vars PROVE Following'
BY DEF vars, Following, Latest, Applying, Settled, Kept, Named, Names

\* At the start the object names nothing and waits in the channel.
LEMMA InitFollows == Init => Following
<1> SUFFICES ASSUME Init PROVE Following
  OBVIOUS
<1>1. chan = <<obj>> /\ chan # <<>> /\ pc = "ready"
  BY DEF Init
<1>2. QED
  BY <1>1 DEF Following, Latest, Applying, Settled

\* The last copy of an open watch is the object, and the handler that applies it
\* forgets no container.
THEOREM ReaderFollows == Spec => []Following
<1>1. ASSUME Following, TypeOK, Pending, Sound, [Next]_vars
      PROVE  Following'
  BY <1>1, TickFollows, TakeFollows, LookUpFollows, PushFollows, OtherFollows,
     StutterFollows DEF Next, Event
<1>2. QED
  BY <1>1, InitFollows, ReaderTypes, CopiesSound, PTL DEF Spec

\* With nothing left to apply and no update lost, the containers that the object
\* names are where it says, however old the copies were that got them there.
THEOREM SettlesToObject == Spec => []Settled
<1>1. Following => Settled
  BY DEF Following
<1>2. QED
  BY <1>1, ReaderFollows, PTL
=============================================================================
