--------------------------- MODULE CpuAllocProof ---------------------------
(***************************************************************************)
(* Proofs about CpuAlloc, for every machine and every list of pods.        *)
(***************************************************************************)
EXTENDS CpuAlloc, FiniteSetTheorems, TLAPS

-----------------------------------------------------------------------------
(* Arithmetic of the flat CPU index                                        *)

\* An index of allCpus is a NUMA node and a place in its cpuset.
LEMMA IndexIsCpu ==
    ASSUME NEW x \in Nat, NEW c \in Nat \ {0}, NEW n \in Nat, x < n * c
    PROVE  x \div c \in 0 .. n - 1 /\ x % c \in 0 .. c - 1
OBVIOUS

\* The NUMA node of an index that may be one too large.
LEMMA NodeOfIndex ==
    ASSUME NEW x \in Nat, NEW c \in Nat \ {0}, NEW n \in Nat, x <= n * c
    PROVE  /\ x \div c \in 0 .. n
           /\ x \div c = n => x = n * c
           /\ x \div c \in 0 .. n * c
           /\ x \div c < (x \div c + 1) * c
<1>1. x \div c \in 0 .. n /\ (x \div c = n => x = n * c)
  OBVIOUS
<1>2. x \div c <= x /\ n * c \in Nat
  OBVIOUS
<1>3. \A k \in Nat : k < (k + 1) * c
  OBVIOUS
<1> QED BY <1>1, <1>2, <1>3

\* The index of the o-th CPU of node k.
LEMMA IndexOfCpu ==
    ASSUME NEW c \in Nat \ {0}, NEW n \in Nat, NEW k \in 0 .. n - 1, NEW o \in 0 .. c - 1
    PROVE  /\ k * c + o \in 0 .. n * c - 1
           /\ (k * c + o) \div c = k
           /\ (k * c + o) % c = o
<1>1. k * c + o \in Nat /\ k * c + o < n * c
  <2>1. k * c \in Nat /\ (k + 1) * c <= n * c /\ (k + 1) * c = k * c + c
    OBVIOUS
  <2>2. n * c \in Nat /\ (k + 1) * c \in Nat
    OBVIOUS
  <2> QED BY <2>1, <2>2
<1>2. (k * c + o) \div c = k /\ (k * c + o) % c = o
  OBVIOUS
<1> QED BY <1>1, <1>2

\* The nodes before n end at its first index.
LEMMA NodesFit ==
    ASSUME NEW c \in Nat \ {0}, NEW n \in Nat, NEW k \in 0 .. n - 1
    PROVE  /\ (k + 1) * c \in 0 .. n * c
           /\ k * c \in Nat
           /\ k * c < (k + 1) * c
           /\ k < (k + 1) * c
           /\ n <= n * c
OBVIOUS

-----------------------------------------------------------------------------
(* The two steps of every action: a pod is placed, a CPU is given          *)

\* What a new pod leaves alone.
LEMMA PlaceKeeps ==
    ASSUME TypeOK, Ready,
           NEW k \in 0 .. N, NEW g \in BOOLEAN, NEW r \in 0 .. MaxReq,
           NEW S \in SUBSET Cpu, Place(k, g, r, S)
    PROVE  /\ placed' \in Seq(Placement)
           /\ Last' = Last + 1 /\ Last \in Nat
           /\ Last' <= MaxPods
           /\ left' \in 0 .. MaxReq
           /\ placed'[Last'].numa = k
           /\ \A i \in 1 .. Last : placed'[i] = placed[i]
<1> DEFINE e == [numa |-> k, guaranteed |-> g, req |-> r, cpus |-> S, spilled |-> FALSE]
<1>1. e \in Placement
  BY DEF Placement
<1>2. placed \in Seq(Placement) /\ placed' = Append(placed, e) /\ e.numa = k
  BY DEF TypeOK, Place
<1> HIDE DEF e
<1>3. Len(placed) < MaxPods /\ left' \in 0 .. MaxReq
  BY AllocAssumption DEF Ready, Place
<1> QED BY <1>1, <1>2, <1>3, AllocAssumption DEF Last

\* What a pod that gets a CPU leaves alone.
LEMMA GiveKeeps ==
    ASSUME TypeOK, left > 0, Last > 0, NEW c \in Cpu, Give(c)
    PROVE  /\ placed' \in Seq(Placement)
           /\ Last' = Last
           /\ \A i \in 1 .. Last : placed'[i].numa = placed[i].numa
           /\ left' \in 0 .. MaxReq
           /\ use' \in [Cpu -> Nat]
           /\ use' = [use EXCEPT ![c] = use[c] + 1]
<1> DEFINE b == policy = "load_balance" /\ ~InNode
           q == [placed[Last] EXCEPT !.cpus = placed[Last].cpus \cup {c}, !.spilled = b]
<1>1. placed \in Seq(Placement) /\ Last \in 1 .. Len(placed)
  BY DEF TypeOK, Last
<1>2. placed[Last] \in Placement
  BY <1>1
<1>3. b \in BOOLEAN
  OBVIOUS
<1>4. q \in Placement /\ q.numa = placed[Last].numa
  <2> HIDE DEF b
  <2> QED BY <1>2, <1>3 DEF Placement
<1>5. placed' = [placed EXCEPT ![Last] = q]
  BY <1>1, <1>2 DEF Give, Placement
<1>6. left' \in 0 .. MaxReq /\ use' = [use EXCEPT ![c] = use[c] + 1] /\ use' \in [Cpu -> Nat]
  BY AllocAssumption DEF TypeOK, Give
<1> HIDE DEF q, b
<1>7. placed' \in Seq(Placement) /\ Len(placed') = Len(placed)
  BY <1>1, <1>4, <1>5
<1>8. \A i \in 1 .. Last : placed'[i].numa = placed[i].numa
  BY <1>1, <1>4, <1>5 DEF Last
<1> QED BY <1>6, <1>7, <1>8 DEF Last

-----------------------------------------------------------------------------
(* The steps of load balancing                                             *)

\* A Guaranteed pod starts where the index is.
LEMMA LbGuaranteedKeeps ==
    ASSUME AllocInv, NEW r \in 0 .. MaxReq, LbGuaranteed(r)
    PROVE  AllocInv'
<1>1. /\ next \div C \in 0 .. N
      /\ next \div C = N => next = N * C
      /\ next \div C \in 0 .. N * C
      /\ next \div C < (next \div C + 1) * C
  <2>1. next \in Nat /\ next <= N * C
    BY AllocAssumption DEF AllocInv, TypeOK
  <2> QED BY <2>1, AllocAssumption, NodeOfIndex
<1>2. /\ placed' \in Seq(Placement)
      /\ Last' = Last + 1 /\ Last \in Nat
      /\ Last' <= MaxPods
      /\ left' \in 0 .. MaxReq
      /\ placed'[Last'].numa = next \div C
      /\ \A i \in 1 .. Last : placed'[i] = placed[i]
  <2> DEFINE k == next \div C
  <2>1. TypeOK /\ Ready /\ k \in 0 .. N /\ {} \in SUBSET Cpu /\ Place(k, TRUE, r, {})
    BY <1>1 DEF AllocInv, LbGuaranteed
  <2> HIDE DEF k
  <2>2. /\ placed' \in Seq(Placement)
        /\ Last' = Last + 1 /\ Last \in Nat
        /\ Last' <= MaxPods
        /\ left' \in 0 .. MaxReq
        /\ placed'[Last'].numa = k
        /\ \A i \in 1 .. Last : placed'[i] = placed[i]
    BY <2>1, PlaceKeeps
  <2> QED BY <2>2 DEF k
<1>3. TypeOK'
  BY <1>1, <1>2 DEF LbGuaranteed, Last, AllocInv, TypeOK
<1>4. LbInv'
  BY <1>1, <1>2 DEF LbGuaranteed, LbInv, AllCpus, AllocInv
<1>5. NetInv'
  BY DEF LbGuaranteed, NetInv, AllocInv
<1> QED BY <1>2, <1>3, <1>4, <1>5 DEF AllocInv

\* A pod of another class moves no index but its own.
LEMMA LbSharedKeeps == ASSUME AllocInv, LbShared PROVE AllocInv'
<1>1. next \div C \in 0 .. N * C
  <2>1. next \in Nat /\ next <= N * C
    BY AllocAssumption DEF AllocInv, TypeOK
  <2> QED BY <2>1, AllocAssumption, NodeOfIndex
<1>2. shared \in Numa /\ (shared + 1) % N \in Numa
  BY AllocAssumption DEF Numa, AllocInv, TypeOK
<1>3. shared \in 0 .. N /\ shared # N /\ {shared} \X Offset \in SUBSET Cpu /\ 0 \in 0 .. MaxReq
  BY <1>2, AllocAssumption DEF Numa, Cpu
<1>4. /\ placed' \in Seq(Placement)
      /\ Last' = Last + 1 /\ Last \in Nat
      /\ Last' <= MaxPods
      /\ placed'[Last'].numa = shared
      /\ \A i \in 1 .. Last : placed'[i] = placed[i]
  BY <1>3, PlaceKeeps DEF LbShared, AllocInv
<1>5. left' = 0
  BY DEF LbShared, Place
<1>6. TypeOK'
  BY <1>1, <1>2, <1>4, <1>5, AllocAssumption DEF LbShared, Last, AllocInv, TypeOK
<1>7. LbInv'
  BY <1>3, <1>4, <1>5 DEF LbShared, LbInv, AllCpus, AllocInv
<1>8. NetInv'
  BY DEF LbShared, NetInv, AllocInv
<1> QED BY <1>4, <1>5, <1>6, <1>7, <1>8 DEF AllocInv

\* The index passes a CPU only when it is handed out.
LEMMA LbNextKeeps == ASSUME AllocInv, LbNext PROVE AllocInv'
<1> DEFINE c == AllCpus(next)
<1>1. c \in Cpu
  <2>1. next \in Nat /\ next < N * C
    BY AllocAssumption DEF LbNext, AllocInv, TypeOK
  <2> QED BY <2>1, AllocAssumption, IndexIsCpu DEF AllCpus, Cpu, Numa, Offset
<1>2. TypeOK /\ left > 0 /\ Last > 0 /\ Give(c)
  BY DEF LbNext, AllocInv
<1> HIDE DEF c
<1>3. /\ placed' \in Seq(Placement)
      /\ Last' = Last
      /\ \A i \in 1 .. Last : placed'[i].numa = placed[i].numa
      /\ left' \in 0 .. MaxReq
      /\ use' \in [Cpu -> Nat]
      /\ use' = [use EXCEPT ![c] = use[c] + 1]
  BY <1>1, <1>2, GiveKeeps
<1>4. /\ UNCHANGED <<policy, shared, crashed, over, idx>> /\ next' = next + 1
      /\ next < N * C /\ next # N * C /\ 0 .. next' - 1 = 0 .. next
  <2>1. next \in Nat /\ N * C \in Nat
    BY AllocAssumption DEF AllocInv, TypeOK
  <2> QED BY <2>1 DEF LbNext, Give
<1>5. TypeOK'
  BY <1>3, <1>4, AllocAssumption DEF Last, AllocInv, TypeOK
<1>6. LbInv'
  <2>1. \A i \in 0 .. next : use'[AllCpus(i)] > 0
    <3> SUFFICES ASSUME NEW i \in 0 .. next PROVE use'[AllCpus(i)] > 0
      OBVIOUS
    <3>1. AllCpus(i) \in Cpu
      <4>1. i \in Nat /\ i < N * C
        BY <1>4, AllocAssumption DEF AllocInv, TypeOK
      <4> QED BY <4>1, AllocAssumption, IndexIsCpu DEF AllCpus, Cpu, Numa, Offset
    <3>2. i # next => use[AllCpus(i)] > 0
      BY DEF LbNext, LbInv, AllocInv, TypeOK
    <3>3. CASE i = next
      BY <3>3, <1>1, <1>2, <1>3 DEF c, TypeOK
    <3>4. CASE i # next
      BY <3>1, <3>2, <3>4, <1>1, <1>2, <1>3 DEF TypeOK
    <3> QED BY <3>3, <3>4
  <2>2. ~crashed /\ \A i \in 1 .. Last : placed[i].numa # N
    BY <1>4 DEF LbNext, LbInv, AllocInv
  <2>3. Last \in 1 .. Last
    BY <1>2 DEF Last, TypeOK
  <2>4. placed[Last].numa < N => over < (placed[Last].numa + 1) * C
    BY <1>2 DEF LbNext, LbInv, AllocInv
  <2>5. \A i \in 0 .. next' - 1 : use'[AllCpus(i)'] > 0
    BY <1>4, <2>1 DEF AllCpus
  <2>6. ~crashed' /\ \A i \in 1 .. Last' : placed'[i].numa # N
    BY <1>3, <1>4, <2>2
  <2>7. placed'[Last'].numa = placed[Last].numa /\ over' = over
    BY <1>3, <1>4, <2>3
  <2> QED BY <2>4, <2>5, <2>6, <2>7 DEF LbInv
<1>7. NetInv'
  BY DEF LbNext, Give, NetInv
<1> QED BY <1>2, <1>3, <1>5, <1>6, <1>7 DEF AllocInv

\* The second index stays inside the node or before it.
LEMMA LbOverflowKeeps == ASSUME AllocInv, LbOverflow PROVE AllocInv'
<1> DEFINE c == AllCpus(over)
           k == placed[Last].numa
<1>1. k \in 0 .. N - 1 /\ over < (k + 1) * C
  <2>1. Last \in 1 .. Last /\ placed[Last] \in Placement
    BY DEF LbOverflow, Last, AllocInv, TypeOK
  <2>2. k \in 0 .. N
    BY <2>1 DEF Placement
  <2>3. k # N
    <3>1. k = N => next = N * C
      BY <2>1 DEF LbOverflow, LbInv, AllocInv
    <3>2. (N * C) \div C = N
      BY AllocAssumption
    <3> QED BY <3>1, <3>2 DEF LbOverflow, InNode
  <2>4. k < N => over < (k + 1) * C
    BY DEF LbOverflow, LbInv, AllocInv
  <2> QED BY <2>2, <2>3, <2>4, AllocAssumption
<1>2. /\ (k + 1) * C \in 0 .. N * C
      /\ k * C \in Nat
      /\ k * C < (k + 1) * C
  BY <1>1, AllocAssumption, NodesFit
<1>3. c \in Cpu
  <2>1. over \in Nat /\ over < N * C
    BY <1>1, <1>2, AllocAssumption DEF AllocInv, TypeOK
  <2> QED BY <2>1, AllocAssumption, IndexIsCpu DEF AllCpus, Cpu, Numa, Offset
<1>4. TypeOK /\ left > 0 /\ Last > 0 /\ Give(c)
  BY DEF LbOverflow, AllocInv
<1> HIDE DEF c
<1>5. /\ placed' \in Seq(Placement)
      /\ Last' = Last
      /\ \A i \in 1 .. Last : placed'[i].numa = placed[i].numa
      /\ left' \in 0 .. MaxReq
      /\ use' \in [Cpu -> Nat]
      /\ use' = [use EXCEPT ![c] = use[c] + 1]
  BY <1>3, <1>4, GiveKeeps
<1>6. /\ UNCHANGED <<policy, shared, crashed, next, idx>>
      /\ over' = IF over + 1 = (k + 1) * C THEN k * C ELSE over + 1
  BY DEF LbOverflow, Give
<1>7. over' \in 0 .. N * C /\ over' < (k + 1) * C
  BY <1>1, <1>2, <1>4, <1>6, AllocAssumption, SMTT(30) DEF TypeOK
<1>8. TypeOK'
  BY <1>4, <1>5, <1>6, <1>7 DEF Last, TypeOK
<1>9. LbInv'
  <2>1. \A i \in 0 .. next - 1 : use'[AllCpus(i)] > 0
    <3> SUFFICES ASSUME NEW i \in 0 .. next - 1 PROVE use'[AllCpus(i)] > 0
      OBVIOUS
    <3>1. AllCpus(i) \in Cpu
      <4>1. i \in Nat /\ i < N * C
        BY <1>4, AllocAssumption DEF TypeOK
      <4> QED BY <4>1, AllocAssumption, IndexIsCpu DEF AllCpus, Cpu, Numa, Offset
    <3>2. use[AllCpus(i)] > 0
      BY DEF LbOverflow, LbInv, AllocInv
    <3> QED BY <3>1, <3>2, <1>3, <1>4, <1>5 DEF TypeOK
  <2>2. ~crashed /\ \A i \in 1 .. Last : placed[i].numa = N => next = N * C
    BY DEF LbOverflow, LbInv, AllocInv
  <2>3. Last \in 1 .. Last
    BY <1>4 DEF Last, TypeOK
  <2> QED BY <1>5, <1>6, <1>7, <2>1, <2>2, <2>3 DEF LbInv, AllCpus
<1>10. NetInv'
  BY <1>6 DEF LbOverflow, NetInv
<1> QED BY <1>4, <1>5, <1>8, <1>9, <1>10 DEF AllocInv

\* The panic happens past the last CPU.
LEMMA LbPanicKeeps == ASSUME AllocInv, LbPanic PROVE AllocInv'
BY DEF AllocInv, LbPanic, TypeOK, LbInv, NetInv, Last, AllCpus

-----------------------------------------------------------------------------
(* The steps of the network-affinity tick                                  *)

\* A Guaranteed pod of a given NUMA node.
LEMMA NetGuaranteedKeeps ==
    ASSUME AllocInv, NEW k \in Numa, NEW r \in 0 .. MaxReq, NetGuaranteed(k, r)
    PROVE  AllocInv'
<1>1. k \in 0 .. N /\ {} \in SUBSET Cpu
  BY AllocAssumption DEF Numa
<1>2. /\ placed' \in Seq(Placement)
      /\ Last' = Last + 1 /\ Last \in Nat
      /\ Last' <= MaxPods
      /\ left' \in 0 .. MaxReq
      /\ placed'[Last'].numa = k
  BY <1>1, PlaceKeeps DEF NetGuaranteed, AllocInv
<1>3. TypeOK'
  BY <1>2 DEF NetGuaranteed, Last, AllocInv, TypeOK
<1>4. LbInv'
  BY DEF NetGuaranteed, LbInv
<1>5. NetInv'
  BY <1>2 DEF NetGuaranteed, NetInv, RoundOf, AllocInv
<1> QED BY <1>2, <1>3, <1>4, <1>5 DEF AllocInv

\* Another pod of a given NUMA node.
LEMMA NetSharedKeeps ==
    ASSUME AllocInv, NEW k \in Numa, NetShared(k)
    PROVE  AllocInv'
<1>1. k \in 0 .. N /\ {k} \X Offset \in SUBSET Cpu /\ 0 \in 0 .. MaxReq
  BY AllocAssumption DEF Numa, Cpu
<1>2. /\ placed' \in Seq(Placement)
      /\ Last' = Last + 1 /\ Last \in Nat
      /\ Last' <= MaxPods
  BY <1>1, PlaceKeeps DEF NetShared, AllocInv
<1>3. left' = 0
  BY DEF NetShared, Place
<1>4. TypeOK'
  BY <1>2, <1>3, AllocAssumption DEF NetShared, Last, AllocInv, TypeOK
<1>5. LbInv'
  BY DEF NetShared, LbInv
<1>6. NetInv'
  BY <1>3 DEF NetShared, NetInv, RoundOf, AllocInv
<1> QED BY <1>2, <1>3, <1>4, <1>5, <1>6 DEF AllocInv

\* The index of a NUMA node and its round move together, also when it wraps.
LEMMA NetNextKeeps == ASSUME AllocInv, NetNext PROVE AllocInv'
<1> DEFINE k == placed[Last].numa
           c == <<k, idx[k]>>
<1>1. TypeOK /\ k \in Numa /\ left > 0 /\ Last > 0
  BY DEF NetNext, NetInv, AllocInv
<1> HIDE DEF k
<1>2. c \in Cpu /\ idx[k] \in Offset
  BY <1>1 DEF Cpu, TypeOK
<1>3. Give(c) /\ idx' = [idx EXCEPT ![k] = (idx[k] + 1) % C]
  BY DEF NetNext, k
<1>4. /\ placed' \in Seq(Placement)
      /\ Last' = Last
      /\ \A i \in 1 .. Last : placed'[i].numa = placed[i].numa
      /\ left' \in 0 .. MaxReq
      /\ use' \in [Cpu -> Nat]
      /\ use' = [use EXCEPT ![c] = use[c] + 1]
  <2> HIDE DEF c
  <2> QED BY <1>1, <1>2, <1>3, GiveKeeps
<1>5. UNCHANGED <<policy, shared, crashed, next, over>>
  BY DEF NetNext, Give
<1>6. /\ (idx[k] + 1) % C \in Offset
      /\ (idx[k] + 1) % C = IF idx[k] = C - 1 THEN 0 ELSE idx[k] + 1
  BY <1>2, AllocAssumption DEF Offset
<1>7. TypeOK'
  BY <1>1, <1>3, <1>4, <1>5, <1>6 DEF Last, TypeOK
<1>8. LbInv'
  BY <1>5 DEF NetNext, LbInv
<1>9. ASSUME NEW m \in Numa PROVE RoundOf(m)'
  <2>1. RoundOf(m)
    BY DEF NetNext, NetInv, AllocInv
  <2>2. CASE m # k
    <3>1. idx'[m] = idx[m] /\ \A i \in Offset : use'[<<m, i>>] = use[<<m, i>>]
      BY <2>2, <1>1, <1>3, <1>4 DEF Cpu, TypeOK
    <3> QED BY <3>1, <2>1 DEF RoundOf
  <2>3. CASE m = k
    <3> DEFINE f == [i \in Offset |-> use[<<k, i>>]]
               g == [i \in Offset |-> use'[<<k, i>>]]
               d == idx[k]
    <3>1. \A i \in Offset : f[i] \in Nat
      BY <1>1 DEF Cpu, TypeOK
    <3>2. \A i \in Offset : g[i] = IF i = d THEN f[i] + 1 ELSE f[i]
      BY <1>1, <1>2, <1>4 DEF Cpu, TypeOK
    <3>3. idx'[k] = IF d = C - 1 THEN 0 ELSE d + 1
      BY <1>1, <1>3, <1>6 DEF TypeOK
    <3>4. \A i, j \in Offset : /\ i < d /\ j < d => f[i] = f[j]
                               /\ i >= d /\ j >= d => f[i] = f[j]
                               /\ i < d /\ j >= d => f[i] = f[j] + 1
      BY <2>1, <2>3 DEF RoundOf
    <3> HIDE DEF f, g, d
    <3>5. d \in 0 .. C - 1
      BY <1>2 DEF d, Offset
    <3>6. \A i, j \in Offset : /\ i < idx'[k] /\ j < idx'[k] => g[i] = g[j]
                               /\ i >= idx'[k] /\ j >= idx'[k] => g[i] = g[j]
                               /\ i < idx'[k] /\ j >= idx'[k] => g[i] = g[j] + 1
      BY <3>1, <3>2, <3>3, <3>4, <3>5 DEF Offset
    <3> QED BY <3>6, <2>3 DEF RoundOf, g
  <2> QED BY <2>2, <2>3
<1>10. NetInv'
  <2>1. Last \in 1 .. Last
    BY <1>1 DEF Last, TypeOK
  <2> QED BY <1>1, <1>4, <1>9, <2>1 DEF NetInv, k
<1> QED BY <1>1, <1>4, <1>7, <1>8, <1>10 DEF AllocInv

-----------------------------------------------------------------------------
(* The CPUs of a pod are different, and different from those of other pods *)

\* What the last pod got so far, and whether it still wants CPUs of one node
Taken == placed[Last].req - left
Busy == left > 0 /\ placed[Last].req <= C

\* Only a Guaranteed pod waits for CPUs, and for no more than it asked for.
Wanting == left > 0 => placed[Last].guaranteed /\ left <= placed[Last].req

\* A pod has one CPU for each time it was given one.
Counted == \A i \in 1 .. Last : placed[i].guaranteed /\ placed[i].req <= C =>
    /\ IsFiniteSet(placed[i].cpus)
    /\ Cardinality(placed[i].cpus) = IF i = Last THEN Taken ELSE placed[i].req

\* Load balancing: where the index was when the last pod came.
Low == next + over - (placed[Last].numa + Taken)

\* The last pod's CPUs are those from there to the index and, once the index is at
\* the node's end, those the second index passed.  The second index cannot reach
\* the first ones as long as the pod wants no more CPUs than a node has.
LbFresh == policy = "load_balance" /\ Busy =>
    LET k == placed[Last].numa
    IN  /\ k * C <= Low /\ Low <= next /\ Low < (k + 1) * C
        /\ next <= (k + 1) * C
        /\ k <= over
        /\ over > k => next = (k + 1) * C
        /\ \A c \in placed[Last].cpus :
              \E x \in (Low .. next - 1) \cup (k .. over - 1) : c = AllCpus(x)

\* Network affinity: a CPU of the last pod is behind the node's index, cyclically,
\* by no more than the CPUs the pod got.
NetFresh == policy = "net_affinity" /\ Busy =>
    LET k == placed[Last].numa
    IN  \A c \in placed[Last].cpus : \E o \in Offset :
           /\ c = <<k, o>>
           /\ o < idx[k] => idx[k] - o <= Taken
           /\ o >= idx[k] => idx[k] + C - o <= Taken

\* A Guaranteed pod that has not overflowed
Inside(i) == placed[i].guaranteed /\ ~placed[i].spilled

\* Load balancing: such pods have CPUs the index has passed, each its own.
Apart == policy = "load_balance" =>
    /\ left > 0 /\ placed[Last].spilled => ~InNode
    /\ \A i \in 1 .. Last : Inside(i) =>
          \A c \in placed[i].cpus : \E x \in 0 .. next - 1 : c = AllCpus(x)
    /\ \A i, j \in 1 .. Last : i < j /\ Inside(i) /\ Inside(j)
                                  => placed[i].cpus \cap placed[j].cpus = {}

Handed == Wanting /\ Counted /\ LbFresh /\ NetFresh /\ Apart

\* Different indices are different CPUs.
LEMMA IndexApart ==
    ASSUME NEW x \in Nat, NEW y \in Nat, AllCpus(x) = AllCpus(y)
    PROVE  x = y
<1>1. x \div C = y \div C /\ x % C = y % C
  BY DEF AllCpus
<1>2. x = C * (x \div C) + (x % C) /\ y = C * (y \div C) + (y % C)
  BY AllocAssumption
<1> QED BY <1>1, <1>2

\* The whole record of a new pod
LEMMA PlaceRecord ==
    ASSUME TypeOK, Ready,
           NEW k \in 0 .. N, NEW g \in BOOLEAN, NEW r \in 0 .. MaxReq,
           NEW S \in SUBSET Cpu, Place(k, g, r, S)
    PROVE  /\ Last' = Last + 1 /\ Last \in Nat
           /\ placed'[Last'] = [numa |-> k, guaranteed |-> g,
                                req |-> r, cpus |-> S, spilled |-> FALSE]
           /\ \A i \in 1 .. Last : placed'[i] = placed[i]
           /\ left' = IF g THEN r ELSE 0
           /\ left = 0
<1> DEFINE e == [numa |-> k, guaranteed |-> g, req |-> r, cpus |-> S, spilled |-> FALSE]
<1>1. e \in Placement
  BY DEF Placement
<1>2. placed \in Seq(Placement) /\ placed' = Append(placed, e)
  BY DEF TypeOK, Place
<1>3. left' = (IF g THEN r ELSE 0) /\ left = 0
  BY DEF Place, Ready
<1> HIDE DEF e
<1>4. /\ Last' = Last + 1 /\ Last \in Nat
      /\ placed'[Last'] = e
      /\ \A i \in 1 .. Last : placed'[i] = placed[i]
  BY <1>1, <1>2 DEF Last
<1> QED BY <1>3, <1>4 DEF e

\* The whole record of the pod that gets a CPU
LEMMA GiveRecord ==
    ASSUME TypeOK, left > 0, Last > 0, NEW c \in Cpu, Give(c)
    PROVE  /\ Last' = Last /\ Last \in 1 .. Last
           /\ placed[Last] \in Placement
           /\ placed'[Last].numa = placed[Last].numa
           /\ placed'[Last].guaranteed = placed[Last].guaranteed
           /\ placed'[Last].req = placed[Last].req
           /\ placed'[Last].cpus = placed[Last].cpus \cup {c}
           /\ placed'[Last].spilled = (policy = "load_balance" /\ ~InNode)
           /\ \A i \in 1 .. Last : i # Last => placed'[i] = placed[i]
           /\ left' = left - 1
<1> DEFINE b == policy = "load_balance" /\ ~InNode
           q == [placed[Last] EXCEPT !.cpus = placed[Last].cpus \cup {c}, !.spilled = b]
<1>1. placed \in Seq(Placement) /\ Last \in 1 .. Len(placed)
  BY DEF TypeOK, Last
<1>2. placed[Last] \in Placement
  BY <1>1
<1>3. q.numa = placed[Last].numa /\ q.guaranteed = placed[Last].guaranteed
      /\ q.req = placed[Last].req /\ q.cpus = placed[Last].cpus \cup {c} /\ q.spilled = b
  <2> HIDE DEF b
  <2> QED BY <1>2 DEF Placement
<1>4. placed' = [placed EXCEPT ![Last] = q] /\ left' = left - 1
  BY <1>1, <1>2 DEF Give, Placement
<1> HIDE DEF q
<1>5. /\ Len(placed') = Len(placed) /\ placed'[Last] = q
      /\ \A i \in 1 .. Last : i # Last => placed'[i] = placed[i]
  BY <1>1, <1>4 DEF Last
<1>6. Last' = Last
  BY <1>5 DEF Last
<1> QED BY <1>1, <1>2, <1>3, <1>4, <1>5, <1>6 DEF Last

\* A new pod has as many CPUs as it got: none.
LEMMA PlaceCounts ==
    ASSUME TypeOK, Ready, Wanting, Counted,
           NEW k \in 0 .. N, NEW g \in BOOLEAN, NEW r \in 0 .. MaxReq,
           NEW S \in SUBSET Cpu, Place(k, g, r, S), g => S = {}
    PROVE  Wanting' /\ Counted'
<1>1. /\ Last' = Last + 1 /\ Last \in Nat
      /\ placed'[Last'] = [numa |-> k, guaranteed |-> g,
                           req |-> r, cpus |-> S, spilled |-> FALSE]
      /\ \A i \in 1 .. Last : placed'[i] = placed[i]
      /\ left' = (IF g THEN r ELSE 0)
      /\ left = 0
  BY PlaceRecord
<1>2. r \in Nat
  BY AllocAssumption
<1>3. Wanting'
  BY <1>1, <1>2 DEF Wanting
<1>4. ASSUME NEW i \in 1 .. Last', placed'[i].guaranteed, placed'[i].req <= C
      PROVE  /\ IsFiniteSet(placed'[i].cpus)
             /\ Cardinality(placed'[i].cpus) = IF i = Last' THEN Taken' ELSE placed'[i].req
  <2>1. CASE i = Last'
    <3>1. g /\ S = {} /\ Taken' = r - r
      BY <1>1, <1>4, <2>1 DEF Taken
    <3> QED BY <3>1, <1>1, <1>2, <2>1, FS_EmptySet
  <2>2. CASE i # Last'
    <3>1. i \in 1 .. Last /\ placed'[i] = placed[i]
      BY <1>1, <2>2
    <3>2. placed[i].req \in Nat
      <4>1. placed[i] \in Placement
        BY <3>1 DEF TypeOK, Last
      <4> QED BY <4>1, AllocAssumption DEF Placement
    <3>3. Taken = placed[Last].req - 0
      BY <1>1 DEF Taken
    <3> QED BY <3>1, <3>2, <3>3, <1>1, <1>4, <2>2 DEF Counted
  <2> QED BY <2>1, <2>2
<1> QED BY <1>3, <1>4 DEF Counted

\* A CPU the pod does not have counts.
LEMMA GiveCounts ==
    ASSUME TypeOK, left > 0, Last > 0, Wanting, Counted,
           NEW c \in Cpu, Give(c), Busy => c \notin placed[Last].cpus
    PROVE  Wanting' /\ Counted' /\ Taken \in Nat /\ Taken' = Taken + 1
<1>1. /\ Last' = Last /\ Last \in 1 .. Last
      /\ placed[Last] \in Placement
      /\ placed'[Last].guaranteed = placed[Last].guaranteed
      /\ placed'[Last].req = placed[Last].req
      /\ placed'[Last].cpus = placed[Last].cpus \cup {c}
      /\ \A i \in 1 .. Last : i # Last => placed'[i] = placed[i]
      /\ left' = left - 1
  BY GiveRecord
<1>2. left \in Nat /\ placed[Last].req \in Nat
  BY <1>1, AllocAssumption DEF TypeOK, Placement
<1>3. Taken \in Nat /\ Taken' = Taken + 1
  BY <1>1, <1>2 DEF Taken, Wanting
<1>4. Wanting'
  BY <1>1, <1>2 DEF Wanting
<1>5. ASSUME NEW i \in 1 .. Last, placed'[i].guaranteed, placed'[i].req <= C
      PROVE  /\ IsFiniteSet(placed'[i].cpus)
             /\ Cardinality(placed'[i].cpus) = IF i = Last THEN Taken' ELSE placed'[i].req
  <2>1. CASE i = Last
    <3>1. /\ IsFiniteSet(placed[Last].cpus) /\ Cardinality(placed[Last].cpus) = Taken
          /\ c \notin placed[Last].cpus
      BY <1>1, <1>5, <2>1 DEF Counted, Busy
    <3> QED BY <3>1, <1>1, <1>3, <2>1, FS_AddElement
  <2>2. CASE i # Last
    BY <2>2, <1>1, <1>5 DEF Counted
  <2> QED BY <2>1, <2>2
<1> QED BY <1>1, <1>3, <1>4, <1>5 DEF Counted

\* A new pod has no CPU in common with the others.
LEMMA PlaceApart ==
    ASSUME TypeOK, Ready, Apart, policy' = policy, next' = next,
           NEW k \in 0 .. N, NEW g \in BOOLEAN, NEW r \in 0 .. MaxReq,
           NEW S \in SUBSET Cpu, Place(k, g, r, S), g => S = {}
    PROVE  Apart'
<1> SUFFICES ASSUME policy = "load_balance" PROVE Apart'
  BY DEF Apart
<1>1. /\ Last' = Last + 1 /\ Last \in Nat
      /\ placed'[Last'] = [numa |-> k, guaranteed |-> g,
                           req |-> r, cpus |-> S, spilled |-> FALSE]
      /\ \A i \in 1 .. Last : placed'[i] = placed[i]
  BY PlaceRecord
<1>2. ASSUME NEW i \in 1 .. Last'
      PROVE  \/ i = Last' /\ (Inside(i)' => placed'[i].cpus = {})
             \/ i \in 1 .. Last /\ placed'[i] = placed[i] /\ Inside(i)' = Inside(i)
  BY <1>1 DEF Inside
<1>3. ~placed'[Last'].spilled
  BY <1>1
<1>4. ASSUME NEW i \in 1 .. Last', Inside(i)', NEW c \in placed'[i].cpus
      PROVE  \E x \in 0 .. next' - 1 : c = AllCpus(x)'
  BY <1>2, <1>4 DEF Apart, AllCpus
<1>5. ASSUME NEW i \in 1 .. Last', NEW j \in 1 .. Last', i < j, Inside(i)', Inside(j)'
      PROVE  placed'[i].cpus \cap placed'[j].cpus = {}
  BY <1>2, <1>5 DEF Apart
<1> QED BY <1>3, <1>4, <1>5 DEF Apart

\* Load balancing: the pod begins at the index, the second index at the number of
\* the NUMA node.
LEMMA LbGuaranteedHands ==
    ASSUME AllocInv, Handed, NEW r \in 0 .. MaxReq, LbGuaranteed(r)
    PROVE  Handed'
<1> DEFINE k == next \div C
<1>1. next \in Nat /\ next <= N * C /\ N * C \in Nat
  BY AllocAssumption DEF AllocInv, TypeOK
<1>2. k \in 0 .. N /\ k * C <= next /\ next < (k + 1) * C
  <2>1. k \in 0 .. N
    BY <1>1, AllocAssumption, NodeOfIndex
  <2>2. next = C * k + (next % C) /\ next % C \in 0 .. C - 1
    BY <1>1, AllocAssumption
  <2>3. C * k = k * C /\ (k + 1) * C = k * C + C /\ k * C \in Nat
    BY <2>1, AllocAssumption
  <2> HIDE DEF k
  <2> QED BY <1>1, <2>1, <2>2, <2>3, AllocAssumption
<1>3. /\ TypeOK /\ Ready /\ {} \in SUBSET Cpu /\ Place(k, TRUE, r, {})
      /\ policy' = policy /\ policy = "load_balance" /\ next' = next /\ over' = k
  BY DEF LbGuaranteed, AllocInv
<1> HIDE DEF k
<1>4. Wanting' /\ Counted'
  BY <1>2, <1>3, PlaceCounts DEF Handed
<1>5. Apart'
  BY <1>2, <1>3, PlaceApart DEF Handed
<1>6. LbFresh'
  <2>1. /\ placed'[Last'] = [numa |-> k, guaranteed |-> TRUE,
                             req |-> r, cpus |-> {}, spilled |-> FALSE]
        /\ left' = r
    BY <1>2, <1>3, PlaceRecord
  <2>2. r \in Nat
    BY AllocAssumption
  <2>3. Taken' = 0
    BY <2>1, <2>2 DEF Taken
  <2>4. Low' = next
    BY <1>1, <1>2, <1>3, <2>1, <2>3 DEF Low
  <2>5. placed'[Last'].numa = k /\ placed'[Last'].cpus = {}
    BY <2>1
  <2>6. k * C \in Nat /\ (k + 1) * C \in Nat
    BY <1>2, AllocAssumption
  <2>7. /\ k * C <= Low' /\ Low' <= next' /\ Low' < (k + 1) * C
        /\ next' <= (k + 1) * C
        /\ k <= over' /\ ~(over' > k)
    BY <1>1, <1>2, <1>3, <2>4, <2>6
  <2> QED BY <2>5, <2>7 DEF LbFresh
<1>7. NetFresh'
  BY <1>3 DEF NetFresh
<1> QED BY <1>4, <1>5, <1>6, <1>7 DEF Handed

\* A pod of another class waits for nothing.
LEMMA LbSharedHands == ASSUME AllocInv, Handed, LbShared PROVE Handed'
<1>1. /\ TypeOK /\ Ready /\ Place(shared, FALSE, 0, {shared} \X Offset)
      /\ policy' = policy /\ next' = next
  BY DEF LbShared, AllocInv
<1>2. shared \in 0 .. N /\ {shared} \X Offset \in SUBSET Cpu /\ 0 \in 0 .. MaxReq
  BY <1>1, AllocAssumption DEF TypeOK, Numa, Cpu
<1>3. Wanting' /\ Counted'
  BY <1>1, <1>2, PlaceCounts DEF Handed
<1>4. Apart'
  BY <1>1, <1>2, PlaceApart DEF Handed
<1>5. ~Busy'
  BY <1>1 DEF Place, Busy
<1> QED BY <1>3, <1>4, <1>5 DEF Handed, LbFresh, NetFresh

\* The index points at a CPU the pod does not have, nor any pod inside its node.
LEMMA LbNextHands == ASSUME AllocInv, Handed, LbNext PROVE Handed'
<1> DEFINE c == AllCpus(next)
           k == placed[Last].numa
<1>1. /\ TypeOK /\ left > 0 /\ Last > 0 /\ Give(c) /\ Wanting /\ Counted
      /\ policy = "load_balance" /\ policy' = policy
      /\ next' = next + 1 /\ over' = over /\ InNode
  BY DEF LbNext, AllocInv, Handed, Give
<1>2. next \in Nat /\ next < N * C /\ over \in Nat
  BY AllocAssumption DEF LbNext, AllocInv, TypeOK
<1>3. c \in Cpu
  BY <1>2, AllocAssumption, IndexIsCpu DEF AllCpus, Cpu, Numa, Offset
<1>4. /\ Last' = Last /\ Last \in 1 .. Last
      /\ placed[Last] \in Placement
      /\ placed'[Last].numa = k
      /\ placed'[Last].guaranteed = placed[Last].guaranteed
      /\ placed'[Last].req = placed[Last].req
      /\ placed'[Last].cpus = placed[Last].cpus \cup {c}
      /\ placed'[Last].spilled = FALSE
      /\ \A i \in 1 .. Last : i # Last => placed'[i] = placed[i]
      /\ left' = left - 1
  <2> HIDE DEF c
  <2> QED BY <1>1, <1>3, GiveRecord
<1>5. k \in Nat /\ k = next \div C /\ next < (k + 1) * C /\ k * C \in Nat
      /\ (k + 1) * C = k * C + C
  <2>1. k \in Nat
    BY <1>4, AllocAssumption DEF Placement
  <2>2. k = next \div C
    BY <1>1 DEF InNode
  <2>3. next < (next \div C + 1) * C
    BY <1>2, AllocAssumption
  <2> QED BY <2>1, <2>2, <2>3, AllocAssumption
<1>6. LbFresh /\ Apart
  BY DEF Handed
<1>7. Taken \in Nat
  BY <1>1, <1>4, AllocAssumption DEF TypeOK, Placement, Taken, Wanting
<1> HIDE DEF k
<1>8. ASSUME Busy
      PROVE  /\ k * C <= Low /\ Low <= next /\ Low < (k + 1) * C
             /\ over = k
             /\ \A d \in placed[Last].cpus : \E x \in Low .. next - 1 : d = AllCpus(x)
  <2>1. /\ k * C <= Low /\ Low <= next /\ Low < (k + 1) * C
        /\ k <= over
        /\ over > k => next = (k + 1) * C
        /\ \A d \in placed[Last].cpus :
              \E x \in (Low .. next - 1) \cup (k .. over - 1) : d = AllCpus(x)
    BY <1>1, <1>6, <1>8 DEF LbFresh, k
  <2>2. over = k
    <3>1. ~(over > k)
      BY <1>2, <1>5, <2>1, AllocAssumption
    <3> QED BY <1>2, <1>5, <2>1, <3>1
  <2>3. k .. over - 1 = {}
    BY <2>2, <1>5
  <2> QED BY <2>1, <2>2, <2>3
<1>9. Low \in Int
  BY <1>2, <1>5, <1>7 DEF Low, k
<1>10. Busy => c \notin placed[Last].cpus
  <2> SUFFICES ASSUME Busy, c \in placed[Last].cpus PROVE FALSE
    OBVIOUS
  <2>1. PICK x \in Low .. next - 1 : c = AllCpus(x)
    BY <1>8
  <2>2. x \in Nat /\ x < next
    BY <1>2, <1>5, <1>8, <1>9, <2>1
  <2>3. x = next
    BY <1>2, <2>1, <2>2, IndexApart DEF c
  <2> QED BY <2>2, <2>3, <1>2
<1>11. Wanting' /\ Counted' /\ Taken' = Taken + 1
  <2> HIDE DEF c
  <2> QED BY <1>1, <1>3, <1>10, GiveCounts
<1>12. LbFresh'
  <2> SUFFICES ASSUME Busy' PROVE LbFresh'
    BY DEF LbFresh
  <2>1. Busy
    BY <1>1, <1>4 DEF Busy
  <2>2. Low' = Low
    BY <1>1, <1>2, <1>4, <1>5, <1>7, <1>11 DEF Low, k
  <2>3. /\ k * C <= Low /\ Low <= next + 1 /\ Low < (k + 1) * C /\ next + 1 <= (k + 1) * C
        /\ k <= over /\ ~(over > k)
    BY <1>2, <1>5, <1>8, <1>9, <2>1, AllocAssumption
  <2>4. \A d \in placed'[Last].cpus : \E x \in Low .. next : d = AllCpus(x)
    <3>1. next \in Low .. next
      BY <1>2, <1>8, <1>9, <2>1
    <3>2. \A x \in Low .. next - 1 : x \in Low .. next
      BY <1>2, <1>9
    <3> QED BY <1>4, <1>8, <2>1, <3>1, <3>2
  <2>5. next' - 1 = next
    BY <1>1, <1>2
  <2>6. placed'[Last'].numa = k /\ placed'[Last'].cpus = placed'[Last].cpus
    BY <1>4
  <2>7. \A d \in placed'[Last].cpus :
           \E x \in (Low .. next) \cup (k .. over - 1) : d = AllCpus(x)
    BY <2>4
  <2> HIDE DEF c
  <2> QED BY <1>1, <2>2, <2>3, <2>5, <2>6, <2>7 DEF LbFresh, AllCpus
<1>13. NetFresh'
  BY <1>1 DEF NetFresh
<1>14. Apart'
  <2>1. ~placed[Last].spilled
    BY <1>1, <1>6 DEF Apart
  <2>2. \A i \in 1 .. Last : Inside(i)' = Inside(i)
    BY <1>4, <2>1 DEF Inside
  <2>3. ASSUME NEW i \in 1 .. Last, Inside(i)
        PROVE  /\ \A d \in placed[i].cpus : \E x \in 0 .. next - 1 : d = AllCpus(x)
               /\ c \notin placed[i].cpus
    <3>1. \A d \in placed[i].cpus : \E x \in 0 .. next - 1 : d = AllCpus(x)
      BY <1>1, <1>6, <2>3 DEF Apart
    <3>2. ASSUME c \in placed[i].cpus PROVE FALSE
      <4>1. PICK x \in 0 .. next - 1 : c = AllCpus(x)
        BY <3>1, <3>2
      <4>2. x \in Nat /\ x < next
        BY <1>2, <4>1
      <4>3. x = next
        BY <1>2, <4>1, <4>2, IndexApart DEF c
      <4> QED BY <4>2, <4>3, <1>2
    <3> QED BY <3>1, <3>2
  <2>4. ASSUME NEW i \in 1 .. Last, Inside(i), NEW d \in placed'[i].cpus
        PROVE  \E x \in 0 .. next' - 1 : d = AllCpus(x)
    <3>1. next \in 0 .. next' - 1 /\ \A x \in 0 .. next - 1 : x \in 0 .. next' - 1
      BY <1>1, <1>2
    <3>2. d = c \/ d \in placed[i].cpus
      BY <1>4, <2>4
    <3> QED BY <2>3, <2>4, <3>1, <3>2
  <2>5. ASSUME NEW i \in 1 .. Last, NEW j \in 1 .. Last, i < j, Inside(i), Inside(j)
        PROVE  placed'[i].cpus \cap placed'[j].cpus = {}
    <3>1. placed[i].cpus \cap placed[j].cpus = {}
      BY <1>1, <1>6, <2>5 DEF Apart
    <3>2. i # Last \/ j # Last
      BY <2>5
    <3> HIDE DEF c
    <3> QED BY <1>4, <2>3, <2>5, <3>1, <3>2
  <2>6. ~placed'[Last'].spilled
    BY <1>4
  <2>7. \A i \in 1 .. Last' : Inside(i)' =>
            \A d \in placed'[i].cpus : \E x \in 0 .. next' - 1 : d = AllCpus(x)'
    <3> HIDE DEF c
    <3> QED BY <1>4, <2>2, <2>4 DEF AllCpus
  <2> QED BY <1>4, <2>2, <2>5, <2>6, <2>7 DEF Apart
<1> QED BY <1>11, <1>12, <1>13, <1>14 DEF Handed

\* The second index, too, points at a CPU the pod does not have; the pod is marked.
LEMMA LbOverflowHands == ASSUME AllocInv, Handed, LbOverflow PROVE Handed'
<1> DEFINE c == AllCpus(over)
           k == placed[Last].numa
<1>1. /\ TypeOK /\ left > 0 /\ Last > 0 /\ Give(c) /\ Wanting /\ Counted
      /\ policy = "load_balance" /\ policy' = policy
      /\ next' = next /\ ~InNode
      /\ over' = IF over + 1 = (k + 1) * C THEN k * C ELSE over + 1
  BY DEF LbOverflow, AllocInv, Handed, Give
<1>2. next \in Nat /\ next <= N * C /\ over \in Nat
  BY <1>1, AllocAssumption DEF TypeOK
<1>3. k \in 0 .. N - 1 /\ over < (k + 1) * C
  <2>1. Last \in 1 .. Last /\ placed[Last] \in Placement
    BY DEF LbOverflow, Last, AllocInv, TypeOK
  <2>2. k \in 0 .. N
    BY <2>1 DEF Placement
  <2>3. k # N
    <3>1. k = N => next = N * C
      BY <2>1 DEF LbOverflow, LbInv, AllocInv
    <3>2. (N * C) \div C = N
      BY AllocAssumption
    <3> QED BY <3>1, <3>2 DEF LbOverflow, InNode
  <2>4. k < N => over < (k + 1) * C
    BY DEF LbOverflow, LbInv, AllocInv
  <2> QED BY <2>2, <2>3, <2>4, AllocAssumption
<1>4. /\ (k + 1) * C \in 0 .. N * C
      /\ k * C \in Nat
      /\ k * C < (k + 1) * C
  BY <1>3, AllocAssumption, NodesFit
<1>5. c \in Cpu
  <2>1. over < N * C
    BY <1>2, <1>3, <1>4, AllocAssumption
  <2> QED BY <1>2, <2>1, AllocAssumption, IndexIsCpu DEF AllCpus, Cpu, Numa, Offset
<1>6. /\ Last' = Last /\ Last \in 1 .. Last
      /\ placed[Last] \in Placement
      /\ placed'[Last].numa = k
      /\ placed'[Last].guaranteed = placed[Last].guaranteed
      /\ placed'[Last].req = placed[Last].req
      /\ placed'[Last].cpus = placed[Last].cpus \cup {c}
      /\ placed'[Last].spilled = TRUE
      /\ \A i \in 1 .. Last : i # Last => placed'[i] = placed[i]
      /\ left' = left - 1
  <2> HIDE DEF c
  <2> QED BY <1>1, <1>5, GiveRecord
<1>7. left \in Nat /\ left > 0 /\ placed[Last].req \in Nat /\ left <= placed[Last].req
      /\ Taken = placed[Last].req - left
  BY <1>1, <1>6, AllocAssumption DEF TypeOK, Placement, Taken, Wanting
<1>8. LbFresh /\ Apart
  BY DEF Handed
<1> HIDE DEF k
<1>9. k \in Nat /\ (k + 1) * C = k * C + C /\ Low = next + over - (k + Taken)
      /\ Low \in Int /\ C \in Nat
  BY <1>2, <1>3, <1>7, AllocAssumption DEF Low, k
\* The index ended the node, so the second one is before the pod's first CPU.
<1>10. ASSUME Busy
       PROVE  /\ k * C <= Low /\ Low <= next /\ Low < (k + 1) * C
              /\ k <= over /\ next = (k + 1) * C /\ over + 1 <= Low
              /\ \A d \in placed[Last].cpus :
                    \E x \in (Low .. next - 1) \cup (k .. over - 1) : d = AllCpus(x)
  <2>1. /\ k * C <= Low /\ Low <= next /\ Low < (k + 1) * C
        /\ next <= (k + 1) * C /\ k <= over
        /\ \A d \in placed[Last].cpus :
              \E x \in (Low .. next - 1) \cup (k .. over - 1) : d = AllCpus(x)
    BY <1>1, <1>8, <1>10 DEF LbFresh, k
  <2>2. next = (k + 1) * C
    <3>1. k * C <= next /\ next \div C # k
      BY <2>1, <1>1, <1>2, <1>4, <1>9 DEF InNode, k
    <3>2. next >= k * C + C
      <4> SUFFICES ASSUME next < k * C + C PROVE FALSE
        BY <1>2, <1>4, <1>9
      <4>1. next - k * C \in 0 .. C - 1 /\ k * C + (next - k * C) = next
        BY <3>1, <1>2, <1>4, <1>9
      <4>2. k \in 0 .. N - 1 /\ N \in Nat /\ C \in Nat \ {0}
        BY <1>3, AllocAssumption
      <4>3. (k * C + (next - k * C)) \div C = k
        BY <4>1, <4>2, IndexOfCpu
      <4> QED BY <3>1, <4>1, <4>3
    <3> QED BY <2>1, <3>2, <1>2, <1>4, <1>9
  <2>3. over + 1 <= Low
    <3>1. Taken + 1 <= C
      BY <1>7, <1>9, <1>10 DEF Busy
    <3>2. Taken \in Nat
      BY <1>7
    <3>3. next = k * C + C
      BY <2>2, <1>9
    <3>4. Low = k * C + C + over - k - Taken
      BY <3>2, <3>3, <1>2, <1>4, <1>9
    <3>5. k <= k * C
      BY <1>9, AllocAssumption
    <3> QED BY <3>1, <3>2, <3>4, <3>5, <1>2, <1>4, <1>9
  <2> QED BY <2>1, <2>2, <2>3
<1>11. Busy => c \notin placed[Last].cpus
  <2> SUFFICES ASSUME Busy, c \in placed[Last].cpus PROVE FALSE
    OBVIOUS
  <2>1. PICK x \in (Low .. next - 1) \cup (k .. over - 1) : c = AllCpus(x)
    BY <1>10
  <2>2. x \in Nat /\ x # over
    BY <1>2, <1>4, <1>9, <1>10, <2>1
  <2>3. x = over
    BY <1>2, <2>1, <2>2, IndexApart DEF c
  <2> QED BY <2>2, <2>3
<1>12. Wanting' /\ Counted' /\ Taken' = Taken + 1 /\ Taken \in Nat
  <2> HIDE DEF c
  <2> QED BY <1>1, <1>5, <1>11, GiveCounts
<1>13. LbFresh'
  <2> SUFFICES ASSUME Busy' PROVE LbFresh'
    BY DEF LbFresh
  <2>1. Busy
    BY <1>1, <1>6, <1>7 DEF Busy
  <2>2. over' = over + 1
    BY <1>1, <1>2, <1>4, <1>9, <1>10, <2>1
  <2>3. placed'[Last'].numa = k /\ placed'[Last'].cpus = placed[Last].cpus \cup {c}
    BY <1>6
  <2>4. Low' = Low
    BY <1>1, <1>2, <1>9, <1>12, <2>2, <2>3 DEF Low
  <2>5. \A d \in placed[Last].cpus \cup {c} :
           \E x \in (Low .. next - 1) \cup (k .. over) : d = AllCpus(x)
    <3>1. over \in k .. over /\ \A x \in k .. over - 1 : x \in k .. over
      BY <1>2, <1>9, <1>10, <2>1
    <3> QED BY <1>10, <2>1, <3>1
  <2>6. /\ k * C <= Low /\ Low <= next /\ Low < (k + 1) * C /\ next <= (k + 1) * C
        /\ k <= over + 1 /\ next = (k + 1) * C
    BY <1>2, <1>4, <1>9, <1>10, <2>1
  <2>7. over' - 1 = over
    BY <2>2, <1>2
  <2> HIDE DEF c
  <2> QED BY <1>1, <2>2, <2>3, <2>4, <2>5, <2>6, <2>7 DEF LbFresh, AllCpus
<1>14. NetFresh'
  BY <1>1 DEF NetFresh
<1>15. Apart'
  <2>1. ~Inside(Last)'
    BY <1>6 DEF Inside
  <2>2. \A i \in 1 .. Last : i # Last => Inside(i)' = Inside(i) /\ placed'[i] = placed[i]
    BY <1>6 DEF Inside
  <2>3. ~InNode'
    BY <1>1, <1>6 DEF InNode, k
  <2>4. \A i \in 1 .. Last' : Inside(i)' =>
            \A d \in placed'[i].cpus : \E x \in 0 .. next' - 1 : d = AllCpus(x)'
    BY <1>1, <1>6, <1>8, <2>1, <2>2 DEF Apart, AllCpus
  <2>5. \A i, j \in 1 .. Last' : i < j /\ Inside(i)' /\ Inside(j)'
                                  => placed'[i].cpus \cap placed'[j].cpus = {}
    BY <1>1, <1>6, <1>8, <2>1, <2>2 DEF Apart
  <2> QED BY <2>3, <2>4, <2>5 DEF Apart
<1> QED BY <1>12, <1>13, <1>14, <1>15 DEF Handed

\* A panic hands nothing out.
LEMMA LbPanicHands == ASSUME Handed, LbPanic PROVE Handed'
BY DEF Handed, LbPanic, Wanting, Counted, LbFresh, NetFresh, Apart, Inside, Busy,
       Taken, Low, InNode, Last, AllCpus

\* Network affinity: the pod begins at its node's index.
LEMMA NetGuaranteedHands ==
    ASSUME AllocInv, Handed, NEW k \in Numa, NEW r \in 0 .. MaxReq, NetGuaranteed(k, r)
    PROVE  Handed'
<1>1. /\ TypeOK /\ Ready /\ {} \in SUBSET Cpu /\ Place(k, TRUE, r, {})
      /\ policy' = policy /\ policy = "net_affinity" /\ k \in 0 .. N
  <2>1. k \in 0 .. N
    BY AllocAssumption DEF Numa
  <2> QED BY <2>1 DEF NetGuaranteed, AllocInv
<1>2. Wanting' /\ Counted'
  BY <1>1, PlaceCounts DEF Handed
<1>3. placed'[Last'] = [numa |-> k, guaranteed |-> TRUE,
                        req |-> r, cpus |-> {}, spilled |-> FALSE]
  BY <1>1, PlaceRecord
<1>4. placed'[Last'].cpus = {}
  BY <1>3
<1> QED BY <1>1, <1>2, <1>4 DEF Handed, LbFresh, NetFresh, Apart

\* Another pod of a given NUMA node
LEMMA NetSharedHands ==
    ASSUME AllocInv, Handed, NEW k \in Numa, NetShared(k)
    PROVE  Handed'
<1>1. /\ TypeOK /\ Ready /\ Place(k, FALSE, 0, {k} \X Offset)
      /\ policy' = policy /\ policy = "net_affinity"
      /\ k \in 0 .. N /\ {k} \X Offset \in SUBSET Cpu /\ 0 \in 0 .. MaxReq
  <2>1. k \in 0 .. N /\ {k} \X Offset \in SUBSET Cpu /\ 0 \in 0 .. MaxReq
    BY AllocAssumption DEF Numa, Cpu
  <2> QED BY <2>1 DEF NetShared, AllocInv
<1>2. Wanting' /\ Counted'
  BY <1>1, PlaceCounts DEF Handed
<1>3. ~Busy'
  BY <1>1 DEF Place, Busy
<1> QED BY <1>1, <1>2, <1>3 DEF Handed, LbFresh, NetFresh, Apart

\* The node's index is back at the pod's first CPU only after C CPUs.
LEMMA NetNextHands == ASSUME AllocInv, Handed, NetNext PROVE Handed'
<1> DEFINE k == placed[Last].numa
           c == <<k, idx[k]>>
<1>1. /\ TypeOK /\ left > 0 /\ Last > 0 /\ Give(c) /\ Wanting /\ Counted
      /\ policy = "net_affinity" /\ policy' = policy
      /\ idx' = [idx EXCEPT ![k] = (idx[k] + 1) % C]
      /\ k \in Numa
  BY DEF NetNext, AllocInv, NetInv, Handed, Give
<1> HIDE DEF k
<1>2. c \in Cpu /\ idx[k] \in 0 .. C - 1 /\ C \in Nat \ {0}
  BY <1>1, AllocAssumption DEF Cpu, TypeOK, Offset
<1>3. idx'[k] = IF idx[k] = C - 1 THEN 0 ELSE idx[k] + 1
  <2>1. idx'[k] = (idx[k] + 1) % C
    BY <1>1 DEF TypeOK
  <2> QED BY <2>1, <1>2
<1>4. /\ Last' = Last /\ Last \in 1 .. Last
      /\ placed[Last] \in Placement
      /\ placed'[Last].numa = k
      /\ placed'[Last].req = placed[Last].req
      /\ placed'[Last].cpus = placed[Last].cpus \cup {c}
      /\ left' = left - 1
  <2> HIDE DEF c
  <2> QED BY <1>1, <1>2, GiveRecord DEF k
<1>5. left \in Nat /\ left > 0 /\ placed[Last].req \in Nat /\ left <= placed[Last].req
      /\ Taken = placed[Last].req - left
  BY <1>1, <1>4, AllocAssumption DEF TypeOK, Placement, Taken, Wanting
<1>6. ASSUME Busy, NEW d \in placed[Last].cpus
      PROVE  \E o \in Offset : /\ d = <<k, o>>
                               /\ o < idx[k] => idx[k] - o <= Taken
                               /\ o >= idx[k] => idx[k] + C - o <= Taken
  BY <1>1, <1>6 DEF Handed, NetFresh, k
<1>7. Busy => c \notin placed[Last].cpus
  <2> SUFFICES ASSUME Busy, c \in placed[Last].cpus PROVE FALSE
    OBVIOUS
  <2>1. PICK o \in Offset : /\ c = <<k, o>>
                            /\ o >= idx[k] => idx[k] + C - o <= Taken
    BY <1>6
  <2>2. o = idx[k]
    BY <2>1
  <2>3. C <= Taken
    BY <2>1, <2>2, <1>2
  <2>4. Taken < C
    BY <1>2, <1>5 DEF Busy
  <2> QED BY <2>3, <2>4, <1>2, <1>5
<1>8. Wanting' /\ Counted' /\ Taken' = Taken + 1 /\ Taken \in Nat
  <2> HIDE DEF c
  <2> QED BY <1>1, <1>2, <1>7, GiveCounts
<1>9. ASSUME Busy', NEW d \in placed[Last].cpus \cup {c}
      PROVE  \E o \in Offset : /\ d = <<k, o>>
                               /\ o < idx'[k] => idx'[k] - o <= Taken'
                               /\ o >= idx'[k] => idx'[k] + C - o <= Taken'
  <2>1. Busy
    BY <1>1, <1>4, <1>5, <1>9 DEF Busy
  <2>2. CASE d = c
    <3>1. idx[k] \in Offset
      BY <1>2 DEF Offset
    <3>2. /\ idx[k] < idx'[k] => idx'[k] - idx[k] <= Taken'
          /\ idx[k] >= idx'[k] => idx'[k] + C - idx[k] <= Taken'
      BY <1>2, <1>3, <1>8
    <3> QED BY <2>2, <3>1, <3>2
  <2>3. CASE d \in placed[Last].cpus
    <3>1. PICK o \in Offset : /\ d = <<k, o>>
                              /\ o < idx[k] => idx[k] - o <= Taken
                              /\ o >= idx[k] => idx[k] + C - o <= Taken
      BY <1>6, <2>1, <2>3
    <3>2. Taken + 1 <= C
      BY <1>2, <1>5, <2>1 DEF Busy
    <3>3. o \in 0 .. C - 1
      BY DEF Offset
    <3>4. /\ o < idx'[k] => idx'[k] - o <= Taken + 1
          /\ o >= idx'[k] => idx'[k] + C - o <= Taken + 1
      BY <1>2, <1>3, <1>8, <3>1, <3>2, <3>3
    <3> QED BY <3>1, <3>4, <1>8
  <2> QED BY <1>9, <2>2, <2>3
<1>10. NetFresh'
  <2>1. placed'[Last'].numa = k /\ placed'[Last'].cpus = placed[Last].cpus \cup {c}
    BY <1>4
  <2> HIDE DEF c
  <2> QED BY <2>1, <1>9 DEF NetFresh
<1> QED BY <1>1, <1>8, <1>10 DEF Handed, LbFresh, Apart

-----------------------------------------------------------------------------
(* The theorems                                                            *)

\* Nothing is handed out at the start.
LEMMA AllocInit == Init => AllocInv
<1> SUFFICES ASSUME Init PROVE AllocInv
  OBVIOUS
<1> USE AllocAssumption DEF Init
<1>0. N * C \in Nat
  OBVIOUS
<1>1. TypeOK /\ Last = 0
  <2>1. placed \in Seq(Placement) /\ Len(placed) = 0
    OBVIOUS
  <2>2. 0 \in Numa /\ 0 \in Offset /\ 0 \in Nat /\ 0 \in 0 .. N * C /\ 0 \in 0 .. MaxReq
    BY <1>0 DEF Numa, Offset
  <2>3. idx \in [Numa -> Offset] /\ use \in [Cpu -> Nat]
    BY <2>2
  <2> QED BY <2>1, <2>2, <2>3 DEF TypeOK, Last
<1>2. LbInv
  BY <1>1 DEF LbInv
<1>3. NetInv
  <2>1. \A k \in Numa, i \in Offset : idx[k] = 0 /\ use[<<k, i>>] = 0
    BY DEF Cpu
  <2>2. \A i \in Offset : ~(i < 0)
    BY DEF Offset
  <2> QED BY <1>1, <2>1, <2>2 DEF NetInv, RoundOf
<1> QED BY <1>1, <1>2, <1>3 DEF AllocInv

\* Every step keeps the invariant.
LEMMA AllocStep == AllocInv /\ [Next]_vars => AllocInv'
<1> SUFFICES ASSUME AllocInv, [Next]_vars PROVE AllocInv'
  OBVIOUS
<1>1. ASSUME NEW r \in 0 .. MaxReq, LbGuaranteed(r) PROVE AllocInv'
  BY <1>1, LbGuaranteedKeeps
<1>2. CASE LbShared
  BY <1>2, LbSharedKeeps
<1>3. CASE LbNext
  BY <1>3, LbNextKeeps
<1>4. CASE LbOverflow
  BY <1>4, LbOverflowKeeps
<1>5. CASE LbPanic
  BY <1>5, LbPanicKeeps
<1>6. ASSUME NEW k \in Numa, NEW r \in 0 .. MaxReq, NetGuaranteed(k, r) PROVE AllocInv'
  BY <1>6, NetGuaranteedKeeps
<1>7. ASSUME NEW k \in Numa, NetShared(k) PROVE AllocInv'
  BY <1>7, NetSharedKeeps
<1>8. CASE NetNext
  BY <1>8, NetNextKeeps
<1>9. CASE UNCHANGED vars
  BY <1>9 DEF AllocInv, TypeOK, LbInv, NetInv, RoundOf, AllCpus, Last, vars
<1> QED BY <1>1, <1>2, <1>3, <1>4, <1>5, <1>6, <1>7, <1>8, <1>9 DEF Next

\* The invariant of the other theorems.
LEMMA AllocInvariant == Spec => []AllocInv
BY AllocInit, AllocStep, PTL DEF Spec

\* Every value of the allocation keeps its type: no index of either tick leaves
\* the machine's CPUs except by the panic the model has.
THEOREM AllocTypeOK == Spec => []TypeOK
<1>1. AllocInv => TypeOK
  BY DEF AllocInv
<1> QED BY <1>1, AllocInvariant, PTL

\* Load balancing panics, or names a NUMA node that does not exist, only when it
\* has handed out every CPU of the machine.
THEOREM PanicOnlyWhenFull == Spec => []RunsOutWhenFull
<1>1. AllocInv => RunsOutWhenFull
  <2> SUFFICES ASSUME AllocInv, policy = "load_balance",
                      crashed \/ \E i \in 1 .. Last : placed[i].numa = N,
                      NEW c \in Cpu
               PROVE  use[c] > 0
    BY DEF RunsOutWhenFull
  <2>1. next = N * C /\ \A i \in 0 .. N * C - 1 : use[AllCpus(i)] > 0
    BY DEF AllocInv, LbInv
  <2>2. PICK k \in Numa, o \in Offset : c = <<k, o>>
    BY DEF Cpu
  <2>3. k * C + o \in 0 .. N * C - 1 /\ AllCpus(k * C + o) = c
    BY <2>2, AllocAssumption, IndexOfCpu DEF AllCpus, Numa, Offset
  <2> QED BY <2>1, <2>3
<1> QED BY <1>1, AllocInvariant, PTL

\* The network-affinity tick never hands one CPU of a NUMA node out twice more
\* often than another.
THEOREM CpusBalanced == Spec => []CpuBalanced
<1>1. AllocInv => CpuBalanced
  <2> SUFFICES ASSUME AllocInv, policy = "net_affinity", NEW k \in Numa,
                      NEW i \in Offset, NEW j \in Offset
               PROVE  use[<<k, i>>] <= use[<<k, j>>] + 1
    BY DEF CpuBalanced
  <2>1. use[<<k, i>>] \in Nat /\ use[<<k, j>>] \in Nat /\ idx[k] \in Nat /\ i \in Nat /\ j \in Nat
    BY AllocAssumption DEF AllocInv, TypeOK, Cpu, Offset
  <2>2. RoundOf(k)
    BY DEF AllocInv, NetInv
  <2> QED BY <2>1, <2>2 DEF RoundOf
<1> QED BY <1>1, AllocInvariant, PTL

\* What is handed out stays different, step by step.
LEMMA HandedStep == AllocInv /\ Handed /\ [Next]_vars => Handed'
<1> SUFFICES ASSUME AllocInv, Handed, [Next]_vars PROVE Handed'
  OBVIOUS
<1>1. ASSUME NEW r \in 0 .. MaxReq, LbGuaranteed(r) PROVE Handed'
  BY <1>1, LbGuaranteedHands
<1>2. CASE LbShared
  BY <1>2, LbSharedHands
<1>3. CASE LbNext
  BY <1>3, LbNextHands
<1>4. CASE LbOverflow
  BY <1>4, LbOverflowHands
<1>5. CASE LbPanic
  BY <1>5, LbPanicHands
<1>6. ASSUME NEW k \in Numa, NEW r \in 0 .. MaxReq, NetGuaranteed(k, r) PROVE Handed'
  BY <1>6, NetGuaranteedHands
<1>7. ASSUME NEW k \in Numa, NetShared(k) PROVE Handed'
  BY <1>7, NetSharedHands
<1>8. CASE NetNext
  BY <1>8, NetNextHands
<1>9. CASE UNCHANGED vars
  BY <1>9 DEF vars, Handed, Wanting, Counted, LbFresh, NetFresh, Apart, Inside, Busy,
              Taken, Low, InNode, Last, AllCpus
<1> QED BY <1>1, <1>2, <1>3, <1>4, <1>5, <1>6, <1>7, <1>8, <1>9 DEF Next

\* The invariant of the two theorems below.
LEMMA HandedInvariant == Spec => [](AllocInv /\ Handed)
<1>1. Init => Handed
  <2> SUFFICES ASSUME Init PROVE Handed
    OBVIOUS
  <2>1. Last = 0 /\ left = 0
    BY DEF Init, Last
  <2>2. ~(left > 0) /\ \A i \in 1 .. Last : FALSE
    BY <2>1
  <2> QED BY <2>2 DEF Handed, Wanting, Counted, LbFresh, NetFresh, Apart, Busy
<1> QED BY <1>1, AllocInit, AllocStep, HandedStep, PTL DEF Spec

\* A Guaranteed pod that asks for no more CPUs than a NUMA node has gets that many
\* different ones: neither index comes back to a CPU it gave the pod, and the two
\* indices of load balancing do not meet.
THEOREM EnoughForEveryPod == Spec => []EnoughCpus
<1>1. AllocInv /\ Handed => EnoughCpus
  <2> SUFFICES ASSUME AllocInv, Handed, NEW i \in Done, placed[i].req <= C
               PROVE  Cardinality(placed[i].cpus) = placed[i].req
    BY DEF EnoughCpus
  <2>1. i \in 1 .. Last /\ placed[i].guaranteed /\ (i = Last => left = 0)
    BY DEF Done
  <2>2. Cardinality(placed[i].cpus) = IF i = Last THEN Taken ELSE placed[i].req
    BY <2>1 DEF Handed, Counted
  <2>3. placed[i].req \in Nat
    <3>1. placed[i] \in Placement
      BY <2>1 DEF AllocInv, TypeOK, Last
    <3> QED BY <3>1, AllocAssumption DEF Placement
  <2>4. i = Last => Taken = placed[i].req - 0
    BY <2>1 DEF Taken
  <2> QED BY <2>2, <2>3, <2>4
<1> QED BY <1>1, HandedInvariant, PTL

\* Under load balancing no CPU belongs to two Guaranteed pods that both stayed
\* inside their NUMA nodes.
THEOREM InsidePodsExclusive == Spec => []Exclusive
<1>1. Handed => Exclusive
  BY DEF Handed, Apart, Exclusive, Inside, Done
<1> QED BY <1>1, HandedInvariant, PTL
=============================================================================
