------------------------ MODULE AffinityServerProof ------------------------
(***************************************************************************)
(* Proofs about AffinityServer for every machine, request and report.      *)
(*                                                                         *)
(* The forest in fa is described by two functions that the program does    *)
(* not have: L gives the root of every pod's tree, and rank grows from a   *)
(* pod to its parent.  With rank there is no cycle, so the frames of find  *)
(* are different pods and the stack suffices; with L what find returns is  *)
(* known before it does.  Both belong to a call that is alone, since no    *)
(* other one changes fa then.                                              *)
(***************************************************************************)
EXTENDS AffinityServer, FiniteSetTheorems, SequenceTheorems, WellFoundedInduction, TLAPS

\* The number of nodes is known while a call runs whose agent asked this server.
NodesKnown ==
    /\ agent = "asked" => numaNums = NumaCount
    /\ \A s \in Slot : call[s].pc \notin {"idle", "done"} /\ ~call[s].stale
                         => numaNums = NumaCount

\* What the callback does not have to write any more is as reported.
Written == /\ relsNums = Len(report)
           /\ \A k \in 1 .. Len(report), f \in {1, 2} :
                \/ \E j \in 1 .. Len(todo) : todo[j] = <<k, f>>
                \/ rels[k][f] = report[k][f]

\* A call that no callback disturbs reads the report and nothing else ...
ReadsReport(c, reported, unwritten) == ~c.torn =>
    /\ c.pc \in {"pairs", "field"} =>
          /\ unwritten = <<>> /\ c.src = reported /\ c.i = Len(reported)
          /\ \A k \in 1 .. Len(c.seen) : c.seen[k] = reported[k]
    /\ c.pc = "field" => c.ret = reported[Len(c.seen) + 1][1]
    /\ c.pc = "tids" => c.seen = c.src
    \* ... and joins what is related.
    /\ c.pc = "init" /\ c.alone => c.aff = c.want

\* Under every pod x of n there is a tree in f with the root L[x].
Rooted(f, n, L, rank) ==
    \A x \in Pods(n) :
       /\ f[x] \in Pods(n) /\ L[x] \in Pods(n) /\ rank[x] \in Nat
       /\ L[f[x]] = L[x] /\ f[L[x]] = L[x]
       /\ f[x] = x => L[x] = x
       /\ f[x] # x => rank[x] < rank[f[x]] /\ rank[x] < rank[L[x]]

\* The frames of find lead from a pod towards its root.
Climbs(c, f, L, rank) == InFind(c) =>
    /\ \A k \in 1 .. Len(c.st) : c.st[k] \in Pods(c.n) /\ L[c.st[k]] = L[c.st[1]]
    /\ \A j, k \in 1 .. Len(c.st) : j < k => rank[c.st[j]] < rank[c.st[k]]
    /\ c.pc = "back" => f[Top(c)] = L[c.st[1]]
    /\ c.pc = "set" => c.ret = L[c.st[1]]
    /\ c.use = "x" => c.st[1] = First(c.left)[1]
    /\ c.use = "y" => c.st[1] = First(c.left)[2] /\ c.rx = L[First(c.left)[1]]
    /\ c.use = "group" => c.st[1] = Len(c.root)

\* What the call has of the forest beside the frames
Knows(c, L) ==
    /\ c.pc \in InFa => \A j \in 1 .. Len(c.root) : c.root[j] = L[j - 1]
    /\ c.pc = "link" => /\ c.rx \in Pods(c.n) /\ L[c.rx] = c.rx
                        /\ c.ret \in Pods(c.n) /\ L[c.ret] = c.ret
                        /\ c.rx # c.ret
    /\ c.pc = "group" => c.left = {}

\* Trees are joined for the sake of a pair, and pairs that are done are joined.
Joined(c, L) ==
    /\ c.left \subseteq c.want
    /\ \A x \in Pods(c.n) : L[x] \in Component(c.n, c.want, x)
    /\ \A p \in c.want \ c.left :
          L[p[1]] = L[p[2]] \/ (c.pc = "link" /\ L[p[1]] = c.rx /\ L[p[2]] = c.ret)
    /\ c.pc = "link" => \E p \in c.want : L[p[1]] = c.rx /\ L[p[2]] = c.ret

Forest(c, f) ==
    c.alone /\ c.pc \in InFa =>
       IF c.pc = "init" THEN \A x \in 0 .. c.i - 1 : f[x] = x
       ELSE \E L \in [Pods(c.n) -> Pods(c.n)], rank \in [Pods(c.n) -> Nat] :
              /\ Rooted(f, c.n, L, rank) /\ Climbs(c, f, L, rank) /\ Knows(c, L)
              /\ ~c.torn => Joined(c, L)

Reads == Written /\ \A s \in Slot : ReadsReport(call[s], report, todo)
Forests == \A s \in Slot : Forest(call[s], fa)
-----------------------------------------------------------------------------
(* Requests, machines and pairs                                            *)

\* A request has pods, and a machine has NUMA nodes.
LEMMA SizeFacts == /\ FaSize \in Nat /\ RelSize \in Nat /\ MaxDepth \in Nat \ {0}
                   /\ MaxDepth >= FaSize - 1
                   /\ \A n \in Sizes : n \in Nat \ {0}
                   /\ TypeOK => NumaCount \in Nat \ {0}
<1>1. \A n \in Sizes : n \in Nat \ {0}
  BY AffinityAssumption
<1>2. ASSUME TypeOK PROVE NumaCount \in Nat \ {0}
  <2> DEFINE N == DOMAIN CpusOf[kind]
  <2>1. IsFiniteSet(N) /\ N # {}
    BY <1>2, AffinityAssumption DEF TypeOK
  <2>2. Cardinality(N) \in Nat /\ Cardinality(N) # 0
    BY <2>1, FS_EmptySet, FS_CardinalityType
  <2> QED BY <2>2 DEF NumaCount, get_numa_info
<1>3. /\ FaSize \in Nat /\ RelSize \in Nat /\ MaxDepth \in Nat \ {0}
      /\ MaxDepth >= FaSize - 1
  BY AffinityAssumption
<1> QED BY <1>1, <1>2, <1>3

\* A set of natural numbers has a smallest one.
LEMMA Smallest ==
    ASSUME NEW S \in SUBSET Nat, S # {}
    PROVE  \E x \in S : \A y \in S : x <= y
<1>1. PICK x \in S : \A y \in S : ~ (<<y, x>> \in OpToRel(<, Nat))
  BY NatLessThanWellFounded, WFMin
<1>2. \A y \in S : ~ (y < x)
  BY <1>1 DEF OpToRel
<1> QED BY <1>2

\* The loops find the first pair, as long as there is one.
LEMMA FirstFacts ==
    ASSUME NEW n \in Nat, NEW R \in SUBSET Pairs(n), R # {}
    PROVE  First(R) \in R
<1> DEFINE A == {p[1] : p \in R}
<1>1. A \in SUBSET Nat /\ A # {}
  BY DEF Pairs, Pods
<1>2. PICK a \in A : \A b \in A : a <= b
  BY <1>1, Smallest
<1> DEFINE B == {p[2] : p \in {q \in R : q[1] = a}}
<1>3. B \in SUBSET Nat /\ B # {}
  BY DEF Pairs, Pods
<1>4. PICK b \in B : \A c \in B : b <= c
  BY <1>3, Smallest
<1>5. PICK p \in R : p[1] = a /\ p[2] = b
  OBVIOUS
<1>6. ASSUME NEW q \in R PROVE p[1] < q[1] \/ (p[1] = q[1] /\ p[2] <= q[2])
  <2>1. a <= q[1] /\ a \in Nat /\ q[1] \in Nat
    BY <1>1, <1>2
  <2>2. q[1] = a => b <= q[2]
    BY <1>4
  <2> QED BY <1>5, <2>1, <2>2
<1>7. \E r \in R : \A q \in R : r[1] < q[1] \/ (r[1] = q[1] /\ r[2] <= q[2])
  BY <1>6
<1> QED BY <1>7 DEF First

\* The pods of a pair
LEMMA PairFacts ==
    ASSUME NEW n \in Nat, NEW p \in Pairs(n)
    PROVE  p[1] \in Pods(n) /\ p[2] \in Pods(n)
BY DEF Pairs

-----------------------------------------------------------------------------
(* Types                                                                   *)

\* What every call on fa has once it has set its elements
Base(c) == /\ DOMAIN c = DOMAIN Blank
           /\ c.n \in Sizes /\ c.n < FaSize
           /\ c.torn \in BOOLEAN /\ c.stale \in BOOLEAN /\ c.alone \in BOOLEAN
           /\ c.left \subseteq Pairs(c.n) /\ c.aff \subseteq Pairs(c.n)
           /\ c.want \subseteq Pairs(c.n)
           /\ c.seen \in Seq(Tid \X Tid)
           /\ c.root \in Seq(Index)

LEMMA BlankFacts ==
    /\ DOMAIN Blank = {"pc", "n", "seen", "src", "torn", "stale", "aff", "want", "alone",
                       "left", "i", "rx", "st", "use", "ret", "root", "answer"}
    /\ Blank.pc = "idle" /\ CallOK(Blank)
<1>1. /\ DOMAIN Blank = {"pc", "n", "seen", "src", "torn", "stale", "aff", "want", "alone",
                         "left", "i", "rx", "st", "use", "ret", "root", "answer"}
      /\ Blank.pc = "idle"
  BY DEF Blank
<1>2. CallOK(Blank)
  BY SizeFacts DEF Blank, CallOK, InFind, InFa, Reading
<1> QED BY <1>1, <1>2

\* What a call is when it starts find
LEMMA FindFields ==
    ASSUME NEW c, DOMAIN c = DOMAIN Blank, NEW x, NEW use
    PROVE  LET d == Find(c, x, use) IN
           /\ DOMAIN d = DOMAIN Blank
           /\ d.pc = "find" /\ d.n = c.n /\ d.torn = c.torn /\ d.stale = c.stale
           /\ d.alone = c.alone /\ d.left = c.left /\ d.aff = c.aff /\ d.want = c.want
           /\ d.seen = c.seen /\ d.root = c.root /\ d.rx = c.rx
           /\ d.st = <<x>> /\ d.use = use
BY BlankFacts DEF Find

LEMMA FindOK ==
    ASSUME NEW c, Base(c), NEW x \in Index, NEW use \in {"x", "y", "group"},
           use = "group" <=> c.left = {}, use = "y" => c.rx \in Index,
           IF use = "group" THEN Len(c.root) < c.n ELSE c.root = <<>>
    PROVE  CallOK(Find(c, x, use))
<1> DEFINE d == Find(c, x, use)
<1>1. /\ DOMAIN d = DOMAIN Blank
      /\ d.pc = "find" /\ d.n = c.n /\ d.torn = c.torn /\ d.stale = c.stale
      /\ d.alone = c.alone /\ d.left = c.left /\ d.aff = c.aff /\ d.want = c.want
      /\ d.seen = c.seen /\ d.root = c.root /\ d.rx = c.rx
      /\ d.st = <<x>> /\ d.use = use
  BY FindFields DEF Base
<1>2. <<x>> \in Seq(Index) /\ Len(<<x>>) = 1 /\ <<x>> # <<>>
  OBVIOUS
<1> HIDE DEF d
<1>3. CallOK(d)
  BY <1>1, <1>2, SizeFacts DEF Base, CallOK, InFind, InFa, Reading
<1> QED BY <1>3 DEF d

\* What a call is when it goes on to the next pair
LEMMA NextFields ==
    ASSUME NEW c, DOMAIN c = DOMAIN Blank
    PROVE  LET d == NextPair(c) IN
           /\ DOMAIN d = DOMAIN Blank
           /\ d.pc = "find" /\ d.n = c.n /\ d.torn = c.torn /\ d.stale = c.stale
           /\ d.alone = c.alone /\ d.left = c.left /\ d.aff = c.aff /\ d.want = c.want
           /\ d.seen = c.seen /\ d.root = c.root /\ d.rx = c.rx
           /\ c.left = {} => d.st = <<0>> /\ d.use = "group"
           /\ c.left # {} => d.st = <<First(c.left)[1]>> /\ d.use = "x"
BY FindFields DEF NextPair

LEMMA NextPairOK ==
    ASSUME NEW c, Base(c), c.root = <<>>
    PROVE  CallOK(NextPair(c))
<1>0. c.n \in Nat \ {0} /\ c.left \in SUBSET Pairs(c.n) /\ Pods(c.n) \subseteq Index
  <2>1. c.n \in Nat \ {0} /\ c.n < FaSize /\ c.left \in SUBSET Pairs(c.n)
    BY SizeFacts DEF Base
  <2> QED BY <2>1, SizeFacts DEF Pods, Index
<1>1. CASE c.left = {}
  <2>1. 0 \in Index /\ Len(c.root) = 0
    BY <1>0, SizeFacts DEF Base, Index
  <2>2. CallOK(Find(c, 0, "group"))
    BY <1>0, <1>1, <2>1, FindOK
  <2> QED BY <1>1, <2>2 DEF NextPair
<1>2. CASE c.left # {}
  <2>1. First(c.left)[1] \in Index
    BY <1>0, <1>2, FirstFacts, PairFacts
  <2>2. CallOK(Find(c, First(c.left)[1], "x"))
    BY <1>2, <2>1, FindOK
  <2> QED BY <1>2, <2>2 DEF NextPair
<1> QED BY <1>1, <1>2

\* A call that is disturbed on fa keeps its type.
LEMMA MetOK ==
    ASSUME NEW c, CallOK(c), c.pc \in InFa
    PROVE  CallOK([c EXCEPT !.alone = FALSE, !.want = {}])
<1> DEFINE d == [c EXCEPT !.alone = FALSE, !.want = {}]
<1>1. /\ DOMAIN d = DOMAIN Blank
      /\ d.pc = c.pc /\ d.n = c.n /\ d.torn = c.torn /\ d.stale = c.stale
      /\ d.alone = FALSE /\ d.left = c.left /\ d.aff = c.aff /\ d.want = {}
      /\ d.seen = c.seen /\ d.root = c.root /\ d.rx = c.rx /\ d.ret = c.ret /\ d.i = c.i
      /\ d.st = c.st /\ d.use = c.use
  BY BlankFacts DEF CallOK
<1> HIDE DEF d
<1>2. CallOK(d)
  BY <1>1 DEF CallOK, InFind, InFa
<1> QED BY <1>2 DEF d

\* The steps that keep to one call
LEMMA GoesFacts ==
    ASSUME TypeOK, NEW s \in Slot, NEW c, Goes(s, c)
    PROVE  /\ DOMAIN call' = Slot /\ call'[s] = c
           /\ \A t \in Slot \ {s} : call'[t] = call[t]
           /\ NumaCount' = NumaCount
           /\ CallOK(c) => TypeOK'
<1>1. /\ DOMAIN call' = Slot /\ call'[s] = c
      /\ \A t \in Slot \ {s} : call'[t] = call[t]
  BY DEF Goes, TypeOK
<1>2. NumaCount' = NumaCount
  BY DEF Goes, NumaCount, get_numa_info
<1>3. ASSUME CallOK(c) PROVE TypeOK'
  <2>1. \A t \in Slot : CallOK(call'[t])
    BY <1>1, <1>3 DEF TypeOK
  <2> QED BY <1>1, <1>2, <2>1 DEF TypeOK, Goes, agentVars, dataVars
<1> QED BY <1>1, <1>2, <1>3

\* The steps on fa: other calls on fa are disturbed, and disturb.
LEMMA GoesOnFacts ==
    ASSUME TypeOK, NEW s \in Slot, NEW c, c.pc \in InFa, DOMAIN c = DOMAIN Blank,
           call[s].pc \in InFa, GoesOn(s, c), UNCHANGED Local, fa' \in [Index -> Index]
    PROVE  /\ DOMAIN call' = Slot /\ NumaCount' = NumaCount
           /\ \A t \in Slot \ {s} : /\ call[t].pc \in InFa => ~call'[t].alone
                                    /\ call[t].pc \notin InFa => call'[t] = call[t]
                                    /\ call'[t].pc = call[t].pc /\ call'[t].stale = call[t].stale
           /\ call'[s] = c \/ (~call'[s].alone /\ call'[s].pc = c.pc /\ call'[s].stale = c.stale)
           /\ CallOK(c) => TypeOK'
<1> DEFINE others == {t \in Slot \ {s} : call[t].pc \in InFa}
           met(d) == [d EXCEPT !.alone = FALSE, !.want = {}]
<1>1. call' = [t \in Slot |-> IF t \in others THEN met(call[t])
                             ELSE IF t # s THEN call[t]
                             ELSE IF others = {} THEN c ELSE met(c)]
  BY DEF GoesOn
<1>2. ASSUME NEW d, DOMAIN d = DOMAIN Blank
      PROVE  ~met(d).alone /\ met(d).pc = d.pc /\ met(d).stale = d.stale
  BY <1>2, BlankFacts
<1>3. ASSUME NEW d, CallOK(d), d.pc \in InFa PROVE CallOK(met(d))
  BY <1>3, MetOK
<1>4. \A t \in Slot : DOMAIN call[t] = DOMAIN Blank /\ CallOK(call[t])
  BY DEF TypeOK, CallOK
<1> HIDE DEF met
<1>5. \A t \in Slot \ {s} : /\ call[t].pc \in InFa => ~call'[t].alone
                            /\ call[t].pc \notin InFa => call'[t] = call[t]
                            /\ call'[t].pc = call[t].pc /\ call'[t].stale = call[t].stale
  BY <1>1, <1>2, <1>4
<1>6. call'[s] = c \/ (~call'[s].alone /\ call'[s].pc = c.pc /\ call'[s].stale = c.stale)
  BY <1>1, <1>2
<1>7. NumaCount' = NumaCount
  BY DEF Local, NumaCount, get_numa_info
<1>8. ASSUME CallOK(c) PROVE TypeOK'
  <2>1. \A t \in Slot : CallOK(call'[t])
    BY <1>1, <1>3, <1>4, <1>8
  <2> QED BY <1>1, <1>7, <2>1 DEF TypeOK, Local, agentVars, dataVars
<1> QED BY <1>1, <1>5, <1>6, <1>7, <1>8

\* The end of the process
LEMMA EndsFacts ==
    ASSUME TypeOK, NEW how \in {"down", "panic"}, Ends(how)
    PROVE  TypeOK' /\ \A s \in Slot : call'[s] = Blank
<1>1. NumaCount' = NumaCount
  BY DEF Ends, NumaCount, get_numa_info
<1>2. DOMAIN call' = Slot /\ \A s \in Slot : call'[s] = Blank
  BY DEF Ends
<1>3. fa' \in [Index -> Index]
  BY SizeFacts DEF Ends, Index
<1>4. /\ relsNums' \in 0 .. RelSize /\ rels' \in [1 .. RelSize -> Tid \X Tid]
      /\ report' = <<>> /\ todo' = <<>> /\ todo' \in Seq((1 .. Len(report')) \X {1, 2})
  BY SizeFacts DEF Ends, Tid
<1> QED BY <1>1, <1>2, <1>3, <1>4, BlankFacts DEF TypeOK, Ends

\* The steps of the process, the callback and the agent
LEMMA ProcessTypes == ASSUME TypeOK, Process PROVE TypeOK'
<1>1. CASE Serve
  BY <1>1 DEF TypeOK, Serve, dataVars, agentVars, NumaCount, get_numa_info
<1>2. CASE Kill
  BY <1>2, EndsFacts DEF Kill
<1>3. CASE Signal
  BY <1>3 DEF TypeOK, Signal, dataVars, agentVars, NumaCount, get_numa_info
<1>4. CASE Drained
  BY <1>4, EndsFacts DEF Drained
<1> QED BY <1>1, <1>2, <1>3, <1>4 DEF Process

\* What the callback has to write: every field once
AllFields(m) == [k \in 1 .. 2 * m |-> <<(k + 1) \div 2, 2 - (k % 2)>>]

HasAll(q, m) == \A k \in 1 .. m, f \in {1, 2} : \E j \in 1 .. Len(q) : q[j] = <<k, f>>

LEMMA TodoFacts ==
    ASSUME NEW m \in Nat, NEW q, q = AllFields(m)
    PROVE  /\ q \in Seq((1 .. m) \X {1, 2}) /\ Len(q) = 2 * m
           /\ HasAll(q, m)
<1>1. \A k \in 1 .. 2 * m : (k + 1) \div 2 \in 1 .. m /\ 2 - (k % 2) \in {1, 2}
  OBVIOUS
<1>2. \A k \in 1 .. 2 * m : q[k] \in (1 .. m) \X {1, 2}
  BY <1>1 DEF AllFields
<1>3. q \in Seq((1 .. m) \X {1, 2}) /\ Len(q) = 2 * m
  BY <1>2 DEF AllFields
<1>4. ASSUME NEW k \in 1 .. m, NEW f \in {1, 2}
      PROVE  \E j \in 1 .. Len(q) : q[j] = <<k, f>>
  <2> DEFINE j == 2 * k + f - 2
  <2>1. j \in 1 .. 2 * m /\ (j + 1) \div 2 = k /\ 2 - (j % 2) = f
    <3>1. CASE f = 1
      <4>1. j = 2 * k - 1 /\ k \in Nat /\ k >= 1 /\ k <= m
        BY <3>1
      <4>2. j \in Nat /\ j >= 1 /\ j <= 2 * m /\ j + 1 = 2 * k
        BY <4>1
      <4>3. (j + 1) \div 2 = k /\ j % 2 = 1
        BY <4>1, <4>2
      <4> QED BY <3>1, <4>2, <4>3
    <3>2. CASE f = 2
      <4>1. j = 2 * k /\ k \in Nat /\ k >= 1 /\ k <= m
        BY <3>2
      <4>2. (j + 1) \div 2 = k /\ j % 2 = 0
        BY <4>1
      <4> QED BY <3>2, <4>1, <4>2
    <3> QED BY <3>1, <3>2
  <2>2. q[j] = <<k, f>>
    BY <2>1 DEF AllFields
  <2> QED BY <1>3, <2>1, <2>2
<1> QED BY <1>3, <1>4 DEF HasAll

\* A report is a sequence of pairs of thread ids that fits its array.
LEMMA ReportFacts ==
    /\ \A r \in Reports \cup {<<>>} : r \in Seq(Nat \X Nat) /\ Len(r) \in 0 .. RelSize
    /\ TypeOK => report \in Seq(Nat \X Nat) /\ Len(report) \in 0 .. RelSize
<1>1. \A r \in Reports \cup {<<>>} : r \in Seq(Nat \X Nat) /\ Len(r) \in 0 .. RelSize
  <2>1. \A r \in Reports : r \in Seq(Nat \X Nat) /\ Len(r) <= RelSize
    BY AffinityAssumption
  <2>2. \A r \in Reports : Len(r) \in 0 .. RelSize
    BY <2>1, SizeFacts
  <2>3. <<>> \in Seq(Nat \X Nat) /\ Len(<<>>) \in 0 .. RelSize
    BY SizeFacts
  <2> QED BY <2>1, <2>2, <2>3
<1> QED BY <1>1 DEF TypeOK

\* What a new report changes
LEMMA ReportTypes ==
    ASSUME TypeOK, NEW r \in Reports, phraseData(r)
    PROVE  /\ TypeOK'
           /\ \A s \in Slot : /\ call[s].pc \in Reading
                                   => call'[s] = [call[s] EXCEPT !.torn = TRUE]
                              /\ call[s].pc \notin Reading => call'[s] = call[s]
<1>1. /\ DOMAIN call' = Slot
      /\ \A s \in Slot : /\ call[s].pc \in Reading => call'[s] = [call[s] EXCEPT !.torn = TRUE]
                         /\ call[s].pc \notin Reading => call'[s] = call[s]
  BY DEF phraseData
<1>2. ASSUME NEW c, CallOK(c), c.pc \in Reading PROVE CallOK([c EXCEPT !.torn = TRUE])
  <2> DEFINE d == [c EXCEPT !.torn = TRUE]
  <2>1. /\ DOMAIN d = DOMAIN Blank
        /\ d.pc = c.pc /\ d.n = c.n /\ d.torn = TRUE /\ d.stale = c.stale
        /\ d.alone = c.alone /\ d.left = c.left /\ d.aff = c.aff /\ d.want = c.want
        /\ d.seen = c.seen /\ d.root = c.root /\ d.rx = c.rx /\ d.ret = c.ret /\ d.i = c.i
        /\ d.st = c.st /\ d.use = c.use
    BY <1>2, BlankFacts DEF CallOK
  <2> HIDE DEF d
  <2>2. CallOK(d)
    BY <1>2, <2>1 DEF CallOK, InFind, InFa, Reading
  <2> QED BY <2>2 DEF d
<1>3. \A s \in Slot : CallOK(call'[s])
  BY <1>1, <1>2 DEF TypeOK
<1>4. Len(r) \in 0 .. RelSize /\ Len(r) \in Nat /\ report' = r
  BY ReportFacts, SizeFacts DEF phraseData
<1>5. todo' \in Seq((1 .. Len(report')) \X {1, 2})
  <2>1. todo' = AllFields(Len(r))
    BY DEF phraseData, AllFields
  <2> QED BY <1>4, <2>1, TodoFacts
<1>6. NumaCount' = NumaCount
  BY DEF phraseData, NumaCount, get_numa_info
<1>7. TypeOK'
  BY <1>1, <1>3, <1>4, <1>5, <1>6 DEF TypeOK, phraseData, agentVars
<1> QED BY <1>1, <1>7

\* What the next write of the callback changes
LEMMA WriteTypes ==
    ASSUME TypeOK, WriteField
    PROVE  /\ TypeOK'
           /\ \E k \in 1 .. Len(report), f \in {1, 2} :
                /\ todo[1] = <<k, f>> /\ todo' = Tail(todo) /\ k \in 1 .. RelSize
                /\ rels'[k][f] = report[k][f] /\ rels'[k][3 - f] = rels[k][3 - f]
                /\ \A j \in (1 .. RelSize) \ {k} : rels'[j] = rels[j]
<1> DEFINE k == Head(todo)[1]
           f == Head(todo)[2]
           p == [rels[k] EXCEPT ![f] = report[k][f]]
<1>1. todo # <<>> /\ todo \in Seq((1 .. Len(report)) \X {1, 2})
  BY DEF TypeOK, WriteField
<1>2. Head(todo) = todo[1] /\ Head(todo) \in (1 .. Len(report)) \X {1, 2}
  BY <1>1
<1>3. k \in 1 .. Len(report) /\ f \in {1, 2} /\ todo[1] = <<k, f>>
  BY <1>2
<1>4. k \in 1 .. RelSize /\ report[k] \in Nat \X Nat
  <2>1. report \in Seq(Nat \X Nat) /\ Len(report) \in 0 .. RelSize
    BY ReportFacts
  <2>2. \A j \in 1 .. Len(report) : j \in 1 .. RelSize /\ report[j] \in Nat \X Nat
    BY <2>1, SizeFacts
  <2> QED BY <1>3, <2>2
<1>5. rels[k] \in Tid \X Tid
  BY <1>4 DEF TypeOK
<1>6. report[k][f] \in Tid
  BY <1>3, <1>4 DEF Tid
<1>7. p \in Tid \X Tid /\ p[f] = report[k][f] /\ p[3 - f] = rels[k][3 - f]
  <2>1. CASE f = 1
    BY <1>5, <1>6, <2>1
  <2>2. CASE f = 2
    BY <1>5, <1>6, <2>2
  <2> QED BY <1>3, <2>1, <2>2
<1>8. rels' = [rels EXCEPT ![k] = p] /\ todo' = Tail(todo)
  BY DEF WriteField
<1>9. Tail(todo) \in Seq((1 .. Len(report)) \X {1, 2})
  BY <1>1
<1> HIDE DEF k, f, p
<1>10. /\ rels' \in [1 .. RelSize -> Tid \X Tid] /\ rels'[k] = p
       /\ \A j \in (1 .. RelSize) \ {k} : rels'[j] = rels[j]
  BY <1>4, <1>7, <1>8 DEF TypeOK
<1>11. NumaCount' = NumaCount
  BY DEF WriteField, NumaCount, get_numa_info
<1>12. TypeOK'
  BY <1>8, <1>9, <1>10, <1>11 DEF TypeOK, WriteField, agentVars
<1> QED BY <1>3, <1>4, <1>7, <1>8, <1>10, <1>12

\* The agent's steps
LEMMA AgentTypes == ASSUME TypeOK, Agent PROVE TypeOK'
<1>0. kind' = kind => NumaCount' = NumaCount
  BY DEF NumaCount, get_numa_info
<1>1. CASE GetNumaNodeInof
  BY <1>0, <1>1 DEF TypeOK, GetNumaNodeInof, Counted, dataVars
<1>2. CASE CpusetOverflow
  BY <1>2, EndsFacts DEF CpusetOverflow
<1>3. CASE CallFails
  BY <1>0, <1>3 DEF TypeOK, CallFails, dataVars
<1>4. CASE AgentEnds
  BY <1>0, <1>4 DEF TypeOK, AgentEnds, dataVars
<1>5. ASSUME NEW s \in Slot, NEW n \in Sizes, GetPodAffinity(s, n) PROVE TypeOK'
  <2> DEFINE d == [Blank EXCEPT !.pc = IF kind = "netrela" THEN "nums" ELSE "tids",
                                !.n = n, !.stale = (agent = "stale")]
  <2>1. /\ DOMAIN d = DOMAIN Blank
        /\ d.pc \in {"nums", "tids"} /\ d.n = n /\ d.stale \in BOOLEAN
        /\ d.torn = FALSE /\ d.alone = TRUE /\ d.left = {} /\ d.aff = {} /\ d.want = {}
        /\ d.seen = <<>> /\ d.st = <<>> /\ d.use = "x" /\ d.root = <<>>
    BY DEF Blank
  <2>2. call' = [call EXCEPT ![s] = d]
    BY <1>5 DEF GetPodAffinity
  <2> HIDE DEF d
  <2>3. CallOK(d)
    <3>1. /\ d.seen \in Seq(Tid \X Tid) /\ d.st \in Seq(Index) /\ d.root \in Seq(Index)
          /\ Len(d.st) <= MaxDepth
      BY <2>1, SizeFacts
    <3>2. d.left \cup d.aff \cup d.want \subseteq Pairs(d.n)
      BY <2>1
    <3> QED BY <2>1, <3>1, <3>2 DEF CallOK, InFind, InFa, Reading
  <2>4. DOMAIN call' = Slot /\ \A t \in Slot : CallOK(call'[t])
    BY <2>2, <2>3 DEF TypeOK
  <2>5. mine' \in Slot /\ mine' # 0
    BY <1>5 DEF GetPodAffinity, Slot
  <2> QED BY <1>0, <1>5, <2>4, <2>5 DEF TypeOK, GetPodAffinity, dataVars
<1> QED BY <1>1, <1>2, <1>3, <1>4, <1>5 DEF Agent

\* What a call reads of the report
LEMMA ReadTypes ==
    ASSUME TypeOK, NEW s \in Slot, ReadNums(s) \/ ReadPidA(s) \/ ReadPidB(s)
    PROVE  TypeOK'
<1> DEFINE c == call[s]
<1>0. CallOK(c) /\ DOMAIN c = DOMAIN Blank
  BY DEF TypeOK, CallOK
<1>1. CASE ReadNums(s)
  <2> DEFINE d == [c EXCEPT !.pc = IF relsNums = 0 THEN "tids" ELSE "pairs",
                            !.i = relsNums, !.src = report, !.torn = todo # <<>>]
  <2>1. /\ DOMAIN d = DOMAIN Blank
        /\ d.pc = (IF relsNums = 0 THEN "tids" ELSE "pairs")
        /\ d.i = relsNums /\ d.torn \in BOOLEAN
        /\ d.n = c.n /\ d.stale = c.stale /\ d.alone = c.alone /\ d.left = c.left
        /\ d.aff = c.aff /\ d.want = c.want /\ d.seen = c.seen /\ d.root = c.root
        /\ d.st = c.st /\ d.use = c.use
    BY <1>0, BlankFacts
  <2>2. relsNums \in 0 .. RelSize /\ c.pc = "nums"
    BY <1>1 DEF TypeOK, ReadNums
  <2> HIDE DEF d
  <2>3. CallOK(d)
    BY <1>0, <2>1, <2>2, SizeFacts DEF CallOK, InFind, InFa, Reading
  <2>4. Goes(s, d)
    BY <1>1 DEF ReadNums, d
  <2> QED BY <2>3, <2>4, GoesFacts
<1>2. CASE ReadPidA(s)
  <2> DEFINE x == rels[Len(c.seen) + 1][1]
             d == [c EXCEPT !.pc = "field", !.ret = x]
  <2>1. /\ DOMAIN d = DOMAIN Blank
        /\ d.pc = "field" /\ d.ret = x /\ d.i = c.i /\ d.torn = c.torn
        /\ d.n = c.n /\ d.stale = c.stale /\ d.alone = c.alone /\ d.left = c.left
        /\ d.aff = c.aff /\ d.want = c.want /\ d.seen = c.seen /\ d.root = c.root
        /\ d.st = c.st /\ d.use = c.use
    BY <1>0, BlankFacts
  <2>2. c.pc = "pairs"
    BY <1>2 DEF ReadPidA
  <2>3. Len(c.seen) + 1 \in 1 .. RelSize
    BY <1>0, <2>2, SizeFacts DEF CallOK
  <2>4. x \in Tid
    BY <2>3 DEF TypeOK
  <2> HIDE DEF d, x
  <2>5. CallOK(d)
    BY <1>0, <2>1, <2>2, <2>4 DEF CallOK, InFind, InFa, Reading
  <2>6. Goes(s, d)
    BY <1>2 DEF ReadPidA, d, x
  <2> QED BY <2>5, <2>6, GoesFacts
<1>3. CASE ReadPidB(s)
  <2> DEFINE x == rels[Len(c.seen) + 1][2]
             more == Append(c.seen, <<c.ret, x>>)
             d == [c EXCEPT !.pc = IF Len(more) = c.i THEN "tids" ELSE "pairs",
                            !.seen = more, !.ret = 0]
  <2>1. /\ DOMAIN d = DOMAIN Blank
        /\ d.pc = (IF Len(more) = c.i THEN "tids" ELSE "pairs") /\ d.seen = more
        /\ d.i = c.i /\ d.torn = c.torn
        /\ d.n = c.n /\ d.stale = c.stale /\ d.alone = c.alone /\ d.left = c.left
        /\ d.aff = c.aff /\ d.want = c.want /\ d.root = c.root
        /\ d.st = c.st /\ d.use = c.use
    BY <1>0, BlankFacts
  <2>2. c.pc = "field"
    BY <1>3 DEF ReadPidB
  <2>3. /\ Len(c.seen) + 1 \in 1 .. RelSize /\ c.ret \in Tid /\ c.seen \in Seq(Tid \X Tid)
        /\ c.i \in Nat /\ Len(c.seen) < c.i
    BY <1>0, <2>2, SizeFacts DEF CallOK
  <2>4. x \in Tid
    <3>1. rels[Len(c.seen) + 1] \in Tid \X Tid
      BY <2>3 DEF TypeOK
    <3> QED BY <3>1
  <2>5. more \in Seq(Tid \X Tid) /\ Len(more) = Len(c.seen) + 1
    BY <2>3, <2>4
  <2> HIDE DEF d, x, more
  <2>6. CallOK(d)
    BY <1>0, <2>1, <2>2, <2>3, <2>5 DEF CallOK, InFind, InFa, Reading
  <2>7. Goes(s, d)
    BY <1>3 DEF ReadPidB, d, more, x
  <2> QED BY <2>6, <2>7, GoesFacts
<1> QED BY <1>1, <1>2, <1>3

LEMMA PodsFacts ==
    ASSUME NEW n \in Nat
    PROVE  IsFiniteSet(Pods(n)) /\ Cardinality(Pods(n)) = n
BY FS_Interval DEF Pods

\* Pods that are related are pods of the request.
LEMMA AffineFacts ==
    ASSUME NEW n \in Nat, NEW F, NEW r
    PROVE  Affine(r, ThreadsOf(n, F)) \subseteq Pairs(n)
<1>1. DOMAIN ThreadsOf(n, F) = 0 .. n - 1
  BY DEF ThreadsOf, Pods
<1>2. Cardinality(0 .. n - 1) = n
  BY FS_Interval
<1> QED BY <1>1, <1>2 DEF Affine

\* Asking for the threads of the pods
LEMMA ThreadTypes ==
    ASSUME TypeOK, NEW s \in Slot, getTidListForPods(s)
    PROVE  /\ TypeOK' /\ UNCHANGED <<kind, numaNums, fa, relsNums, rels, report, todo, agent>>
           /\ \A t \in Slot \ {s} : call'[t] = call[t]
           /\ LET d == call'[s] IN
              /\ call[s].pc = "tids" /\ d.pc \in {"init", "gids"} /\ d.i = 0
              /\ d.torn = call[s].torn /\ d.stale = call[s].stale
              /\ d.pc = "init" /\ call[s].seen = call[s].src => d.aff = d.want
<1> DEFINE c == call[s]
<1>0. CallOK(c) /\ DOMAIN c = DOMAIN Blank /\ c.pc = "tids"
  BY DEF TypeOK, CallOK, getTidListForPods
<1>1. PICK F \in SUBSET MayFail :
        LET T == ThreadsOf(c.n, F)
            d == [c EXCEPT !.seen = <<>>, !.src = <<>>, !.i = 0]
        IN Goes(s, IF kind = "netrela"
                     THEN [d EXCEPT !.pc = "init", !.aff = Affine(c.seen, T),
                                    !.want = Affine(c.src, T)]
                     ELSE [d EXCEPT !.pc = "gids", !.root = T])
  BY DEF getTidListForPods
<1>2. c.n \in Sizes /\ c.n \in Nat
  BY <1>0, SizeFacts DEF CallOK
<1> DEFINE T == ThreadsOf(c.n, F)
           A == Affine(c.seen, T)
           W == Affine(c.src, T)
           e == [c EXCEPT !.seen = <<>>, !.src = <<>>, !.i = 0]
           d == IF kind = "netrela" THEN [e EXCEPT !.pc = "init", !.aff = A, !.want = W]
                                    ELSE [e EXCEPT !.pc = "gids", !.root = T]
<1>3. A \subseteq Pairs(c.n) /\ W \subseteq Pairs(c.n) /\ (c.seen = c.src => A = W)
  BY <1>2, AffineFacts
<1>4. Goes(s, d)
  BY <1>1
<1> HIDE DEF A, W, T
<1>5. /\ DOMAIN d = DOMAIN Blank
      /\ d.i = 0 /\ d.torn = c.torn /\ d.n = c.n /\ d.stale = c.stale /\ d.alone = c.alone
      /\ d.left = c.left /\ d.seen = <<>> /\ d.st = c.st /\ d.use = c.use
      /\ \/ d.pc = "init" /\ d.root = c.root /\ d.aff = A /\ d.want = W
         \/ d.pc = "gids" /\ d.aff = c.aff /\ d.want = c.want
  BY <1>0, BlankFacts
<1> HIDE DEF d
<1>6. <<>> \in Seq(Tid \X Tid)
  OBVIOUS
<1>7. CallOK(d)
  <2>1. d.left \cup d.aff \cup d.want \subseteq Pairs(d.n)
    BY <1>0, <1>3, <1>5 DEF CallOK
  <2>2. CASE d.pc = "init"
    BY <1>0, <1>2, <1>5, <1>6, <2>1, <2>2 DEF CallOK, InFind, InFa, Reading
  <2>3. CASE d.pc = "gids"
    BY <1>0, <1>2, <1>5, <1>6, <2>1, <2>3 DEF CallOK, InFind, InFa, Reading
  <2> QED BY <1>5, <2>2, <2>3
<1>8. TypeOK' /\ call'[s] = d /\ \A t \in Slot \ {s} : call'[t] = call[t]
  BY <1>4, <1>7, GoesFacts
<1>9. UNCHANGED <<kind, numaNums, fa, relsNums, rels, report, todo, agent>>
  BY <1>4 DEF Goes, dataVars, agentVars
<1> QED BY <1>0, <1>3, <1>5, <1>8, <1>9

\* Asking for the groups of the threads
LEMMA GroupTypes ==
    ASSUME TypeOK, NEW s \in Slot, calculateGid(s)
    PROVE  /\ TypeOK' /\ UNCHANGED <<kind, numaNums, fa, relsNums, rels, report, todo, agent>>
           /\ \A t \in Slot \ {s} : call'[t] = call[t]
           /\ LET d == call'[s] IN
              /\ call[s].pc = "gids" /\ d.pc = "init" /\ d.i = 0
              /\ d.torn = call[s].torn /\ d.stale = call[s].stale /\ d.aff = d.want
<1> DEFINE c == call[s]
<1>0. CallOK(c) /\ DOMAIN c = DOMAIN Blank /\ c.pc = "gids"
  BY DEF TypeOK, CallOK, calculateGid
<1>1. PICK gid \in Gids :
        LET aff == {p \in Pairs(c.n) : hasPodAffinity(gid, c.root[p[1]], c.root[p[2]])}
        IN Goes(s, [c EXCEPT !.pc = "init", !.aff = aff, !.want = aff, !.root = <<>>])
  BY DEF calculateGid
<1> DEFINE A == {p \in Pairs(c.n) : hasPodAffinity(gid, c.root[p[1]], c.root[p[2]])}
           d == [c EXCEPT !.pc = "init", !.aff = A, !.want = A, !.root = <<>>]
<1>2. A \subseteq Pairs(c.n) /\ Goes(s, d)
  BY <1>1
<1> HIDE DEF A
<1>3. /\ DOMAIN d = DOMAIN Blank
      /\ d.i = c.i /\ d.torn = c.torn /\ d.n = c.n /\ d.stale = c.stale /\ d.alone = c.alone
      /\ d.left = c.left /\ d.seen = c.seen /\ d.st = c.st /\ d.use = c.use
      /\ d.pc = "init" /\ d.root = <<>> /\ d.aff = A /\ d.want = A
  BY <1>0, BlankFacts
<1> HIDE DEF d
<1>4. c.i = 0 /\ c.n \in Sizes /\ c.n \in Nat /\ <<>> \in Seq(Index)
  BY <1>0, SizeFacts DEF CallOK
<1>5. CallOK(d)
  BY <1>0, <1>2, <1>3, <1>4 DEF CallOK, InFind, InFa, Reading
<1>6. TypeOK' /\ call'[s] = d /\ \A t \in Slot \ {s} : call'[t] = call[t]
  BY <1>2, <1>5, GoesFacts
<1>7. UNCHANGED <<kind, numaNums, fa, relsNums, rels, report, todo, agent>>
  BY <1>2 DEF Goes, dataVars, agentVars
<1> QED BY <1>0, <1>3, <1>4, <1>6, <1>7

\* Setting the elements
LEMMA InitTypes ==
    ASSUME TypeOK, NEW s \in Slot, init_unionFindSet(s)
    PROVE  TypeOK' /\ call'[s].pc \in InFa /\ call'[s].stale = call[s].stale
<1> DEFINE c == call[s]
           e == [c EXCEPT !.i = @ + 1]
           z == [c EXCEPT !.i = 0, !.aff = {}, !.left = c.aff]
           d == IF c.i < c.n THEN e ELSE NextPair(z)
<1>0. /\ CallOK(c) /\ DOMAIN c = DOMAIN Blank /\ c.pc = "init" /\ c.i < FaSize
      /\ GoesOn(s, d) /\ fa' = [fa EXCEPT ![c.i] = c.i] /\ UNCHANGED Local
  BY DEF TypeOK, CallOK, init_unionFindSet
<1>1. c.i \in 0 .. c.n /\ c.n \in Sizes /\ c.n \in Nat
  BY <1>0, SizeFacts DEF CallOK
<1>2. fa' \in [Index -> Index]
  BY <1>0, <1>1 DEF TypeOK, Index
<1>3. CASE c.i < c.n
  <2>1. /\ DOMAIN e = DOMAIN Blank
        /\ e.i = c.i + 1 /\ e.torn = c.torn /\ e.n = c.n /\ e.stale = c.stale
        /\ e.alone = c.alone /\ e.left = c.left /\ e.seen = c.seen /\ e.st = c.st
        /\ e.use = c.use /\ e.pc = "init" /\ e.root = c.root /\ e.aff = c.aff
        /\ e.want = c.want
    BY <1>0, BlankFacts
  <2> HIDE DEF e
  <2>2. CallOK(e)
    BY <1>0, <1>1, <1>3, <2>1 DEF CallOK, InFind, InFa, Reading
  <2>3. GoesOn(s, e) /\ e.pc \in InFa /\ c.pc \in InFa
    BY <1>0, <1>3, <2>1 DEF InFa
  <2> QED BY <1>0, <1>2, <2>1, <2>2, <2>3, GoesOnFacts
<1>4. CASE ~(c.i < c.n)
  <2>1. /\ DOMAIN z = DOMAIN Blank
        /\ z.torn = c.torn /\ z.n = c.n /\ z.stale = c.stale
        /\ z.alone = c.alone /\ z.left = c.aff /\ z.seen = c.seen
        /\ z.root = c.root /\ z.aff = {} /\ z.want = c.want
    BY <1>0, BlankFacts
  <2> HIDE DEF z
  <2>2. c.n < FaSize
    BY <1>0, <1>1, <1>4, SizeFacts
  <2>3. Base(z) /\ z.root = <<>>
    BY <1>0, <1>1, <2>1, <2>2 DEF CallOK, InFind, InFa, Base
  <2>4. CallOK(NextPair(z))
    BY <2>3, NextPairOK
  <2>5. /\ DOMAIN NextPair(z) = DOMAIN Blank
        /\ NextPair(z).pc \in InFa /\ NextPair(z).stale = c.stale
    BY <2>1, NextFields DEF InFa
  <2>6. GoesOn(s, NextPair(z)) /\ c.pc \in InFa
    BY <1>0, <1>4 DEF InFa
  <2> QED BY <1>0, <1>2, <2>4, <2>5, <2>6, GoesOnFacts
<1> QED BY <1>3, <1>4

\* The top of the stack is an element of fa.
LEMMA TopFacts ==
    ASSUME TypeOK, NEW c, CallOK(c), InFind(c)
    PROVE  /\ Len(c.st) \in Nat \ {0} /\ Len(c.st) <= MaxDepth /\ c.st \in Seq(Index)
           /\ Top(c) \in Index /\ fa[Top(c)] \in Index /\ c.n \in Sizes /\ c.pc \in InFa
<1>1. c.st \in Seq(Index) /\ c.st # <<>> /\ Len(c.st) <= MaxDepth /\ c.n \in Sizes
  BY DEF CallOK, InFind
<1>2. Len(c.st) \in Nat \ {0} /\ c.st[Len(c.st)] \in Index
  BY <1>1
<1> QED BY <1>1, <1>2 DEF Top, TypeOK, InFind, InFa

\* Going up a link
LEMMA CompareTypes ==
    ASSUME TypeOK, NEW s \in Slot, Compare(s)
    PROVE  TypeOK' /\ call'[s].pc \in InFa /\ call'[s].stale = call[s].stale
<1> DEFINE c == call[s]
           y == fa[Top(c)]
           d == IF y = Top(c) THEN [c EXCEPT !.pc = "back"] ELSE [c EXCEPT !.st = Append(@, y)]
<1>0. /\ CallOK(c) /\ DOMAIN c = DOMAIN Blank /\ c.pc = "find" /\ InFind(c)
      /\ GoesOn(s, d) /\ UNCHANGED <<fa, Local>> /\ (y = Top(c) \/ Len(c.st) < MaxDepth)
  BY DEF TypeOK, CallOK, Compare, InFind
<1>1. /\ Len(c.st) \in Nat \ {0} /\ Len(c.st) <= MaxDepth /\ c.st \in Seq(Index)
      /\ y \in Index
  BY <1>0, TopFacts
<1>2. /\ DOMAIN d = DOMAIN Blank
      /\ d.pc = (IF y = Top(c) THEN "back" ELSE "find")
      /\ d.st = (IF y = Top(c) THEN c.st ELSE Append(c.st, y))
      /\ d.torn = c.torn /\ d.n = c.n /\ d.stale = c.stale /\ d.rx = c.rx
      /\ d.alone = c.alone /\ d.left = c.left /\ d.seen = c.seen
      /\ d.use = c.use /\ d.root = c.root /\ d.aff = c.aff /\ d.want = c.want
  BY <1>0, BlankFacts
<1>3. d.st \in Seq(Index) /\ Len(d.st) <= MaxDepth /\ d.st # <<>>
  <2>1. Append(c.st, y) \in Seq(Index) /\ Len(Append(c.st, y)) = Len(c.st) + 1
    BY <1>1
  <2>2. CASE y = Top(c)
    BY <1>1, <1>2, <2>2
  <2>3. CASE y # Top(c)
    BY <1>0, <1>1, <1>2, <2>1, <2>3, SizeFacts
  <2> QED BY <2>2, <2>3
<1> HIDE DEF d, y
<1>4. CallOK(d)
  BY <1>0, <1>2, <1>3 DEF CallOK, InFind, InFa, Reading
<1>5. d.pc \in InFa /\ c.pc \in InFa /\ fa' \in [Index -> Index]
  BY <1>0, <1>2 DEF InFa, TypeOK
<1> QED BY <1>0, <1>2, <1>4, <1>5, GoesOnFacts

\* What a call is when it has found a root: of the pair's first pod, ...
LEMMA FoundFirst ==
    ASSUME NEW c, DOMAIN c = DOMAIN Blank, c.use = "x", NEW r
    PROVE  LET d == Found(c, r) IN
           /\ DOMAIN d = DOMAIN Blank /\ d.n = c.n /\ d.torn = c.torn /\ d.stale = c.stale
           /\ d.alone = c.alone /\ d.aff = c.aff /\ d.want = c.want /\ d.seen = c.seen
           /\ d.pc = "find" /\ d.use = "y" /\ d.left = c.left
           /\ d.rx = r /\ d.root = c.root /\ d.st = <<First(c.left)[2]>>
<1> DEFINE e == [c EXCEPT !.rx = r]
<1>1. /\ DOMAIN e = DOMAIN Blank /\ e.n = c.n /\ e.torn = c.torn /\ e.stale = c.stale
      /\ e.alone = c.alone /\ e.aff = c.aff /\ e.want = c.want /\ e.seen = c.seen
      /\ e.left = c.left /\ e.rx = r /\ e.root = c.root
  BY BlankFacts
<1>2. Found(c, r) = Find(e, First(c.left)[2], "y")
  BY DEF Found
<1> HIDE DEF e
<1> QED BY <1>1, <1>2, FindFields

\* ... of the second one, if the pods are in one tree already, ...
LEMMA FoundSame ==
    ASSUME NEW c, DOMAIN c = DOMAIN Blank, c.use = "y"
    PROVE  LET d == Found(c, c.rx)
               rest == c.left \ {First(c.left)} IN
           /\ DOMAIN d = DOMAIN Blank /\ d.n = c.n /\ d.torn = c.torn /\ d.stale = c.stale
           /\ d.alone = c.alone /\ d.aff = c.aff /\ d.want = c.want /\ d.seen = c.seen
           /\ d.pc = "find" /\ d.left = rest /\ d.root = c.root
           /\ rest = {} => d.st = <<0>> /\ d.use = "group"
           /\ rest # {} => d.st = <<First(rest)[1]>> /\ d.use = "x"
<1> DEFINE rest == c.left \ {First(c.left)}
           e == [c EXCEPT !.left = @ \ {First(@)}]
           z == [e EXCEPT !.rx = 0]
<1>1. /\ DOMAIN z = DOMAIN Blank /\ z.n = c.n /\ z.torn = c.torn /\ z.stale = c.stale
      /\ z.alone = c.alone /\ z.aff = c.aff /\ z.want = c.want /\ z.seen = c.seen
      /\ z.left = rest /\ z.root = c.root
  BY BlankFacts
<1>2. Found(c, c.rx) = NextPair(z)
  BY DEF Found
<1> DEFINE d == NextPair(z)
<1> HIDE DEF z, rest
<1>3. /\ DOMAIN d = DOMAIN Blank /\ d.n = c.n /\ d.torn = c.torn /\ d.stale = c.stale
      /\ d.alone = c.alone /\ d.aff = c.aff /\ d.want = c.want /\ d.seen = c.seen
      /\ d.pc = "find" /\ d.left = rest /\ d.root = c.root
      /\ rest = {} => d.st = <<0>> /\ d.use = "group"
      /\ rest # {} => d.st = <<First(rest)[1]>> /\ d.use = "x"
  BY <1>1, NextFields
<1> QED BY <1>2, <1>3 DEF rest

\* ... or if they are not, ...
LEMMA FoundOther ==
    ASSUME NEW c, DOMAIN c = DOMAIN Blank, c.use = "y", NEW r, r # c.rx
    PROVE  LET d == Found(c, r) IN
           /\ DOMAIN d = DOMAIN Blank /\ d.n = c.n /\ d.torn = c.torn /\ d.stale = c.stale
           /\ d.alone = c.alone /\ d.aff = c.aff /\ d.want = c.want /\ d.seen = c.seen
           /\ d.pc = "link" /\ d.use = "y" /\ d.left = c.left \ {First(c.left)}
           /\ d.rx = c.rx /\ d.ret = r /\ d.root = c.root /\ d.st = <<>>
<1> DEFINE e == [c EXCEPT !.left = @ \ {First(@)}]
           z == [e EXCEPT !.pc = "link", !.ret = r, !.st = <<>>]
<1>1. /\ DOMAIN z = DOMAIN Blank /\ z.n = c.n /\ z.torn = c.torn /\ z.stale = c.stale
      /\ z.alone = c.alone /\ z.aff = c.aff /\ z.want = c.want /\ z.seen = c.seen
      /\ z.left = c.left \ {First(c.left)} /\ z.root = c.root /\ z.pc = "link" /\ z.ret = r
      /\ z.st = <<>> /\ z.rx = c.rx /\ z.use = "y"
  BY BlankFacts
<1>2. Found(c, r) = z
  BY DEF Found
<1> HIDE DEF z
<1> QED BY <1>1, <1>2

\* ... or of a pod that is to be put into its group.
LEMMA FoundRoot ==
    ASSUME NEW c, DOMAIN c = DOMAIN Blank, c.use = "group", NEW r
    PROVE  LET d == Found(c, r)
               more == Append(c.root, r) IN
           /\ DOMAIN d = DOMAIN Blank /\ d.n = c.n /\ d.torn = c.torn /\ d.stale = c.stale
           /\ d.alone = c.alone /\ d.aff = c.aff /\ d.want = c.want /\ d.seen = c.seen
           /\ d.left = c.left /\ d.root = more /\ d.use = "group"
           /\ Len(more) < c.n => d.pc = "find" /\ d.st = <<Len(more)>>
           /\ ~(Len(more) < c.n) => d.pc = "group" /\ d.st = <<>>
<1> DEFINE more == Append(c.root, r)
           e == [c EXCEPT !.root = Append(@, r)]
<1>1. /\ DOMAIN e = DOMAIN Blank /\ e.n = c.n /\ e.torn = c.torn /\ e.stale = c.stale
      /\ e.alone = c.alone /\ e.aff = c.aff /\ e.want = c.want /\ e.seen = c.seen
      /\ e.left = c.left /\ e.rx = c.rx /\ e.root = more /\ e.use = "group"
  BY BlankFacts
<1>2. Found(c, r) = IF Len(e.root) < c.n THEN Find(e, Len(e.root), "group")
                    ELSE [e EXCEPT !.pc = "group", !.st = <<>>]
  BY DEF Found
<1> HIDE DEF e
<1>3. CASE Len(more) < c.n
  <2>1. Found(c, r) = Find(e, Len(more), "group")
    BY <1>1, <1>2, <1>3
  <2> QED BY <1>1, <1>3, <2>1, FindFields
<1>4. CASE ~(Len(more) < c.n)
  <2> DEFINE z == [e EXCEPT !.pc = "group", !.st = <<>>]
  <2>1. /\ DOMAIN z = DOMAIN Blank /\ z.n = c.n /\ z.torn = c.torn /\ z.stale = c.stale
        /\ z.alone = c.alone /\ z.aff = c.aff /\ z.want = c.want /\ z.seen = c.seen
        /\ z.left = c.left /\ z.root = more /\ z.pc = "group" /\ z.st = <<>>
        /\ z.use = "group"
    BY <1>1, BlankFacts
  <2>2. Found(c, r) = z
    BY <1>1, <1>2, <1>4
  <2> HIDE DEF z
  <2> QED BY <1>4, <2>1, <2>2
<1> QED BY <1>3, <1>4

\* A root that is found keeps the call's type.
LEMMA FoundOK ==
    ASSUME NEW c, CallOK(c), c.pc = "back", NEW r \in Index
    PROVE  CallOK(Found(c, r)) /\ Found(c, r).pc \in InFa
<1> DEFINE d == Found(c, r)
           more == Append(c.root, r)
           rest == c.left \ {First(c.left)}
<1>0. /\ DOMAIN c = DOMAIN Blank /\ c.use \in {"x", "y", "group"}
      /\ c.n \in Sizes /\ c.n \in Nat \ {0} /\ c.n < FaSize /\ Pods(c.n) \subseteq Index
      /\ c.left \in SUBSET Pairs(c.n) /\ (c.use = "group" <=> c.left = {})
      /\ c.root \in Seq(Index) /\ Len(c.root) \in Nat
  <2>1. c.n \in Sizes /\ c.n < FaSize /\ c.root \in Seq(Index)
    BY DEF CallOK, InFa
  <2>2. c.n \in Nat \ {0} /\ Pods(c.n) \subseteq Index
    BY <2>1, SizeFacts DEF Pods, Index
  <2> QED BY <2>1, <2>2 DEF CallOK, InFind
<1> HIDE DEF d, more, rest
<1>2. CASE c.use = "x"
  <2>1. /\ DOMAIN d = DOMAIN Blank /\ d.n = c.n /\ d.torn = c.torn /\ d.stale = c.stale
        /\ d.alone = c.alone /\ d.aff = c.aff /\ d.want = c.want /\ d.seen = c.seen
        /\ d.pc = "find" /\ d.use = "y" /\ d.left = c.left
        /\ d.rx = r /\ d.root = c.root /\ d.st = <<First(c.left)[2]>>
    BY <1>0, <1>2, FoundFirst DEF d
  <2>2. First(c.left)[2] \in Index /\ c.root = <<>>
    <3>1. First(c.left)[2] \in Index
      BY <1>0, <1>2, FirstFacts, PairFacts
    <3> QED BY <1>2, <3>1 DEF CallOK, InFa, InFind
  <2>3. d.st \in Seq(Index) /\ Len(d.st) = 1 /\ d.st # <<>>
    BY <2>1, <2>2
  <2>4. CallOK(d)
    BY <1>0, <1>2, <2>1, <2>2, <2>3, SizeFacts DEF CallOK, InFind, InFa, Reading
  <2> QED BY <2>1, <2>4 DEF d, InFa
<1>3. CASE c.use = "y"
  <2>1. c.rx \in Index /\ c.root = <<>> /\ rest \in SUBSET Pairs(c.n)
    BY <1>0, <1>3 DEF rest, CallOK, InFa, InFind
  <2>2. CASE r # c.rx
    <3>1. /\ DOMAIN d = DOMAIN Blank /\ d.n = c.n /\ d.torn = c.torn /\ d.stale = c.stale
          /\ d.alone = c.alone /\ d.aff = c.aff /\ d.want = c.want /\ d.seen = c.seen
          /\ d.pc = "link" /\ d.use = "y" /\ d.left = rest
          /\ d.rx = c.rx /\ d.ret = r /\ d.root = c.root /\ d.st = <<>>
      BY <1>0, <1>3, <2>2, FoundOther DEF d, rest
    <3>2. d.st \in Seq(Index) /\ Len(d.st) <= MaxDepth
      BY <3>1, SizeFacts
    <3>3. CallOK(d)
      BY <1>0, <2>1, <3>1, <3>2 DEF CallOK, InFind, InFa, Reading
    <3> QED BY <3>1, <3>3 DEF d, InFa
  <2>3. CASE r = c.rx
    <3>1. /\ DOMAIN d = DOMAIN Blank /\ d.n = c.n /\ d.torn = c.torn /\ d.stale = c.stale
          /\ d.alone = c.alone /\ d.aff = c.aff /\ d.want = c.want /\ d.seen = c.seen
          /\ d.pc = "find" /\ d.left = rest /\ d.root = c.root
          /\ rest = {} => d.st = <<0>> /\ d.use = "group"
          /\ rest # {} => d.st = <<First(rest)[1]>> /\ d.use = "x"
      BY <1>0, <1>3, <2>3, FoundSame DEF d, rest
    <3>2. d.st \in Seq(Index) /\ Len(d.st) = 1 /\ d.st # <<>>
      <4>1. CASE rest = {}
        <5>1. 0 \in Index
          BY <1>0, SizeFacts DEF Index
        <5>2. <<0>> \in Seq(Index) /\ Len(<<0>>) = 1 /\ <<0>> # <<>>
          BY <5>1
        <5> QED BY <3>1, <4>1, <5>2
      <4>2. CASE rest # {}
        <5> DEFINE x == First(rest)[1]
        <5>1. x \in Index
          BY <1>0, <2>1, <4>2, FirstFacts, PairFacts
        <5> HIDE DEF x
        <5>2. <<x>> \in Seq(Index) /\ Len(<<x>>) = 1 /\ <<x>> # <<>>
          BY <5>1
        <5>3. d.st = <<x>>
          BY <3>1, <4>2 DEF x
        <5> QED BY <5>2, <5>3
      <4> QED BY <4>1, <4>2
    <3>3. d.use \in {"x", "group"} /\ (d.use = "group" <=> d.left = {}) /\ Len(d.root) = 0
      BY <2>1, <3>1
    <3>4. CallOK(d)
      BY <1>0, <2>1, <3>1, <3>2, <3>3, SizeFacts DEF CallOK, InFind, InFa, Reading
    <3> QED BY <3>1, <3>4 DEF d, InFa
  <2> QED BY <2>2, <2>3
<1>4. CASE c.use = "group"
  <2>1. /\ DOMAIN d = DOMAIN Blank /\ d.n = c.n /\ d.torn = c.torn /\ d.stale = c.stale
        /\ d.alone = c.alone /\ d.aff = c.aff /\ d.want = c.want /\ d.seen = c.seen
        /\ d.left = c.left /\ d.root = more /\ d.use = "group"
        /\ Len(more) < c.n => d.pc = "find" /\ d.st = <<Len(more)>>
        /\ ~(Len(more) < c.n) => d.pc = "group" /\ d.st = <<>>
    BY <1>0, <1>4, FoundRoot DEF d, more
  <2>2. more \in Seq(Index) /\ Len(more) = Len(c.root) + 1 /\ Len(c.root) < c.n
    BY <1>0, <1>4 DEF more, CallOK, InFind
  <2>3. d.st \in Seq(Index) /\ Len(d.st) <= 1 /\ (d.pc = "find" => d.st # <<>>)
    <3>1. CASE Len(more) < c.n
      <4>1. Len(more) \in Index
        BY <1>0, <2>2, <3>1 DEF Pods
      <4> DEFINE x == Len(more)
      <4>2. d.st = <<x>>
        BY <2>1, <3>1
      <4> HIDE DEF x
      <4>3. <<x>> \in Seq(Index) /\ Len(<<x>>) = 1 /\ <<x>> # <<>>
        BY <4>1 DEF x
      <4> QED BY <4>2, <4>3
    <3>2. CASE ~(Len(more) < c.n)
      <4>1. d.st = <<>> /\ d.pc = "group"
        BY <2>1, <3>2
      <4> QED BY <4>1
    <3> QED BY <3>1, <3>2
  <2>4. Len(d.st) <= MaxDepth
    BY <2>3, SizeFacts
  <2>5. CallOK(d)
    <3>1. CASE Len(more) < c.n
      BY <1>0, <1>4, <2>1, <2>2, <2>3, <2>4, <3>1 DEF CallOK, InFind, InFa, Reading
    <3>2. CASE ~(Len(more) < c.n)
      <4>1. Len(more) = c.n
        BY <1>0, <2>2, <3>2
      <4> QED
        BY <1>0, <1>4, <2>1, <2>2, <2>3, <2>4, <3>2, <4>1
        DEF CallOK, InFind, InFa, Reading
    <3> QED BY <3>1, <3>2
  <2> QED BY <2>1, <2>5 DEF d, InFa
<1> QED BY <1>0, <1>2, <1>3, <1>4

\* Coming back from a link, or from find
LEMMA ReturnTypes ==
    ASSUME TypeOK, NEW s \in Slot, Return(s)
    PROVE  TypeOK' /\ call'[s].pc \in InFa /\ call'[s].stale = call[s].stale
<1> DEFINE c == call[s]
           r == fa[Top(c)]
           e == [c EXCEPT !.pc = "set", !.ret = r, !.st = SubSeq(@, 1, Len(@) - 1)]
<1>0. /\ CallOK(c) /\ DOMAIN c = DOMAIN Blank /\ c.pc = "back" /\ InFind(c)
      /\ GoesOn(s, IF Len(c.st) = 1 THEN Found(c, r) ELSE e) /\ UNCHANGED <<fa, Local>>
  BY DEF TypeOK, CallOK, Return, InFind
<1>1. /\ Len(c.st) \in Nat \ {0} /\ Len(c.st) <= MaxDepth /\ c.st \in Seq(Index)
      /\ r \in Index /\ c.pc \in InFa
  BY <1>0, TopFacts
<1>2. fa' \in [Index -> Index] /\ UNCHANGED Local
  BY <1>0 DEF TypeOK
<1> HIDE DEF r
<1>3. CASE Len(c.st) = 1
  <2>1. CallOK(Found(c, r)) /\ Found(c, r).pc \in InFa
    BY <1>0, <1>1, FoundOK
  <2>2. DOMAIN Found(c, r) = DOMAIN Blank
    BY <2>1 DEF CallOK
  <2>3. Found(c, r).stale = c.stale
    <3>1. c.use \in {"x", "y", "group"} /\ DOMAIN c = DOMAIN Blank
      BY <1>0 DEF CallOK
    <3>2. CASE c.use = "x"
      BY <3>1, <3>2, FoundFirst
    <3>3. CASE c.use = "y" /\ r = c.rx
      <4>1. Found(c, c.rx).stale = c.stale
        BY <3>1, <3>3, FoundSame
      <4> QED BY <3>3, <4>1
    <3>4. CASE c.use = "y" /\ r # c.rx
      BY <3>1, <3>4, FoundOther
    <3>5. CASE c.use = "group"
      BY <3>1, <3>5, FoundRoot
    <3> QED BY <3>1, <3>2, <3>3, <3>4, <3>5
  <2>4. GoesOn(s, Found(c, r))
    BY <1>0, <1>3
  <2> QED BY <1>1, <1>2, <2>1, <2>2, <2>3, <2>4, GoesOnFacts
<1>4. CASE Len(c.st) # 1
  <2>1. /\ DOMAIN e = DOMAIN Blank
        /\ e.pc = "set" /\ e.ret = r /\ e.st = SubSeq(c.st, 1, Len(c.st) - 1)
        /\ e.torn = c.torn /\ e.n = c.n /\ e.stale = c.stale /\ e.rx = c.rx
        /\ e.alone = c.alone /\ e.left = c.left /\ e.seen = c.seen
        /\ e.use = c.use /\ e.root = c.root /\ e.aff = c.aff /\ e.want = c.want
    BY <1>0, BlankFacts
  <2>2. e.st \in Seq(Index) /\ Len(e.st) = Len(c.st) - 1 /\ e.st # <<>> /\ Len(e.st) <= MaxDepth
    <3> DEFINE q == SubSeq(c.st, 1, Len(c.st) - 1)
    <3>1. Len(c.st) - 1 \in Nat \ {0} /\ MaxDepth \in Nat
      BY <1>1, <1>4, SizeFacts
    <3>2. q \in Seq(Index) /\ Len(q) = Len(c.st) - 1
      BY <1>1, <3>1
    <3>3. e.st = q
      BY <2>1
    <3> HIDE DEF e, q
    <3>4. Len(q) # 0 /\ Len(q) <= MaxDepth
      BY <1>1, <3>1, <3>2
    <3>5. q # <<>>
      BY <3>4
    <3> QED BY <3>2, <3>3, <3>4, <3>5
  <2>3. GoesOn(s, e)
    BY <1>0, <1>4
  <2> HIDE DEF e
  <2>4. CallOK(e)
    BY <1>0, <1>1, <2>1, <2>2 DEF CallOK, InFind, InFa, Reading
  <2>5. e.pc \in InFa
    BY <2>1 DEF InFa
  <2> QED BY <1>1, <1>2, <2>1, <2>3, <2>4, <2>5, GoesOnFacts
<1> QED BY <1>3, <1>4

\* Compressing a path, and joining two trees
LEMMA WriteFaTypes ==
    ASSUME TypeOK, NEW s \in Slot, Compress(s) \/ Link(s)
    PROVE  TypeOK' /\ call'[s].pc \in InFa /\ call'[s].stale = call[s].stale
<1> DEFINE c == call[s]
<1>0. CallOK(c) /\ DOMAIN c = DOMAIN Blank
  BY DEF TypeOK, CallOK
<1>1. CASE Compress(s)
  <2> DEFINE d == [c EXCEPT !.pc = "back", !.ret = 0]
  <2>1. /\ DOMAIN d = DOMAIN Blank
        /\ d.pc = "back" /\ d.st = c.st
        /\ d.torn = c.torn /\ d.n = c.n /\ d.stale = c.stale /\ d.rx = c.rx
        /\ d.alone = c.alone /\ d.left = c.left /\ d.seen = c.seen
        /\ d.use = c.use /\ d.root = c.root /\ d.aff = c.aff /\ d.want = c.want
    BY <1>0, BlankFacts
  <2>2. /\ c.pc = "set" /\ InFind(c) /\ fa' = [fa EXCEPT ![Top(c)] = c.ret]
        /\ GoesOn(s, d) /\ UNCHANGED Local
    BY <1>1 DEF Compress, InFind
  <2>3. Top(c) \in Index /\ c.pc \in InFa /\ c.ret \in Index
    BY <1>0, <2>2, TopFacts DEF CallOK
  <2>4. fa' \in [Index -> Index]
    BY <2>2, <2>3 DEF TypeOK
  <2> HIDE DEF d
  <2>5. CallOK(d) /\ d.pc \in InFa
    BY <1>0, <2>1, <2>2 DEF CallOK, InFind, InFa, Reading
  <2> QED BY <2>1, <2>2, <2>3, <2>4, <2>5, GoesOnFacts
<1>2. CASE Link(s)
  <2> DEFINE z == [c EXCEPT !.rx = 0, !.ret = 0]
             d == NextPair(z)
  <2>1. /\ DOMAIN z = DOMAIN Blank
        /\ z.torn = c.torn /\ z.n = c.n /\ z.stale = c.stale
        /\ z.alone = c.alone /\ z.left = c.left /\ z.seen = c.seen
        /\ z.root = c.root /\ z.aff = c.aff /\ z.want = c.want
    BY <1>0, BlankFacts
  <2>2. /\ c.pc = "link" /\ fa' = [fa EXCEPT ![c.rx] = c.ret]
        /\ GoesOn(s, d) /\ UNCHANGED Local
    BY <1>2 DEF Link
  <2>3. c.rx \in Index /\ c.ret \in Index /\ c.pc \in InFa
    BY <1>0, <2>2 DEF CallOK, InFa
  <2>4. fa' \in [Index -> Index]
    BY <2>2, <2>3 DEF TypeOK
  <2> HIDE DEF z
  <2>5. Base(z) /\ z.root = <<>>
    BY <1>0, <2>1, <2>2 DEF CallOK, InFind, InFa, Base
  <2>6. CallOK(d) /\ DOMAIN d = DOMAIN Blank /\ d.pc \in InFa /\ d.stale = c.stale
    BY <2>1, <2>5, NextPairOK, NextFields DEF InFa
  <2> QED BY <2>2, <2>3, <2>4, <2>6, GoesOnFacts
<1> QED BY <1>1, <1>2

\* The answer, and its delivery
LEMMA DoneTypes ==
    ASSUME TypeOK, NEW s \in Slot, getPodsAffinity(s) \/ Answered(s)
    PROVE  /\ TypeOK' /\ UNCHANGED <<kind, numaNums, fa, relsNums, rels, report, todo>>
           /\ agent' \in {agent, "idle"} /\ call'[s].pc \in {"idle", "done"}
           /\ \A t \in Slot \ {s} : call'[t] = call[t]
<1> DEFINE c == call[s]
<1>0. CallOK(c) /\ DOMAIN c = DOMAIN Blank
  BY DEF TypeOK, CallOK
<1>1. CASE getPodsAffinity(s)
  <2>1. PICK a : Goes(s, [Blank EXCEPT !.pc = "done", !.n = c.n, !.torn = c.torn,
                            !.alone = c.alone, !.want = c.want, !.answer = a])
    BY <1>1 DEF getPodsAffinity
  <2> DEFINE d == [Blank EXCEPT !.pc = "done", !.n = c.n, !.torn = c.torn,
                     !.alone = c.alone, !.want = c.want, !.answer = a]
  <2>2. /\ DOMAIN d = DOMAIN Blank
        /\ d.pc = "done" /\ d.n = c.n /\ d.torn = c.torn /\ d.alone = c.alone
        /\ d.want = c.want /\ d.stale = FALSE /\ d.left = {} /\ d.aff = {} /\ d.seen = <<>>
        /\ d.st = <<>> /\ d.use = "x"
    BY DEF Blank
  <2> HIDE DEF d
  <2>3. <<>> \in Seq(Tid \X Tid) /\ <<>> \in Seq(Index) /\ Len(<<>>) <= MaxDepth
    BY SizeFacts
  <2>4. c.pc = "group"
    BY <1>1 DEF getPodsAffinity
  <2>5. CallOK(d)
    <3>1. d.left \cup d.aff \cup d.want \subseteq Pairs(d.n)
      BY <1>0, <2>2 DEF CallOK
    <3> QED BY <1>0, <2>2, <2>3, <2>4, <3>1 DEF CallOK, InFind, InFa, Reading
  <2>6. Goes(s, d)
    BY <2>1 DEF d
  <2> QED BY <2>2, <2>5, <2>6, GoesFacts DEF Goes, dataVars, agentVars
<1>2. CASE Answered(s)
  <2>1. /\ DOMAIN call' = Slot /\ call'[s] = Blank
        /\ \A t \in Slot \ {s} : call'[t] = call[t]
    BY <1>2 DEF Answered, TypeOK
  <2>2. \A t \in Slot : CallOK(call'[t])
    BY <2>1, BlankFacts DEF TypeOK
  <2>3. NumaCount' = NumaCount
    BY <1>2 DEF Answered, NumaCount, get_numa_info
  <2>4. /\ agent' \in {"idle", "asked", "stale", "waits"}
        /\ mine' \in Slot \cup {0} /\ (mine' # 0 <=> agent' = "waits")
    BY <1>2 DEF Answered, TypeOK, Slot
  <2>5. TypeOK'
    BY <1>2, <2>1, <2>2, <2>3, <2>4 DEF TypeOK, Answered, dataVars
  <2> QED BY <1>2, <2>1, <2>5, BlankFacts DEF Answered, dataVars
<1> QED BY <1>1, <1>2

\* A panic of a call
LEMMA PanicTypes ==
    ASSUME TypeOK, NEW s \in Slot, IndexPanic(s) \/ Overflow(s) \/ DividePanic(s)
    PROVE  TypeOK' /\ Ends("panic")
<1>1. Ends("panic")
  BY DEF IndexPanic, Overflow, DividePanic
<1> QED BY <1>1, EndsFacts

LEMMA NextTypes == TypeOK /\ [Next]_vars => TypeOK'
<1> SUFFICES ASSUME TypeOK, [Next]_vars PROVE TypeOK'
  OBVIOUS
<1>1. CASE Process
  BY <1>1, ProcessTypes
<1>2. CASE Callback
  BY <1>2, ReportTypes, WriteTypes DEF Callback
<1>3. CASE Agent
  BY <1>3, AgentTypes
<1>4. ASSUME NEW s \in Slot, Handler(s) PROVE TypeOK'
  <2>1. CASE ReadNums(s) \/ ReadPidA(s) \/ ReadPidB(s)
    BY <2>1, ReadTypes
  <2>2. CASE getTidListForPods(s) \/ calculateGid(s)
    BY <2>2, ThreadTypes, GroupTypes
  <2>3. CASE init_unionFindSet(s) \/ Compare(s) \/ Return(s)
    BY <2>3, InitTypes, CompareTypes, ReturnTypes
  <2>4. CASE Compress(s) \/ Link(s)
    BY <2>4, WriteFaTypes
  <2>5. CASE getPodsAffinity(s) \/ Answered(s)
    BY <2>5, DoneTypes
  <2>6. CASE IndexPanic(s) \/ Overflow(s) \/ DividePanic(s)
    BY <2>6, PanicTypes
  <2> QED BY <1>4, <2>1, <2>2, <2>3, <2>4, <2>5, <2>6 DEF Handler
<1>5. CASE UNCHANGED vars
  BY <1>5 DEF vars, TypeOK, dataVars, agentVars, NumaCount, get_numa_info
<1> QED BY <1>1, <1>2, <1>3, <1>4, <1>5 DEF Next

LEMMA InitTypeOK == Init => TypeOK
<1> SUFFICES ASSUME Init PROVE TypeOK
  OBVIOUS
<1>1. /\ fa \in [Index -> Index] /\ relsNums \in 0 .. RelSize
      /\ rels \in [1 .. RelSize -> Tid \X Tid]
  BY SizeFacts DEF Init, Index, Tid
<1>2. todo \in Seq((1 .. Len(report)) \X {1, 2}) /\ report = <<>>
  BY DEF Init
<1> QED BY <1>1, <1>2, BlankFacts DEF Init, TypeOK, Slot

\* fa, the arrays and all calls stay within their bounds: no step of find, and no
\* write of the callback, goes beyond an array.
THEOREM ServerTypeOK == Spec => []TypeOK
<1>1. Init => TypeOK
  BY InitTypeOK
<1>2. TypeOK /\ [Next]_vars => TypeOK'
  BY NextTypes
<1> QED BY <1>1, <1>2, PTL DEF Spec

-----------------------------------------------------------------------------
(* What a call reads                                                       *)

\* Reading the number of elements
LEMMA NumsFields ==
    ASSUME TypeOK, NEW s \in Slot, ReadNums(s), NEW c, c = call[s], NEW d, d = call'[s]
    PROVE  /\ UNCHANGED <<kind, numaNums, fa, relsNums, rels, report, todo, agent>>
           /\ \A t \in Slot \ {s} : call'[t] = call[t]
           /\ c.pc = "nums" /\ d.pc = (IF relsNums = 0 THEN "tids" ELSE "pairs")
           /\ d.stale = c.stale /\ d.torn = (todo # <<>>)
           /\ d.src = report /\ d.i = relsNums /\ d.seen = c.seen
<1> DEFINE e == [call[s] EXCEPT !.pc = IF relsNums = 0 THEN "tids" ELSE "pairs",
                                !.i = relsNums, !.src = report, !.torn = todo # <<>>]
<1>0. DOMAIN call[s] = DOMAIN Blank /\ call[s].pc = "nums"
  BY DEF TypeOK, CallOK, ReadNums
<1>1. /\ e.pc = (IF relsNums = 0 THEN "tids" ELSE "pairs")
      /\ e.stale = call[s].stale /\ e.torn = (todo # <<>>)
      /\ e.src = report /\ e.i = relsNums /\ e.seen = call[s].seen
  BY <1>0, BlankFacts
<1> HIDE DEF e
<1>2. Goes(s, e)
  BY DEF ReadNums, e
<1>3. call'[s] = e /\ \A t \in Slot \ {s} : call'[t] = call[t]
  BY <1>2, GoesFacts
<1> QED BY <1>0, <1>1, <1>2, <1>3 DEF Goes, dataVars, agentVars

\* Reading the first field of an element
LEMMA PidAFields ==
    ASSUME TypeOK, NEW s \in Slot, ReadPidA(s), NEW c, c = call[s], NEW d, d = call'[s]
    PROVE  /\ UNCHANGED <<kind, numaNums, fa, relsNums, rels, report, todo, agent>>
           /\ \A t \in Slot \ {s} : call'[t] = call[t]
           /\ c.pc = "pairs" /\ d.pc = "field"
           /\ d.stale = c.stale /\ d.torn = c.torn
           /\ d.src = c.src /\ d.i = c.i /\ d.seen = c.seen
           /\ d.ret = rels[Len(c.seen) + 1][1]
<1> DEFINE x == rels[Len(call[s].seen) + 1][1]
           e == [call[s] EXCEPT !.pc = "field", !.ret = x]
<1>0. DOMAIN call[s] = DOMAIN Blank /\ call[s].pc = "pairs"
  BY DEF TypeOK, CallOK, ReadPidA
<1>1. /\ e.pc = "field" /\ e.stale = call[s].stale /\ e.torn = call[s].torn
      /\ e.src = call[s].src /\ e.i = call[s].i /\ e.seen = call[s].seen
      /\ e.ret = x
  BY <1>0, BlankFacts
<1> HIDE DEF e
<1>2. Goes(s, e)
  BY DEF ReadPidA, e
<1>3. call'[s] = e /\ \A t \in Slot \ {s} : call'[t] = call[t]
  BY <1>2, GoesFacts
<1> QED BY <1>0, <1>1, <1>2, <1>3 DEF Goes, dataVars, agentVars

\* Reading the second one
LEMMA PidBFields ==
    ASSUME TypeOK, NEW s \in Slot, ReadPidB(s), NEW c, c = call[s], NEW d, d = call'[s]
    PROVE  /\ UNCHANGED <<kind, numaNums, fa, relsNums, rels, report, todo, agent>>
           /\ \A t \in Slot \ {s} : call'[t] = call[t]
           /\ c.pc = "field" /\ d.pc = (IF Len(d.seen) = c.i THEN "tids" ELSE "pairs")
           /\ d.stale = c.stale /\ d.torn = c.torn /\ d.src = c.src /\ d.i = c.i
           /\ d.seen = Append(c.seen, <<c.ret, rels[Len(c.seen) + 1][2]>>)
<1> DEFINE more == Append(call[s].seen, <<call[s].ret, rels[Len(call[s].seen) + 1][2]>>)
           e == [call[s] EXCEPT !.pc = IF Len(more) = call[s].i THEN "tids" ELSE "pairs",
                                !.seen = more, !.ret = 0]
<1>0. DOMAIN call[s] = DOMAIN Blank /\ call[s].pc = "field"
  BY DEF TypeOK, CallOK, ReadPidB
<1>2. Goes(s, e)
  BY DEF ReadPidB
<1> HIDE DEF more
<1>1. /\ e.pc = (IF Len(more) = call[s].i THEN "tids" ELSE "pairs")
      /\ e.stale = call[s].stale /\ e.torn = call[s].torn
      /\ e.src = call[s].src /\ e.i = call[s].i /\ e.seen = more
  BY <1>0, BlankFacts
<1> HIDE DEF e
<1>3. call'[s] = e /\ \A t \in Slot \ {s} : call'[t] = call[t]
  BY <1>2, GoesFacts
<1> QED BY <1>0, <1>1, <1>2, <1>3 DEF Goes, dataVars, agentVars, more

\* A new call
LEMMA NewFields ==
    ASSUME TypeOK, NEW s \in Slot, NEW n \in Sizes, GetPodAffinity(s, n), NEW d, d = call'[s]
    PROVE  /\ UNCHANGED <<kind, numaNums, fa, relsNums, rels, report, todo>>
           /\ agent \in {"asked", "stale"} /\ agent' = "waits"
           /\ \A t \in Slot \ {s} : call'[t] = call[t]
           /\ d.pc \in {"nums", "tids"} /\ d.stale = (agent = "stale")
           /\ d.torn = FALSE /\ d.src = <<>> /\ d.seen = <<>>
<1> DEFINE e == [Blank EXCEPT !.pc = IF kind = "netrela" THEN "nums" ELSE "tids",
                              !.n = n, !.stale = (agent = "stale")]
<1>1. /\ e.pc \in {"nums", "tids"} /\ e.stale = (agent = "stale")
      /\ e.torn = FALSE /\ e.src = <<>> /\ e.seen = <<>>
  BY DEF Blank
<1> HIDE DEF e
<1>2. call' = [call EXCEPT ![s] = e]
  BY DEF GetPodAffinity, e
<1>3. call'[s] = e /\ \A t \in Slot \ {s} : call'[t] = call[t]
  BY <1>2 DEF TypeOK
<1> QED BY <1>1, <1>3 DEF GetPodAffinity, dataVars

\* The steps on fa
FaStep(s) == init_unionFindSet(s) \/ Compare(s) \/ Return(s) \/ Compress(s) \/ Link(s)

LEMMA FaFacts ==
    ASSUME TypeOK, NEW s \in Slot, FaStep(s)
    PROVE  /\ UNCHANGED <<kind, numaNums, relsNums, rels, report, todo, agent>>
           /\ call[s].pc \in InFa /\ call'[s].pc \in InFa /\ call'[s].stale = call[s].stale
           /\ \A t \in Slot \ {s} : /\ call[t].pc \in InFa => ~call'[t].alone
                                    /\ call[t].pc \notin InFa => call'[t] = call[t]
                                    /\ call'[t].pc = call[t].pc /\ call'[t].stale = call[t].stale
<1>1. call'[s].pc \in InFa /\ call'[s].stale = call[s].stale
  BY InitTypes, CompareTypes, ReturnTypes, WriteFaTypes DEF FaStep
<1>2. UNCHANGED Local /\ call[s].pc \in InFa
  BY DEF FaStep, init_unionFindSet, Compare, Return, Compress, Link, InFa
<1>3. PICK c : GoesOn(s, c)
  BY DEF FaStep, init_unionFindSet, Compare, Return, Compress, Link
<1> DEFINE met(d) == [d EXCEPT !.alone = FALSE, !.want = {}]
<1>4. \A t \in Slot \ {s} : call'[t] = IF call[t].pc \in InFa THEN met(call[t]) ELSE call[t]
  BY <1>3 DEF GoesOn
<1>5. ASSUME NEW t \in Slot
      PROVE  /\ ~met(call[t]).alone
             /\ met(call[t]).pc = call[t].pc /\ met(call[t]).stale = call[t].stale
  BY BlankFacts DEF TypeOK, CallOK
<1> HIDE DEF met
<1> QED BY <1>1, <1>2, <1>4, <1>5 DEF Local, dataVars, agentVars

-----------------------------------------------------------------------------
(* The number of NUMA nodes                                                *)

LEMMA NodesKept ==
    ASSUME NodesKnown, numaNums' = numaNums, NumaCount' = NumaCount,
           agent' = "asked" => agent = "asked",
           \A t \in Slot : call'[t].pc \notin {"idle", "done"} /\ ~call'[t].stale
                             => call[t].pc \notin {"idle", "done"} /\ ~call[t].stale
    PROVE  NodesKnown'
BY DEF NodesKnown

LEMMA NodesStep == TypeOK /\ NodesKnown /\ [Next]_vars => NodesKnown'
<1> SUFFICES ASSUME TypeOK, NodesKnown, [Next]_vars PROVE NodesKnown'
  OBVIOUS
<1>0. kind' = kind => NumaCount' = NumaCount
  BY DEF NumaCount, get_numa_info
<1>1. ASSUME NEW how \in {"down", "panic"}, Ends(how) PROVE NodesKnown'
  <2>1. \A t \in Slot : call'[t].pc = "idle"
    BY <1>1, EndsFacts, BlankFacts
  <2>2. agent' # "asked"
    BY <1>1 DEF Ends
  <2> QED BY <2>1, <2>2 DEF NodesKnown
<1>2. CASE Process
  <2>1. CASE Serve \/ Signal
    BY <1>0, <2>1, NodesKept DEF Serve, Signal, agentVars
  <2>2. CASE Kill \/ Drained
    BY <1>1, <2>2 DEF Kill, Drained
  <2> QED BY <1>2, <2>1, <2>2 DEF Process
<1>3. CASE Callback
  <2>1. ASSUME NEW r \in Reports, phraseData(r) PROVE NodesKnown'
    <3>1. \A t \in Slot : call'[t].pc = call[t].pc /\ call'[t].stale = call[t].stale
      <4>1. \A t \in Slot : DOMAIN call[t] = DOMAIN Blank
        BY DEF TypeOK, CallOK
      <4> QED BY <2>1, <4>1, ReportTypes, BlankFacts
    <3> QED BY <1>0, <2>1, <3>1, NodesKept DEF phraseData, agentVars
  <2>2. CASE WriteField
    BY <1>0, <2>2, NodesKept DEF WriteField, agentVars
  <2> QED BY <1>3, <2>1, <2>2 DEF Callback
<1>4. CASE Agent
  <2>1. CASE GetNumaNodeInof
    BY <1>0, <2>1 DEF GetNumaNodeInof, Counted, NodesKnown
  <2>2. CASE CpusetOverflow
    BY <1>1, <2>2 DEF CpusetOverflow
  <2>3. CASE CallFails \/ AgentEnds
    BY <1>0, <2>3, NodesKept DEF CallFails, AgentEnds
  <2>4. ASSUME NEW s \in Slot, NEW n \in Sizes, GetPodAffinity(s, n) PROVE NodesKnown'
    <3>1. /\ numaNums' = numaNums /\ NumaCount' = NumaCount
          /\ agent \in {"asked", "stale"} /\ agent' = "waits"
          /\ \A t \in Slot \ {s} : call'[t] = call[t]
          /\ call'[s].stale = (agent = "stale")
      BY <1>0, <2>4, NewFields
    <3> QED BY <3>1 DEF NodesKnown
  <2> QED BY <1>4, <2>1, <2>2, <2>3, <2>4 DEF Agent
<1>5. ASSUME NEW s \in Slot, Handler(s) PROVE NodesKnown'
  <2>1. CASE ReadNums(s)
    BY <1>0, <2>1, NumsFields, NodesKept
  <2>2. CASE ReadPidA(s)
    BY <1>0, <2>2, PidAFields, NodesKept
  <2>3. CASE ReadPidB(s)
    BY <1>0, <2>3, PidBFields, NodesKept
  <2>4. CASE getTidListForPods(s)
    BY <1>0, <2>4, ThreadTypes, NodesKept
  <2>5. CASE calculateGid(s)
    BY <1>0, <2>5, GroupTypes, NodesKept
  <2>6. CASE FaStep(s)
    <3>1. call[s].pc \notin {"idle", "done"}
      BY <2>6, FaFacts DEF InFa
    <3> QED BY <1>0, <2>6, <3>1, FaFacts, NodesKept
  <2>7. CASE getPodsAffinity(s) \/ Answered(s)
    BY <1>0, <2>7, DoneTypes, NodesKept
  <2>8. CASE IndexPanic(s) \/ Overflow(s) \/ DividePanic(s)
    BY <1>1, <2>8, PanicTypes
  <2> QED BY <1>5, <2>1, <2>2, <2>3, <2>4, <2>5, <2>6, <2>7, <2>8 DEF Handler, FaStep
<1>6. CASE UNCHANGED vars
  BY <1>0, <1>6, NodesKept DEF vars
<1> QED BY <1>2, <1>3, <1>4, <1>5, <1>6 DEF Next

-----------------------------------------------------------------------------
(* The steps of a call that is alone on fa                                 *)

\* After such a step the call is what the step made of it.
LEMMA AloneFacts ==
    ASSUME NEW s \in Slot, NEW c, DOMAIN c = DOMAIN Blank, GoesOn(s, c), call'[s].alone
    PROVE  call'[s] = c
<1> DEFINE others == {t \in Slot \ {s} : call[t].pc \in InFa}
           e == [c EXCEPT !.alone = FALSE, !.want = {}]
<1>1. call'[s] = IF others = {} THEN c ELSE e
  BY DEF GoesOn
<1>2. ~e.alone
  BY BlankFacts
<1> QED BY <1>1, <1>2

\* The call is at its next pair, or, with no pair left, at the count of the groups.
OnPair(d) == /\ d.left = {} => d.st = <<0>> /\ d.use = "group"
             /\ d.left # {} => d.st = <<First(d.left)[1]>> /\ d.use = "x"

LEMMA InitFields ==
    ASSUME TypeOK, NEW s \in Slot, init_unionFindSet(s), NEW c, c = call[s],
           NEW d, d = call'[s], d.alone
    PROVE  /\ c.pc = "init" /\ c.alone /\ d.n = c.n /\ d.torn = c.torn /\ d.want = c.want
           /\ c.i \in 0 .. c.n /\ c.n \in Sizes /\ d.root = c.root /\ c.root = <<>>
           /\ c.i \in Index /\ fa' = [fa EXCEPT ![c.i] = c.i]
           /\ c.i < c.n => d.pc = "init" /\ d.i = c.i + 1 /\ d.aff = c.aff
           /\ ~(c.i < c.n) => d.pc = "find" /\ d.left = c.aff /\ OnPair(d)
<1> DEFINE e == [c EXCEPT !.i = @ + 1]
           z == [c EXCEPT !.i = 0, !.aff = {}, !.left = c.aff]
           y == NextPair(z)
<1>0. /\ CallOK(c) /\ DOMAIN c = DOMAIN Blank /\ c.pc = "init" /\ c.i < FaSize
      /\ GoesOn(s, IF c.i < c.n THEN e ELSE y) /\ fa' = [fa EXCEPT ![c.i] = c.i]
  BY DEF TypeOK, CallOK, init_unionFindSet
<1>1. c.i \in 0 .. c.n /\ c.n \in Sizes /\ c.n \in Nat /\ c.i \in Index /\ c.root = <<>>
  <2>1. c.i \in 0 .. c.n /\ c.n \in Sizes /\ c.n \in Nat
    BY <1>0, SizeFacts DEF CallOK
  <2>2. c.i \in Index
    BY <1>0, <2>1, SizeFacts DEF Index
  <2> QED BY <1>0, <2>1, <2>2 DEF CallOK, InFa, InFind
<1>2. CASE c.i < c.n
  <2>1. /\ DOMAIN e = DOMAIN Blank
        /\ e.i = c.i + 1 /\ e.torn = c.torn /\ e.n = c.n
        /\ e.alone = c.alone /\ e.pc = "init" /\ e.root = c.root
        /\ e.aff = c.aff /\ e.want = c.want
    BY <1>0, BlankFacts
  <2> HIDE DEF e
  <2>2. d = e
    BY <1>0, <1>2, <2>1, AloneFacts
  <2> QED BY <1>0, <1>1, <1>2, <2>1, <2>2
<1>3. CASE ~(c.i < c.n)
  <2>1. /\ DOMAIN z = DOMAIN Blank
        /\ z.torn = c.torn /\ z.n = c.n /\ z.alone = c.alone /\ z.left = c.aff
        /\ z.root = c.root /\ z.want = c.want
    BY <1>0, BlankFacts
  <2> HIDE DEF z
  <2>2. /\ DOMAIN y = DOMAIN Blank
        /\ y.torn = c.torn /\ y.n = c.n /\ y.alone = c.alone /\ y.left = c.aff
        /\ y.root = c.root /\ y.want = c.want /\ y.pc = "find"
        /\ c.aff = {} => y.st = <<0>> /\ y.use = "group"
        /\ c.aff # {} => y.st = <<First(c.aff)[1]>> /\ y.use = "x"
    BY <2>1, NextFields
  <2> HIDE DEF y
  <2>3. d = y
    BY <1>0, <1>3, <2>2, AloneFacts
  <2>4. OnPair(d)
    BY <2>2, <2>3 DEF OnPair
  <2> QED BY <1>0, <1>1, <1>3, <2>2, <2>3, <2>4
<1> QED BY <1>2, <1>3

LEMMA CompareFields ==
    ASSUME TypeOK, NEW s \in Slot, Compare(s), NEW c, c = call[s],
           NEW d, d = call'[s], d.alone
    PROVE  /\ c.pc = "find" /\ fa' = fa
           /\ c.alone /\ d.n = c.n /\ d.torn = c.torn /\ d.want = c.want /\ d.left = c.left
           /\ d.rx = c.rx /\ d.use = c.use /\ d.root = c.root
           /\ fa[Top(c)] = Top(c) => d.pc = "back" /\ d.st = c.st
           /\ fa[Top(c)] # Top(c) => d.pc = "find" /\ d.st = Append(c.st, fa[Top(c)])
<1> DEFINE y == fa[Top(c)]
           e == IF y = Top(c) THEN [c EXCEPT !.pc = "back"] ELSE [c EXCEPT !.st = Append(@, y)]
<1>0. DOMAIN c = DOMAIN Blank /\ c.pc = "find" /\ GoesOn(s, e) /\ fa' = fa
  BY DEF TypeOK, CallOK, Compare
<1> HIDE DEF y
<1>1. /\ DOMAIN e = DOMAIN Blank
      /\ e.pc = (IF y = Top(c) THEN "back" ELSE "find")
      /\ e.st = (IF y = Top(c) THEN c.st ELSE Append(c.st, y))
      /\ e.torn = c.torn /\ e.n = c.n /\ e.rx = c.rx /\ e.alone = c.alone /\ e.left = c.left
      /\ e.use = c.use /\ e.root = c.root /\ e.want = c.want
  BY <1>0, BlankFacts
<1> HIDE DEF e
<1>2. d = e
  BY <1>0, <1>1, AloneFacts
<1> QED BY <1>0, <1>1, <1>2 DEF y

LEMMA ReturnFields ==
    ASSUME TypeOK, NEW s \in Slot, Return(s), NEW c, c = call[s],
           NEW d, d = call'[s], d.alone
    PROVE  /\ c.pc = "back" /\ fa' = fa /\ DOMAIN c = DOMAIN Blank
           /\ Len(c.st) = 1 => d = Found(c, fa[Top(c)])
           /\ Len(c.st) # 1 =>
                 /\ c.alone /\ d.n = c.n /\ d.torn = c.torn /\ d.want = c.want
                 /\ d.left = c.left /\ d.rx = c.rx /\ d.use = c.use /\ d.root = c.root
                 /\ d.pc = "set" /\ d.ret = fa[Top(c)]
                 /\ d.st = SubSeq(c.st, 1, Len(c.st) - 1)
<1> DEFINE r == fa[Top(c)]
           e == [c EXCEPT !.pc = "set", !.ret = r, !.st = SubSeq(@, 1, Len(@) - 1)]
<1>0. /\ CallOK(c) /\ DOMAIN c = DOMAIN Blank /\ c.pc = "back" /\ InFind(c) /\ fa' = fa
      /\ GoesOn(s, IF Len(c.st) = 1 THEN Found(c, r) ELSE e)
  BY DEF TypeOK, CallOK, Return, InFind
<1>1. CASE Len(c.st) = 1
  <2>1. r \in Index
    BY <1>0, TopFacts
  <2> HIDE DEF r
  <2>2. DOMAIN Found(c, r) = DOMAIN Blank
    <3>1. CallOK(Found(c, r))
      BY <1>0, <2>1, FoundOK
    <3> QED BY <3>1 DEF CallOK
  <2>3. d = Found(c, r)
    BY <1>0, <1>1, <2>2, AloneFacts
  <2> QED BY <1>0, <1>1, <2>3 DEF r
<1>2. CASE Len(c.st) # 1
  <2> HIDE DEF r
  <2>1. /\ DOMAIN e = DOMAIN Blank
        /\ e.pc = "set" /\ e.ret = r /\ e.st = SubSeq(c.st, 1, Len(c.st) - 1)
        /\ e.torn = c.torn /\ e.n = c.n /\ e.rx = c.rx /\ e.alone = c.alone
        /\ e.left = c.left /\ e.use = c.use /\ e.root = c.root /\ e.want = c.want
    BY <1>0, BlankFacts
  <2> HIDE DEF e
  <2>2. d = e
    BY <1>0, <1>2, <2>1, AloneFacts
  <2> QED BY <1>0, <1>2, <2>1, <2>2 DEF r
<1> QED BY <1>1, <1>2

LEMMA CompressFields ==
    ASSUME TypeOK, NEW s \in Slot, Compress(s), NEW c, c = call[s],
           NEW d, d = call'[s], d.alone
    PROVE  /\ c.pc = "set" /\ fa' = [fa EXCEPT ![Top(c)] = c.ret]
           /\ c.alone /\ d.n = c.n /\ d.torn = c.torn /\ d.want = c.want /\ d.left = c.left
           /\ d.rx = c.rx /\ d.use = c.use /\ d.root = c.root
           /\ d.pc = "back" /\ d.st = c.st
<1> DEFINE e == [c EXCEPT !.pc = "back", !.ret = 0]
<1>0. /\ DOMAIN c = DOMAIN Blank /\ c.pc = "set" /\ GoesOn(s, e)
      /\ fa' = [fa EXCEPT ![Top(c)] = c.ret]
  BY DEF TypeOK, CallOK, Compress
<1>1. /\ DOMAIN e = DOMAIN Blank /\ e.pc = "back" /\ e.st = c.st
      /\ e.torn = c.torn /\ e.n = c.n /\ e.rx = c.rx /\ e.alone = c.alone /\ e.left = c.left
      /\ e.use = c.use /\ e.root = c.root /\ e.want = c.want
  BY <1>0, BlankFacts
<1> HIDE DEF e
<1>2. d = e
  BY <1>0, <1>1, AloneFacts
<1> QED BY <1>0, <1>1, <1>2

LEMMA LinkFields ==
    ASSUME TypeOK, NEW s \in Slot, Link(s), NEW c, c = call[s],
           NEW d, d = call'[s], d.alone
    PROVE  /\ c.pc = "link" /\ fa' = [fa EXCEPT ![c.rx] = c.ret]
           /\ c.alone /\ d.n = c.n /\ d.torn = c.torn /\ d.want = c.want /\ d.left = c.left
           /\ d.root = c.root /\ c.root = <<>> /\ d.pc = "find"
           /\ d.left = {} => d.st = <<0>> /\ d.use = "group"
           /\ d.left # {} => d.st = <<First(d.left)[1]>> /\ d.use = "x"
<1> DEFINE z == [c EXCEPT !.rx = 0, !.ret = 0]
           y == NextPair(z)
<1>0. /\ DOMAIN c = DOMAIN Blank /\ c.pc = "link" /\ GoesOn(s, y) /\ c.root = <<>>
      /\ fa' = [fa EXCEPT ![c.rx] = c.ret]
  BY DEF TypeOK, CallOK, Link, InFa, InFind
<1>1. /\ DOMAIN z = DOMAIN Blank
      /\ z.torn = c.torn /\ z.n = c.n /\ z.alone = c.alone /\ z.left = c.left
      /\ z.root = c.root /\ z.want = c.want
  BY <1>0, BlankFacts
<1> HIDE DEF z
<1>2. /\ DOMAIN y = DOMAIN Blank
      /\ y.torn = c.torn /\ y.n = c.n /\ y.alone = c.alone /\ y.left = c.left
      /\ y.root = c.root /\ y.want = c.want /\ y.pc = "find"
      /\ c.left = {} => y.st = <<0>> /\ y.use = "group"
      /\ c.left # {} => y.st = <<First(c.left)[1]>> /\ y.use = "x"
  BY <1>1, NextFields
<1> HIDE DEF y
<1>3. d = y
  BY <1>0, <1>2, AloneFacts
<1> QED BY <1>0, <1>2, <1>3

-----------------------------------------------------------------------------
(* The report                                                              *)

\* Steps that neither read nor write the report
LEMMA ReadsKept ==
    ASSUME Reads, UNCHANGED <<relsNums, rels, report, todo>>,
           \A t \in Slot : ReadsReport(call[t], report, todo)
                => ReadsReport(call'[t], report', todo')
    PROVE  Reads'
BY DEF Reads, Written

LEMMA ReadsStep == TypeOK /\ Reads /\ [Next]_vars => Reads'
<1> SUFFICES ASSUME TypeOK, Reads, [Next]_vars PROVE Reads'
  OBVIOUS
<1>0. ReadsReport(Blank, report', todo')
  BY BlankFacts DEF ReadsReport, Blank
<1>1. ASSUME NEW how \in {"down", "panic"}, Ends(how) PROVE Reads'
  <2>1. \A t \in Slot : call'[t] = Blank
    BY <1>1, EndsFacts
  <2>2. relsNums' = 0 /\ report' = <<>>
    BY <1>1 DEF Ends
  <2> QED BY <1>0, <2>1, <2>2 DEF Reads, Written
<1>2. CASE UNCHANGED <<relsNums, rels, report, todo, call>>
  BY <1>2, ReadsKept
<1>3. CASE Process
  BY <1>1, <1>2, <1>3 DEF Process, Serve, Kill, Signal, Drained, dataVars
<1>4. ASSUME NEW r \in Reports, phraseData(r) PROVE Reads'
  <2>1. /\ relsNums' = Len(r) /\ report' = r
        /\ todo' = [k \in 1 .. 2 * Len(r) |-> <<(k + 1) \div 2, 2 - (k % 2)>>]
    BY <1>4 DEF phraseData
  <2>2. Len(r) \in Nat
    BY ReportFacts
  <2>3. \A k \in 1 .. Len(r), f \in {1, 2} : \E j \in 1 .. Len(todo') : todo'[j] = <<k, f>>
    <3>1. todo' = AllFields(Len(r))
      BY <2>1 DEF AllFields
    <3>2. HasAll(todo', Len(r))
      BY <2>2, <3>1, TodoFacts
    <3> QED BY <3>2 DEF HasAll
  <2>4. Written'
    BY <2>1, <2>3 DEF Written
  <2>5. ASSUME NEW t \in Slot PROVE ReadsReport(call'[t], report', todo')
    <3>1. CASE call[t].pc \in Reading
      <4>1. call'[t] = [call[t] EXCEPT !.torn = TRUE]
        BY <1>4, <3>1, ReportTypes
      <4>2. call'[t].torn
        BY <4>1, BlankFacts DEF TypeOK, CallOK
      <4> QED BY <4>2 DEF ReadsReport
    <3>2. CASE call[t].pc \notin Reading
      <4>1. call'[t] = call[t]
        BY <1>4, <3>2, ReportTypes
      <4> QED BY <3>2, <4>1 DEF Reads, ReadsReport, Reading
    <3> QED BY <3>1, <3>2
  <2> QED BY <2>4, <2>5 DEF Reads
<1>5. CASE WriteField
  <2>1. PICK k \in 1 .. Len(report), f \in {1, 2} :
          /\ todo[1] = <<k, f>> /\ todo' = Tail(todo) /\ k \in 1 .. RelSize
          /\ rels'[k][f] = report[k][f] /\ rels'[k][3 - f] = rels[k][3 - f]
          /\ \A j \in (1 .. RelSize) \ {k} : rels'[j] = rels[j]
    BY <1>5, WriteTypes
  <2>2. /\ todo # <<>> /\ UNCHANGED <<relsNums, report, call>>
        /\ todo \in Seq((1 .. Len(report)) \X {1, 2})
    BY <1>5 DEF WriteField, TypeOK
  <2>3. ASSUME NEW m \in 1 .. Len(report), NEW g \in {1, 2},
               ~ \E j \in 1 .. Len(todo') : todo'[j] = <<m, g>>
        PROVE  rels'[m][g] = report[m][g]
    <3>1. CASE m = k /\ g = f
      BY <2>1, <3>1
    <3>2. CASE ~(m = k /\ g = f)
      <4>1. \A j \in 1 .. Len(todo) : todo[j] # <<m, g>>
        <5> SUFFICES ASSUME NEW j \in 1 .. Len(todo), todo[j] = <<m, g>> PROVE FALSE
          OBVIOUS
        <5>1. j # 1
          BY <2>1, <3>2
        <5>2. j - 1 \in 1 .. Len(todo') /\ todo'[j - 1] = todo[j]
          BY <2>1, <2>2, <5>1
        <5> QED BY <2>3, <5>2
      <4>2. rels[m][g] = report[m][g]
        BY <4>1 DEF Reads, Written
      <4>3. m \in 1 .. RelSize
        BY ReportFacts, SizeFacts
      <4>4. CASE m # k
        BY <2>1, <4>2, <4>3, <4>4
      <4>5. CASE m = k
        BY <2>1, <3>2, <4>2, <4>5
      <4> QED BY <4>4, <4>5
    <3> QED BY <3>1, <3>2
  <2>4. Written'
    BY <2>2, <2>3 DEF Written, Reads
  <2>5. ASSUME NEW t \in Slot PROVE ReadsReport(call'[t], report', todo')
    BY <2>2 DEF Reads, ReadsReport
  <2> QED BY <2>4, <2>5 DEF Reads
<1>6. CASE Agent
  <2>1. CASE GetNumaNodeInof \/ CallFails \/ AgentEnds
    BY <1>2, <2>1 DEF GetNumaNodeInof, CallFails, AgentEnds, dataVars
  <2>2. CASE CpusetOverflow
    BY <1>1, <2>2 DEF CpusetOverflow
  <2>3. ASSUME NEW s \in Slot, NEW n \in Sizes, GetPodAffinity(s, n) PROVE Reads'
    <3>1. /\ UNCHANGED <<relsNums, rels, report, todo>>
          /\ \A t \in Slot \ {s} : call'[t] = call[t]
          /\ call'[s].pc \in {"nums", "tids"}
          /\ call'[s].src = <<>> /\ call'[s].seen = <<>>
      BY <2>3, NewFields
    <3>2. ReadsReport(call'[s], report', todo')
      BY <3>1 DEF ReadsReport
    <3> QED BY <3>1, <3>2, ReadsKept
  <2> QED BY <1>6, <2>1, <2>2, <2>3 DEF Agent
<1>7. ASSUME NEW s \in Slot, Handler(s) PROVE Reads'
  <2> DEFINE c == call[s]
             d == call'[s]
  <2>0. ReadsReport(c, report, todo) /\ CallOK(c)
    BY DEF Reads, TypeOK
  <2>1. CASE ReadNums(s)
    <3>1. /\ UNCHANGED <<relsNums, rels, report, todo>>
          /\ \A t \in Slot \ {s} : call'[t] = call[t]
          /\ c.pc = "nums" /\ d.pc = (IF relsNums = 0 THEN "tids" ELSE "pairs")
          /\ d.torn = (todo # <<>>) /\ d.src = report /\ d.i = relsNums /\ d.seen = c.seen
      BY <2>1, NumsFields
    <3>2. c.seen = <<>> /\ relsNums = Len(report) /\ report \in Seq(Nat \X Nat)
      BY <2>0, <3>1, ReportFacts DEF CallOK, Reads, Written
    <3>3. relsNums = 0 => report = <<>>
      BY <3>2, EmptySeq
    <3>4. CASE todo # <<>>
      <4>1. ReadsReport(d, report', todo')
        BY <3>1, <3>4 DEF ReadsReport
      <4> QED BY <3>1, <4>1, ReadsKept
    <3>5. CASE todo = <<>>
      <4>1. ~ \E k \in 1 .. Len(d.seen) : TRUE
        BY <3>1, <3>2
      <4>2. ReadsReport(d, report', todo')
        BY <3>1, <3>2, <3>3, <3>5, <4>1 DEF ReadsReport
      <4> QED BY <3>1, <4>2, ReadsKept
    <3> QED BY <3>4, <3>5
  <2>2. CASE ReadPidA(s)
    <3>1. /\ UNCHANGED <<relsNums, rels, report, todo>>
          /\ \A t \in Slot \ {s} : call'[t] = call[t]
          /\ c.pc = "pairs" /\ d.pc = "field" /\ d.torn = c.torn /\ d.src = c.src
          /\ d.i = c.i /\ d.seen = c.seen /\ d.ret = rels[Len(c.seen) + 1][1]
      BY <2>2, PidAFields
    <3>2. ~c.torn => d.ret = report[Len(c.seen) + 1][1]
      <4> SUFFICES ASSUME ~c.torn PROVE d.ret = report[Len(c.seen) + 1][1]
        OBVIOUS
      <4>1. todo = <<>> /\ c.i = Len(report)
        BY <2>0, <3>1 DEF ReadsReport
      <4>2. Len(c.seen) \in Nat /\ Len(c.seen) < c.i /\ c.i \in Nat
        BY <2>0, <3>1, SizeFacts DEF CallOK
      <4>3. Len(c.seen) + 1 \in 1 .. Len(report)
        BY <4>1, <4>2
      <4> QED BY <3>1, <4>1, <4>3 DEF Reads, Written
    <3>3. ReadsReport(d, report', todo')
      BY <2>0, <3>1, <3>2 DEF ReadsReport
    <3> QED BY <3>1, <3>3, ReadsKept
  <2>3. CASE ReadPidB(s)
    <3> DEFINE x == rels[Len(c.seen) + 1][2]
    <3>1. /\ UNCHANGED <<relsNums, rels, report, todo>>
          /\ \A t \in Slot \ {s} : call'[t] = call[t]
          /\ c.pc = "field" /\ d.pc = (IF Len(d.seen) = c.i THEN "tids" ELSE "pairs")
          /\ d.torn = c.torn /\ d.src = c.src /\ d.i = c.i
          /\ d.seen = Append(c.seen, <<c.ret, x>>)
      BY <2>3, PidBFields
    <3>2. CASE ~c.torn
      <4>1. /\ todo = <<>> /\ c.i = Len(report) /\ c.src = report
            /\ \A k \in 1 .. Len(c.seen) : c.seen[k] = report[k]
            /\ c.ret = report[Len(c.seen) + 1][1]
        BY <2>0, <3>1, <3>2 DEF ReadsReport
      <4>2. /\ Len(c.seen) \in Nat /\ Len(c.seen) < c.i /\ c.i \in Nat
            /\ c.seen \in Seq(Tid \X Tid) /\ c.ret \in Tid
        BY <2>0, <3>1, SizeFacts DEF CallOK
      <4>3. Len(c.seen) + 1 \in 1 .. Len(report)
        BY <4>1, <4>2
      <4>4. x = report[Len(c.seen) + 1][2]
        BY <4>1, <4>3 DEF Reads, Written
      <4>5. report[Len(c.seen) + 1] \in Nat \X Nat /\ report \in Seq(Nat \X Nat)
        BY <4>3, ReportFacts
      <4>6. <<c.ret, x>> = report[Len(c.seen) + 1]
        BY <4>1, <4>4, <4>5
      <4>7. <<c.ret, x>> \in Tid \X Tid
        BY <4>5, <4>6 DEF Tid
      <4> HIDE DEF x
      <4>8. /\ d.seen \in Seq(Tid \X Tid) /\ Len(d.seen) = Len(c.seen) + 1
            /\ d.seen[Len(c.seen) + 1] = <<c.ret, x>>
            /\ \A k \in 1 .. Len(c.seen) : d.seen[k] = c.seen[k]
        BY <3>1, <4>2, <4>7, AppendProperties
      <4>9. ASSUME NEW k \in 1 .. Len(d.seen) PROVE d.seen[k] = report[k]
        <5>1. CASE k = Len(c.seen) + 1
          BY <4>6, <4>8, <5>1
        <5>2. CASE k # Len(c.seen) + 1
          <6>1. k \in 1 .. Len(c.seen)
            BY <4>2, <4>8, <5>2
          <6> QED BY <4>1, <4>8, <6>1
        <5> QED BY <5>1, <5>2
      <4>10. Len(d.seen) = c.i => d.seen = report
        <5> SUFFICES ASSUME Len(d.seen) = Len(report) PROVE d.seen = report
          BY <4>1
        <5>1. report \in Seq(Tid \X Tid)
          BY <4>5 DEF Tid
        <5> QED BY <5>1, <4>8, <4>9, SeqEqual
      <4>11. ReadsReport(d, report', todo')
        BY <3>1, <4>1, <4>9, <4>10 DEF ReadsReport
      <4> QED BY <3>1, <4>11, ReadsKept
    <3>3. CASE c.torn
      <4>1. ReadsReport(d, report', todo')
        BY <3>1, <3>3 DEF ReadsReport
      <4> QED BY <3>1, <4>1, ReadsKept
    <3> QED BY <3>2, <3>3
  <2>4. CASE getTidListForPods(s)
    <3>1. /\ UNCHANGED <<relsNums, rels, report, todo>>
          /\ \A t \in Slot \ {s} : call'[t] = call[t]
          /\ c.pc = "tids" /\ d.pc \in {"init", "gids"} /\ d.torn = c.torn
          /\ d.pc = "init" /\ c.seen = c.src => d.aff = d.want
      BY <2>4, ThreadTypes
    <3>2. ReadsReport(d, report', todo')
      BY <2>0, <3>1 DEF ReadsReport
    <3> QED BY <3>1, <3>2, ReadsKept
  <2>5. CASE calculateGid(s)
    <3>1. /\ UNCHANGED <<relsNums, rels, report, todo>>
          /\ \A t \in Slot \ {s} : call'[t] = call[t]
          /\ d.pc = "init" /\ d.aff = d.want
      BY <2>5, GroupTypes
    <3>2. ReadsReport(d, report', todo')
      BY <3>1 DEF ReadsReport
    <3> QED BY <3>1, <3>2, ReadsKept
  <2>6. CASE FaStep(s)
    <3>1. /\ UNCHANGED <<relsNums, rels, report, todo>> /\ d.pc \in InFa
          /\ \A t \in Slot \ {s} : /\ call[t].pc \in InFa => ~call'[t].alone
                                   /\ call[t].pc \notin InFa => call'[t] = call[t]
                                   /\ call'[t].pc = call[t].pc
      BY <2>6, FaFacts
    <3>2. ASSUME NEW t \in Slot \ {s} PROVE ReadsReport(call'[t], report', todo')
      <4>1. CASE call[t].pc \in InFa
        BY <3>1, <4>1 DEF ReadsReport, InFa
      <4>2. CASE call[t].pc \notin InFa
        BY <3>1, <4>2 DEF Reads
      <4> QED BY <4>1, <4>2
    <3>3. ASSUME d.alone, d.pc = "init", ~d.torn PROVE d.aff = d.want
      <4>1. CASE init_unionFindSet(s)
        <5>1. /\ c.pc = "init" /\ c.alone /\ d.torn = c.torn /\ d.want = c.want
              /\ c.i < c.n => d.aff = c.aff
              /\ ~(c.i < c.n) => d.pc = "find"
          BY <3>3, <4>1, InitFields
        <5> QED BY <2>0, <3>3, <5>1 DEF ReadsReport
      <4>2. CASE Compare(s)
        <5>1. d.pc \in {"find", "back"}
          BY <3>3, <4>2, CompareFields
        <5> QED BY <3>3, <5>1
      <4>3. CASE Return(s)
        <5> DEFINE r == fa[Top(c)]
        <5>1. /\ DOMAIN c = DOMAIN Blank /\ c.pc = "back"
              /\ Len(c.st) = 1 => d = Found(c, r)
              /\ Len(c.st) # 1 => d.pc = "set"
          BY <3>3, <4>3, ReturnFields
        <5>2. c.use \in {"x", "y", "group"}
          BY <2>0 DEF CallOK
        <5> HIDE DEF r
        <5>3. Found(c, r).pc # "init"
          <6>1. CASE c.use = "x"
            BY <5>1, <6>1, FoundFirst
          <6>2. CASE c.use = "y" /\ r = c.rx
            <7>1. Found(c, c.rx).pc = "find"
              BY <5>1, <6>2, FoundSame
            <7> QED BY <6>2, <7>1
          <6>3. CASE c.use = "y" /\ r # c.rx
            BY <5>1, <6>3, FoundOther
          <6>4. CASE c.use = "group"
            BY <5>1, <6>4, FoundRoot
          <6> QED BY <5>2, <6>1, <6>2, <6>3, <6>4
        <5> QED BY <3>3, <5>1, <5>3
      <4>4. CASE Compress(s) \/ Link(s)
        <5>1. d.pc \in {"back", "find"}
          BY <3>3, <4>4, CompressFields, LinkFields
        <5> QED BY <3>3, <5>1
      <4> QED BY <2>6, <4>1, <4>2, <4>3, <4>4 DEF FaStep
    <3>4. ReadsReport(d, report', todo')
      BY <3>1, <3>3 DEF ReadsReport, InFa
    <3> QED BY <3>1, <3>2, <3>4, ReadsKept
  <2>7. CASE getPodsAffinity(s) \/ Answered(s)
    <3>1. /\ UNCHANGED <<relsNums, rels, report, todo>>
          /\ d.pc \in {"idle", "done"} /\ \A t \in Slot \ {s} : call'[t] = call[t]
      BY <2>7, DoneTypes
    <3>2. ReadsReport(d, report', todo')
      BY <3>1 DEF ReadsReport
    <3> QED BY <3>1, <3>2, ReadsKept
  <2>8. CASE IndexPanic(s) \/ Overflow(s) \/ DividePanic(s)
    BY <1>1, <2>8, PanicTypes
  <2> QED BY <1>7, <2>1, <2>2, <2>3, <2>4, <2>5, <2>6, <2>7, <2>8 DEF Handler, FaStep
<1>8. CASE UNCHANGED vars
  BY <1>2, <1>8 DEF vars, dataVars
<1> QED BY <1>3, <1>4, <1>5, <1>6, <1>7, <1>8 DEF Next, Callback

-----------------------------------------------------------------------------
(* The forest                                                              *)

\* Pods are in one component or in different ones: each is in its own, ...
LEMMA OwnComponent ==
    ASSUME NEW n, NEW R, NEW x \in Pods(n)
    PROVE  x \in Component(n, R, x)
BY DEF Component

\* ... with those of another that has one of its own, ...
LEMMA SharedComponent ==
    ASSUME NEW n, NEW R, NEW x \in Pods(n), NEW y \in Component(n, R, x),
           NEW z \in Component(n, R, y)
    PROVE  z \in Component(n, R, x)
BY DEF Component

\* ... which has it in turn, ...
LEMMA SameComponent ==
    ASSUME NEW n, NEW R \in SUBSET Pairs(n), NEW x \in Pods(n), NEW y \in Component(n, R, x)
    PROVE  x \in Component(n, R, y)
<1> SUFFICES ASSUME NEW S \in SUBSET Pods(n), y \in S, x \notin S,
                    \A e \in R : e[1] \in S <=> e[2] \in S
             PROVE  FALSE
  BY DEF Component
<1> DEFINE T == Pods(n) \ S
<1>0. \A e \in R : e[1] \in Pods(n) /\ e[2] \in Pods(n)
  BY DEF Pairs
<1>1. \A e \in R : e[1] \in T <=> e[2] \in T
  BY <1>0
<1>2. T \in SUBSET Pods(n) /\ x \in T /\ y \notin T
  OBVIOUS
<1> QED BY <1>1, <1>2 DEF Component

\* ... and with those that it is related to.
LEMMA RelatedComponent ==
    ASSUME NEW n, NEW R \in SUBSET Pairs(n), NEW p \in R
    PROVE  p[2] \in Component(n, R, p[1])
<1>1. p[2] \in Pods(n)
  BY DEF Pairs
<1> QED BY <1>1 DEF Component

\* A root's root is itself.
LEMMA RootFacts ==
    ASSUME NEW f, NEW n, NEW L, NEW rank, Rooted(f, n, L, rank), NEW x \in Pods(n)
    PROVE  L[x] \in Pods(n) /\ L[L[x]] = L[x] /\ f[L[x]] = L[x]
BY DEF Rooted

\* fa[x] = find(fa[x]) keeps the trees.
LEMMA CompressRooted ==
    ASSUME NEW f \in [Index -> Index], NEW n, NEW L, NEW rank, Rooted(f, n, L, rank),
           NEW x \in Pods(n), x \in Index
    PROVE  Rooted([f EXCEPT ![x] = L[x]], n, L, rank)
<1> DEFINE g == [f EXCEPT ![x] = L[x]]
<1>1. g[x] = L[x] /\ \A y \in Pods(n) : y # x => g[y] = f[y]
  OBVIOUS
<1> HIDE DEF g
<1>2. ASSUME NEW y \in Pods(n)
      PROVE  /\ g[y] \in Pods(n) /\ L[y] \in Pods(n) /\ rank[y] \in Nat
             /\ L[g[y]] = L[y] /\ g[L[y]] = L[y]
             /\ g[y] = y => L[y] = y
             /\ g[y] # y => rank[y] < rank[g[y]] /\ rank[y] < rank[L[y]]
  <2>1. L[y] \in Pods(n) /\ L[L[y]] = L[y]
    BY RootFacts
  <2>2. CASE y = x
    BY <1>1, <2>1, <2>2 DEF Rooted
  <2>3. CASE y # x
    BY <1>1, <2>1, <2>3 DEF Rooted
  <2> QED BY <2>2, <2>3
<1> QED BY <1>2 DEF Rooted, g

\* fa[rx] = ry puts the pods under rx under ry.
Joins(L, rx, ry) == [x \in DOMAIN L |-> IF L[x] = rx THEN ry ELSE L[x]]
Raised(rank, rx, ry) == [rank EXCEPT ![ry] = rank[ry] + rank[rx] + 1]

LEMMA LinkRooted ==
    ASSUME NEW f \in [Index -> Index], NEW n,
           NEW L \in [Pods(n) -> Pods(n)], NEW rank \in [Pods(n) -> Nat],
           Rooted(f, n, L, rank), Pods(n) \subseteq Index,
           NEW rx \in Pods(n), NEW ry \in Pods(n), L[rx] = rx, L[ry] = ry, rx # ry
    PROVE  /\ Joins(L, rx, ry) \in [Pods(n) -> Pods(n)]
           /\ Raised(rank, rx, ry) \in [Pods(n) -> Nat]
           /\ Rooted([f EXCEPT ![rx] = ry], n, Joins(L, rx, ry), Raised(rank, rx, ry))
<1> DEFINE g == [f EXCEPT ![rx] = ry]
           M == Joins(L, rx, ry)
           high == Raised(rank, rx, ry)
<1>1. g[rx] = ry /\ \A x \in Pods(n) : x # rx => g[x] = f[x]
  OBVIOUS
<1>2. \A x \in Pods(n) : M[x] = IF L[x] = rx THEN ry ELSE L[x]
  BY DEF Joins
<1>3. M \in [Pods(n) -> Pods(n)]
  BY DEF Joins
<1>4. high[ry] = rank[ry] + rank[rx] + 1 /\ \A x \in Pods(n) : x # ry => high[x] = rank[x]
  BY DEF Raised
<1>5. high \in [Pods(n) -> Nat]
  <2>1. rank[ry] + rank[rx] + 1 \in Nat
    OBVIOUS
  <2> QED BY <2>1 DEF Raised
<1> HIDE DEF g, M, high
<1>6. \A x \in Pods(n) : rank[x] \in Nat /\ high[x] \in Nat /\ rank[x] <= high[x]
  BY <1>4, <1>5
<1>7. f[rx] = rx /\ f[ry] = ry /\ g[ry] = ry /\ rank[rx] < high[ry] /\ high[rx] = rank[rx]
  BY <1>1, <1>4, <1>6 DEF Rooted
<1>8. ASSUME NEW x \in Pods(n)
      PROVE  /\ g[x] \in Pods(n) /\ M[x] \in Pods(n) /\ high[x] \in Nat
             /\ M[g[x]] = M[x] /\ g[M[x]] = M[x]
             /\ g[x] = x => M[x] = x
             /\ g[x] # x => high[x] < high[g[x]] /\ high[x] < high[M[x]]
  <2>1. /\ f[x] \in Pods(n) /\ L[x] \in Pods(n) /\ L[f[x]] = L[x] /\ f[L[x]] = L[x]
        /\ f[x] = x => L[x] = x
        /\ f[x] # x => rank[x] < rank[f[x]] /\ rank[x] < rank[L[x]]
    BY DEF Rooted
  <2>2. CASE x = rx
    BY <1>1, <1>2, <1>6, <1>7, <2>2
  <2>3. CASE x # rx /\ L[x] = rx
    <3>1. g[x] = f[x] /\ M[x] = ry /\ M[f[x]] = ry /\ f[x] # x
      BY <1>1, <1>2, <2>1, <2>3
    <3>2. x # ry
      BY <2>3
    <3>3. high[x] = rank[x] /\ rank[x] < rank[f[x]] /\ rank[x] < rank[rx]
      BY <1>4, <2>1, <2>3, <3>1, <3>2
    <3>4. rank[f[x]] <= high[f[x]] /\ high[f[x]] \in Nat /\ rank[f[x]] \in Nat
      BY <1>6, <2>1
    <3>5. high[x] < high[f[x]] /\ high[x] < high[ry]
      BY <1>6, <1>7, <3>3, <3>4
    <3> QED BY <1>6, <1>7, <2>1, <3>1, <3>5
  <2>4. CASE x # rx /\ L[x] # rx
    <3>1. g[x] = f[x] /\ M[x] = L[x] /\ M[f[x]] = L[x] /\ g[L[x]] = L[x]
      BY <1>1, <1>2, <2>1, <2>4
    <3>2. ASSUME f[x] # x PROVE high[x] < high[f[x]] /\ high[x] < high[L[x]]
      <4>1. x # ry
        BY <1>7, <3>2
      <4>2. high[x] = rank[x] /\ rank[x] < rank[f[x]] /\ rank[x] < rank[L[x]]
        BY <1>4, <2>1, <3>2, <4>1
      <4>3. /\ rank[f[x]] <= high[f[x]] /\ high[f[x]] \in Nat /\ rank[f[x]] \in Nat
            /\ rank[L[x]] <= high[L[x]] /\ high[L[x]] \in Nat /\ rank[L[x]] \in Nat
        BY <1>6, <2>1
      <4> QED BY <1>6, <4>2, <4>3
    <3> QED BY <1>6, <2>1, <3>1, <3>2
  <2> QED BY <2>2, <2>3, <2>4
<1> QED BY <1>3, <1>5, <1>8 DEF Rooted, g, M, high

\* ... which joins their components.
LEMMA LinkJoined ==
    ASSUME NEW c, NEW d, NEW L \in [Pods(c.n) -> Pods(c.n)], Joined(c, L),
           c.want \in SUBSET Pairs(c.n), c.pc = "link", c.rx # c.ret,
           c.rx \in Pods(c.n), c.ret \in Pods(c.n),
           d.n = c.n, d.want = c.want, d.left = c.left, d.pc # "link"
    PROVE  Joined(d, Joins(L, c.rx, c.ret))
<1> DEFINE M == Joins(L, c.rx, c.ret)
           Comp(x) == Component(c.n, c.want, x)
<1>1. \A x \in Pods(c.n) : M[x] = IF L[x] = c.rx THEN c.ret ELSE L[x]
  BY DEF Joins
<1> HIDE DEF M
<1>2. PICK e \in c.want : L[e[1]] = c.rx /\ L[e[2]] = c.ret
  BY DEF Joined
<1>3. e[1] \in Pods(c.n) /\ e[2] \in Pods(c.n)
  BY DEF Pairs
<1>4. c.rx \in Comp(e[1]) /\ c.ret \in Comp(e[2])
  BY <1>2, <1>3 DEF Joined
<1>5. e[2] \in Comp(e[1]) /\ e[1] \in Comp(c.rx)
  BY <1>3, <1>4, RelatedComponent, SameComponent
<1>6. c.ret \in Comp(c.rx)
  <2>1. c.ret \in Comp(e[1])
    BY <1>3, <1>4, <1>5, SharedComponent
  <2> QED BY <1>3, <1>5, <2>1, SharedComponent
<1>7. ASSUME NEW x \in Pods(c.n) PROVE M[x] \in Comp(x)
  <2>1. L[x] \in Comp(x)
    BY DEF Joined
  <2>2. CASE L[x] = c.rx
    <3>1. c.ret \in Comp(x)
      BY <1>6, <2>1, <2>2, SharedComponent
    <3> QED BY <1>1, <2>2, <3>1
  <2>3. CASE L[x] # c.rx
    BY <1>1, <2>1, <2>3
  <2> QED BY <2>2, <2>3
<1>8. ASSUME NEW p \in c.want \ c.left PROVE M[p[1]] = M[p[2]]
  <2>1. p[1] \in Pods(c.n) /\ p[2] \in Pods(c.n)
    BY DEF Pairs
  <2>2. L[p[1]] = L[p[2]] \/ (L[p[1]] = c.rx /\ L[p[2]] = c.ret)
    BY DEF Joined
  <2> QED BY <1>1, <2>1, <2>2
<1>9. d.left \subseteq d.want
  BY DEF Joined
<1> QED BY <1>7, <1>8, <1>9 DEF Joined, M

\* A find that starts
LEMMA StartClimbs ==
    ASSUME NEW d, NEW f, NEW L, NEW rank, NEW x \in Pods(d.n), d.pc = "find", d.st = <<x>>,
           d.use = "x" => x = First(d.left)[1],
           d.use = "y" => x = First(d.left)[2] /\ d.rx = L[First(d.left)[1]],
           d.use = "group" => x = Len(d.root)
    PROVE  Climbs(d, f, L, rank)
<1>1. Len(d.st) = 1 /\ d.st[1] = x
  OBVIOUS
<1>2. \A k \in 1 .. Len(d.st) : k = 1
  BY <1>1
<1> QED BY <1>1, <1>2 DEF Climbs

LEMMA NextClimbs ==
    ASSUME NEW d, NEW f, NEW L, NEW rank, d.pc = "find", d.n \in Nat \ {0},
           d.left \in SUBSET Pairs(d.n), d.root = <<>>,
           d.left = {} => d.st = << 0 >> /\ d.use = "group",
           d.left # {} => d.st = <<First(d.left)[1]>> /\ d.use = "x"
    PROVE  Climbs(d, f, L, rank) /\ Knows(d, L)
<1>1. Len(d.root) = 0
  OBVIOUS
<1>2. Knows(d, L)
  BY <1>1 DEF Knows
<1>3. CASE d.left = {}
  <2>1. 0 \in Pods(d.n)
    BY DEF Pods
  <2> QED BY <1>1, <1>2, <1>3, <2>1, StartClimbs
<1>4. CASE d.left # {}
  <2>1. First(d.left)[1] \in Pods(d.n)
    BY <1>4, FirstFacts, PairFacts
  <2> QED BY <1>2, <1>4, <2>1, StartClimbs
<1> QED BY <1>3, <1>4

\* What is known of a call that is alone and has set its elements
LEMMA ForestFacts ==
    ASSUME NEW c, NEW f, Forest(c, f), c.alone, c.pc \in InFa \ {"init"}
    PROVE  \E L \in [Pods(c.n) -> Pods(c.n)], rank \in [Pods(c.n) -> Nat] :
              /\ Rooted(f, c.n, L, rank) /\ Climbs(c, f, L, rank) /\ Knows(c, L)
              /\ ~c.torn => Joined(c, L)
BY DEF Forest

LEMMA IsForest ==
    ASSUME NEW c, NEW f, NEW n, n = c.n, c.pc # "init",
           NEW L \in [Pods(n) -> Pods(n)], NEW rank \in [Pods(n) -> Nat],
           Rooted(f, n, L, rank), Climbs(c, f, L, rank), Knows(c, L), ~c.torn => Joined(c, L)
    PROVE  Forest(c, f)
BY DEF Forest

\* The request of a call whose elements are set
LEMMA FaCallFacts ==
    ASSUME TypeOK, NEW s \in Slot, NEW c, c = call[s], c.pc \in InFa \ {"init"}
    PROVE  /\ c.n \in Nat \ {0} /\ c.n < FaSize /\ Pods(c.n) \subseteq Index
           /\ c.left \in SUBSET Pairs(c.n) /\ c.want \in SUBSET Pairs(c.n)
<1>1. CallOK(c)
  BY DEF TypeOK
<1>2. c.n \in Nat \ {0} /\ c.n < FaSize
  BY <1>1, SizeFacts DEF CallOK, InFa
<1>3. Pods(c.n) \subseteq Index
  BY <1>2, SizeFacts DEF Pods, Index
<1> QED BY <1>1, <1>2, <1>3 DEF CallOK

\* The frames of find
LEMMA ClimbFacts ==
    ASSUME TypeOK, NEW s \in Slot, NEW c, c = call[s], InFind(c),
           NEW L, NEW rank, Rooted(fa, c.n, L, rank), Climbs(c, fa, L, rank)
    PROVE  /\ Len(c.st) \in Nat \ {0} /\ c.st \in Seq(Index)
           /\ Top(c) = c.st[Len(c.st)] /\ Top(c) \in Pods(c.n) /\ c.st[1] \in Pods(c.n)
           /\ L[Top(c)] = L[c.st[1]]
<1>1. CallOK(c)
  BY DEF TypeOK
<1>2. Len(c.st) \in Nat \ {0} /\ c.st \in Seq(Index)
  BY <1>1, TopFacts
<1>3. Len(c.st) \in 1 .. Len(c.st) /\ 1 \in 1 .. Len(c.st)
  BY <1>2
<1> QED BY <1>2, <1>3 DEF Top, Climbs

\* The pod that fa has for the last of them is another one.
LEMMA HigherFacts ==
    ASSUME TypeOK, NEW s \in Slot, NEW c, c = call[s], InFind(c),
           NEW L, NEW rank, Rooted(fa, c.n, L, rank), Climbs(c, fa, L, rank),
           NEW y, y = fa[Top(c)], y # Top(c)
    PROVE  /\ y \in Pods(c.n) /\ L[y] = L[c.st[1]]
           /\ \A j \in 1 .. Len(c.st) : rank[c.st[j]] < rank[y]
<1> DEFINE m == Len(c.st)
<1>1. /\ m \in Nat \ {0} /\ Top(c) = c.st[m] /\ Top(c) \in Pods(c.n)
      /\ L[Top(c)] = L[c.st[1]]
  BY ClimbFacts
<1>2. y \in Pods(c.n) /\ L[y] = L[c.st[1]] /\ rank[c.st[m]] < rank[y]
  BY <1>1 DEF Rooted
<1>3. ASSUME NEW j \in 1 .. m, j # m PROVE rank[c.st[j]] < rank[c.st[m]]
  <2>1. j < m /\ m \in 1 .. m
    BY <1>1, <1>3
  <2> QED BY <2>1 DEF Climbs
<1>4. \A j \in 1 .. m : rank[c.st[j]] \in Nat
  BY DEF Climbs, Rooted
<1>5. ASSUME NEW j \in 1 .. m PROVE rank[c.st[j]] < rank[y]
  <2>1. rank[c.st[j]] \in Nat /\ rank[c.st[m]] \in Nat /\ rank[y] \in Nat
    <3>1. m \in 1 .. m
      BY <1>1
    <3> QED BY <1>2, <1>4, <3>1 DEF Rooted
  <2>2. CASE j = m
    BY <1>2, <2>2
  <2>3. CASE j # m
    BY <1>2, <1>3, <2>1, <2>3
  <2> QED BY <2>2, <2>3
<1> QED BY <1>2, <1>5

\* Once its elements are set every pod is the root of its own tree.
LEMMA InitForest ==
    ASSUME TypeOK, NEW s \in Slot, init_unionFindSet(s), NEW c, c = call[s],
           NEW d, d = call'[s], d.alone, Forest(c, fa), ReadsReport(c, report, todo)
    PROVE  Forest(d, fa')
<1>1. /\ c.pc = "init" /\ c.alone /\ d.n = c.n /\ d.torn = c.torn /\ d.want = c.want
      /\ c.i \in 0 .. c.n /\ c.n \in Sizes /\ d.root = c.root /\ c.root = <<>>
      /\ c.i \in Index /\ fa' = [fa EXCEPT ![c.i] = c.i]
      /\ c.i < c.n => d.pc = "init" /\ d.i = c.i + 1 /\ d.aff = c.aff
      /\ ~(c.i < c.n) => /\ d.pc = "find" /\ d.left = c.aff
                         /\ d.left = {} => d.st = <<0>> /\ d.use = "group"
                         /\ d.left # {} => d.st = <<First(d.left)[1]>> /\ d.use = "x"
  <2>1. c.pc = "init" /\ c.alone /\ d.n = c.n /\ d.torn = c.torn /\ d.want = c.want
    BY InitFields
  <2>2. c.i \in 0 .. c.n /\ c.n \in Sizes /\ d.root = c.root /\ c.root = <<>>
    BY InitFields
  <2>3. c.i \in Index /\ fa' = [fa EXCEPT ![c.i] = c.i]
    BY InitFields
  <2>4. c.i < c.n => d.pc = "init" /\ d.i = c.i + 1 /\ d.aff = c.aff
    BY InitFields
  <2>5. ~(c.i < c.n) => d.pc = "find" /\ d.left = c.aff
    BY InitFields
  <2>6. ~(c.i < c.n) => OnPair(d)
    BY InitFields
  <2> QED BY <2>1, <2>2, <2>3, <2>4, <2>5, <2>6 DEF OnPair
<1>2. /\ c.n \in Nat \ {0} /\ c.aff \in SUBSET Pairs(c.n) /\ c.want \in SUBSET Pairs(c.n)
      /\ fa \in [Index -> Index]
  <2>1. CallOK(c) /\ fa \in [Index -> Index]
    BY DEF TypeOK
  <2>2. c.aff \in SUBSET Pairs(c.n) /\ c.want \in SUBSET Pairs(c.n)
    BY <2>1 DEF CallOK
  <2> QED BY <1>1, <2>1, <2>2, SizeFacts
<1>3. \A x \in 0 .. c.i : fa'[x] = x
  <2>1. \A x \in 0 .. c.i - 1 : fa[x] = x
    BY <1>1 DEF Forest, InFa
  <2>2. \A x \in 0 .. c.i : x = c.i \/ x \in 0 .. c.i - 1
    BY <1>1, <1>2
  <2>3. \A x \in 0 .. c.i : x \in Index
    BY <1>1, SizeFacts DEF Index
  <2> QED BY <1>1, <1>2, <2>1, <2>2, <2>3
<1>4. CASE c.i < c.n
  <2>1. d.pc = "init" /\ d.i - 1 = c.i
    BY <1>1, <1>4
  <2> QED BY <1>3, <2>1 DEF Forest
<1>5. CASE ~(c.i < c.n)
  <2> DEFINE n == c.n
             L == [x \in Pods(n) |-> x]
             rank == [x \in Pods(n) |-> 0]
  <2>1. /\ d.n = n /\ d.pc = "find" /\ d.left = c.aff /\ d.root = <<>>
        /\ d.left = {} => d.st = <<0>> /\ d.use = "group"
        /\ d.left # {} => d.st = <<First(d.left)[1]>> /\ d.use = "x"
    BY <1>1, <1>5
  <2>2. L \in [Pods(n) -> Pods(n)] /\ rank \in [Pods(n) -> Nat] /\ \A x \in Pods(n) : L[x] = x
    OBVIOUS
  <2>3. \A x \in Pods(n) : fa'[x] = x
    <3>1. \A x \in Pods(n) : x \in 0 .. c.i
      BY <1>1, <1>2, <1>5 DEF Pods
    <3> QED BY <1>3, <3>1
  <2>4. \A x \in Pods(n) : rank[x] = 0
    OBVIOUS
  <2> HIDE DEF L, rank
  <2>5. Rooted(fa', n, L, rank)
    BY <2>2, <2>3, <2>4 DEF Rooted
  <2>6. Climbs(d, fa', L, rank) /\ Knows(d, L)
    BY <1>2, <2>1, NextClimbs
  <2>7. ASSUME ~d.torn PROVE Joined(d, L)
    <3>1. d.left = d.want
      BY <1>1, <2>1, <2>7 DEF ReadsReport
    <3>2. \A x \in Pods(n) : L[x] \in Component(n, d.want, x)
      BY <2>2, OwnComponent
    <3> QED BY <2>1, <3>1, <3>2 DEF Joined
  <2> QED BY <2>1, <2>2, <2>5, <2>6, <2>7, IsForest
<1> QED BY <1>4, <1>5

\* Going up a link leads on to the root, or the root is reached.
LEMMA CompareForest ==
    ASSUME TypeOK, NEW s \in Slot, Compare(s), NEW c, c = call[s],
           NEW d, d = call'[s], d.alone, Forest(c, fa)
    PROVE  Forest(d, fa')
<1>1. /\ c.pc = "find" /\ fa' = fa
      /\ c.alone /\ d.n = c.n /\ d.torn = c.torn /\ d.want = c.want /\ d.left = c.left
      /\ d.rx = c.rx /\ d.use = c.use /\ d.root = c.root
      /\ fa[Top(c)] = Top(c) => d.pc = "back" /\ d.st = c.st
      /\ fa[Top(c)] # Top(c) => d.pc = "find" /\ d.st = Append(c.st, fa[Top(c)])
  BY CompareFields
<1>2. InFind(c) /\ c.pc \in InFa \ {"init"} /\ d.pc # "init" /\ d.pc \notin {"link", "group"}
  BY <1>1 DEF InFind, InFa
<1>3. PICK L \in [Pods(c.n) -> Pods(c.n)], rank \in [Pods(c.n) -> Nat] :
         /\ Rooted(fa, c.n, L, rank) /\ Climbs(c, fa, L, rank) /\ Knows(c, L)
         /\ ~c.torn => Joined(c, L)
  BY <1>1, <1>2, ForestFacts
<1>4. /\ Len(c.st) \in Nat \ {0} /\ c.st \in Seq(Index)
      /\ Top(c) = c.st[Len(c.st)] /\ Top(c) \in Pods(c.n) /\ c.st[1] \in Pods(c.n)
      /\ L[Top(c)] = L[c.st[1]]
  BY <1>2, <1>3, ClimbFacts
<1>5. Knows(d, L) /\ (~d.torn => Joined(d, L))
  BY <1>1, <1>2, <1>3 DEF Knows, Joined
<1> DEFINE m == Len(c.st)
<1>6. /\ \A k \in 1 .. m : c.st[k] \in Pods(c.n) /\ L[c.st[k]] = L[c.st[1]]
      /\ \A j, k \in 1 .. m : j < k => rank[c.st[j]] < rank[c.st[k]]
      /\ c.use = "x" => c.st[1] = First(c.left)[1]
      /\ c.use = "y" => c.st[1] = First(c.left)[2] /\ c.rx = L[First(c.left)[1]]
      /\ c.use = "group" => c.st[1] = Len(c.root)
  BY <1>2, <1>3 DEF Climbs
<1>7. CASE fa[Top(c)] = Top(c)
  <2>1. fa[Top(c)] = L[c.st[1]]
    BY <1>3, <1>4, <1>7 DEF Rooted
  <2>2. Top(d) = Top(c)
    BY <1>1, <1>7 DEF Top
  <2>3. Climbs(d, fa, L, rank)
    <3>1. d.st = c.st /\ d.pc = "back" /\ fa[Top(d)] = L[d.st[1]]
      BY <1>1, <1>7, <2>1, <2>2
    <3> QED BY <1>1, <1>6, <3>1 DEF Climbs
  <2> QED BY <1>1, <1>2, <1>3, <1>5, <2>3, IsForest
<1>8. CASE fa[Top(c)] # Top(c)
  <2> DEFINE y == fa[Top(c)]
  <2>1. /\ y \in Pods(c.n) /\ L[y] = L[c.st[1]]
        /\ \A j \in 1 .. m : rank[c.st[j]] < rank[y]
    BY <1>2, <1>3, <1>8, HigherFacts
  <2>2. y \in Index
    BY <1>1, <1>2, <2>1, FaCallFacts
  <2>3. d.st = Append(c.st, y) /\ d.pc = "find"
    BY <1>1, <1>8
  <2> HIDE DEF y
  <2>4. Len(d.st) = m + 1 /\ d.st[m + 1] = y /\ \A k \in 1 .. m : d.st[k] = c.st[k]
    BY <1>4, <2>2, <2>3, AppendProperties
  <2> HIDE DEF m
  <2>5. m = Len(c.st) /\ m \in Nat \ {0}
    BY <1>4 DEF m
  <2>6. ASSUME NEW k \in 1 .. m + 1, k # m + 1 PROVE k \in 1 .. m
    BY <2>5, <2>6
  <2>7. d.st[1] = c.st[1]
    BY <2>4, <2>5
  <2>8. \A k \in 1 .. m + 1 : d.st[k] \in Pods(d.n) /\ L[d.st[k]] = L[d.st[1]]
    <3>1. \A k \in 1 .. m : d.st[k] \in Pods(d.n) /\ L[d.st[k]] = L[d.st[1]]
      BY <1>1, <1>6, <2>4, <2>7
    <3> QED BY <1>1, <2>1, <2>4, <2>6, <2>7, <3>1
  <2>9. ASSUME NEW j \in 1 .. m + 1, NEW k \in 1 .. m + 1, j < k
        PROVE  rank[d.st[j]] < rank[d.st[k]]
    <3>1. j \in 1 .. m
      BY <2>5, <2>9
    <3>2. CASE k # m + 1
      <4>1. k \in 1 .. m
        BY <2>6, <3>2
      <4> QED BY <1>6, <2>4, <2>9, <3>1, <4>1
    <3>3. CASE k = m + 1
      BY <2>1, <2>4, <3>1, <3>3
    <3> QED BY <3>2, <3>3
  <2>10. Climbs(d, fa, L, rank)
    <3>1. \A k \in 1 .. Len(d.st) : d.st[k] \in Pods(d.n) /\ L[d.st[k]] = L[d.st[1]]
      BY <2>4, <2>8
    <3>2. \A j, k \in 1 .. Len(d.st) : j < k => rank[d.st[j]] < rank[d.st[k]]
      BY <2>4, <2>9
    <3>3. d.pc = "find" /\ d.left = c.left /\ d.use = c.use /\ d.rx = c.rx /\ d.root = c.root
      BY <1>1, <2>3
    <3> QED BY <1>6, <2>7, <3>1, <3>2, <3>3 DEF Climbs
  <2> QED BY <1>1, <1>2, <1>3, <1>5, <2>10, IsForest
<1> QED BY <1>7, <1>8

\* find(fa[x]) returns to fa[x] = find(fa[x]).
LEMMA FrameForest ==
    ASSUME TypeOK, NEW s \in Slot, Return(s), NEW c, c = call[s],
           NEW d, d = call'[s], d.alone, Forest(c, fa), Len(c.st) # 1
    PROVE  Forest(d, fa')
<1>1. /\ c.pc = "back" /\ fa' = fa
      /\ c.alone /\ d.n = c.n /\ d.torn = c.torn /\ d.want = c.want
      /\ d.left = c.left /\ d.rx = c.rx /\ d.use = c.use /\ d.root = c.root
      /\ d.pc = "set" /\ d.ret = fa[Top(c)]
      /\ d.st = SubSeq(c.st, 1, Len(c.st) - 1)
  BY ReturnFields
<1>2. InFind(c) /\ c.pc \in InFa \ {"init"}
  BY <1>1 DEF InFind, InFa
<1>3. PICK L \in [Pods(c.n) -> Pods(c.n)], rank \in [Pods(c.n) -> Nat] :
         /\ Rooted(fa, c.n, L, rank) /\ Climbs(c, fa, L, rank) /\ Knows(c, L)
         /\ ~c.torn => Joined(c, L)
  BY <1>1, <1>2, ForestFacts
<1>4. Len(c.st) \in Nat \ {0} /\ c.st \in Seq(Index)
  BY <1>2, <1>3, ClimbFacts
<1>5. /\ Len(d.st) = Len(c.st) - 1 /\ Len(d.st) \in Nat \ {0}
      /\ \A k \in 1 .. Len(d.st) : k \in 1 .. Len(c.st) /\ d.st[k] = c.st[k]
  <2> DEFINE m == Len(c.st)
             q == SubSeq(c.st, 1, m - 1)
  <2>1. m \in Nat \ {0} /\ m - 1 \in Nat \ {0} /\ d.st = q /\ c.st \in Seq(Index)
    BY <1>1, <1>4
  <2>2. Len(q) = m - 1 /\ \A k \in 1 .. m - 1 : q[k] = c.st[k]
    BY <2>1
  <2>3. \A k \in 1 .. m - 1 : k \in 1 .. m
    BY <2>1
  <2> HIDE DEF m, q
  <2> QED BY <2>1, <2>2, <2>3 DEF m
<1>6. d.st[1] = c.st[1]
  <2>1. \A m \in Nat \ {0} : 1 \in 1 .. m
    OBVIOUS
  <2> QED BY <1>5, <2>1
<1>7. Climbs(d, fa, L, rank)
  <2>1. /\ \A k \in 1 .. Len(c.st) : c.st[k] \in Pods(c.n) /\ L[c.st[k]] = L[c.st[1]]
        /\ \A j, k \in 1 .. Len(c.st) : j < k => rank[c.st[j]] < rank[c.st[k]]
        /\ fa[Top(c)] = L[c.st[1]]
        /\ c.use = "x" => c.st[1] = First(c.left)[1]
        /\ c.use = "y" => c.st[1] = First(c.left)[2] /\ c.rx = L[First(c.left)[1]]
        /\ c.use = "group" => c.st[1] = Len(c.root)
    <3>1. c.pc = "back" /\ InFind(c) /\ Climbs(c, fa, L, rank)
      BY <1>1, <1>2, <1>3
    <3> QED BY <3>1 DEF Climbs
  <2>2. \A k \in 1 .. Len(d.st) : d.st[k] \in Pods(d.n) /\ L[d.st[k]] = L[d.st[1]]
    BY <1>1, <1>5, <1>6, <2>1
  <2>3. ASSUME NEW j \in 1 .. Len(d.st), NEW k \in 1 .. Len(d.st), j < k
        PROVE  rank[d.st[j]] < rank[d.st[k]]
    <3>1. /\ j \in 1 .. Len(c.st) /\ d.st[j] = c.st[j]
          /\ k \in 1 .. Len(c.st) /\ d.st[k] = c.st[k]
      BY <1>5
    <3> QED BY <2>1, <2>3, <3>1
  <2>4. d.pc = "set" /\ d.ret = L[d.st[1]]
    BY <1>1, <1>6, <2>1
  <2>5. /\ d.use = "x" => d.st[1] = First(d.left)[1]
        /\ d.use = "y" => d.st[1] = First(d.left)[2] /\ d.rx = L[First(d.left)[1]]
        /\ d.use = "group" => d.st[1] = Len(d.root)
    BY <1>1, <1>6, <2>1
  <2> QED BY <2>2, <2>3, <2>4, <2>5 DEF Climbs
<1>8. Knows(d, L)
  BY <1>1, <1>2, <1>3 DEF Knows, InFa
<1>9. ~d.torn => Joined(d, L)
  BY <1>1, <1>3 DEF Joined
<1> QED BY <1>1, <1>3, <1>9, <1>7, <1>8, IsForest

\* A pair whose pods have one root is done.
LEMMA PairJoined ==
    ASSUME NEW c, NEW d, NEW L, Joined(c, L), c.pc # "link",
           d.n = c.n, d.want = c.want, d.left = c.left \ {First(c.left)},
           LET p == First(c.left)
           IN IF d.pc = "link" THEN p \in c.want /\ L[p[1]] = d.rx /\ L[p[2]] = d.ret
                               ELSE L[p[1]] = L[p[2]]
    PROVE  Joined(d, L)
<1> DEFINE p == First(c.left)
<1>1. \A q \in d.want \ d.left : q \in c.want \ c.left \/ q = p
  OBVIOUS
<1> HIDE DEF p
<1>2. \A q \in c.want \ c.left : L[q[1]] = L[q[2]]
  BY DEF Joined
<1>3. \A q \in d.want \ d.left :
         L[q[1]] = L[q[2]] \/ (d.pc = "link" /\ L[q[1]] = d.rx /\ L[q[2]] = d.ret)
  <2>1. L[p[1]] = L[p[2]] \/ (d.pc = "link" /\ L[p[1]] = d.rx /\ L[p[2]] = d.ret)
    BY DEF p
  <2> QED BY <1>1, <1>2, <2>1
<1>4. d.pc = "link" => \E q \in d.want : L[q[1]] = d.rx /\ L[q[2]] = d.ret
  BY DEF p
<1> QED BY <1>3, <1>4 DEF Joined

\* find(x) returns: to join, or to the grouping.
LEMMA FoundForest ==
    ASSUME TypeOK, NEW s \in Slot, Return(s), NEW c, c = call[s],
           NEW d, d = call'[s], d.alone, Forest(c, fa), Len(c.st) = 1
    PROVE  Forest(d, fa')
<1> DEFINE r == fa[Top(c)]
           rest == c.left \ {First(c.left)}
           more == Append(c.root, r)
<1>1. c.pc = "back" /\ fa' = fa /\ DOMAIN c = DOMAIN Blank /\ d = Found(c, r)
  BY ReturnFields
<1>2. InFind(c) /\ c.pc \in InFa \ {"init"}
  BY <1>1 DEF InFind, InFa
<1>3. /\ c.use \in {"x", "y", "group"} /\ (c.use = "group" <=> c.left = {})
      /\ c.root \in Seq(Index) /\ (c.use # "group" => c.root = <<>>)
      /\ c.use = "group" => Len(c.root) < c.n
  BY <1>1, <1>2 DEF TypeOK, CallOK, InFa, InFind
<1>4. /\ c.n \in Nat \ {0} /\ c.n < FaSize /\ Pods(c.n) \subseteq Index
      /\ c.left \in SUBSET Pairs(c.n) /\ c.want \in SUBSET Pairs(c.n)
  BY <1>2, FaCallFacts
<1>5. c.alone
  <2>1. CASE c.use = "x"
    BY <1>1, <2>1, FoundFirst
  <2>2. CASE c.use = "y" /\ r = c.rx
    <3>1. d = Found(c, c.rx)
      BY <1>1, <2>2
    <3>2. Found(c, c.rx).alone = c.alone
      BY <1>1, <2>2, FoundSame
    <3> QED BY <3>1, <3>2
  <2>3. CASE c.use = "y" /\ r # c.rx
    BY <1>1, <2>3, FoundOther
  <2>4. CASE c.use = "group"
    BY <1>1, <2>4, FoundRoot
  <2> QED BY <1>3, <2>1, <2>2, <2>3, <2>4
<1>6. PICK L \in [Pods(c.n) -> Pods(c.n)], rank \in [Pods(c.n) -> Nat] :
         /\ Rooted(fa, c.n, L, rank) /\ Climbs(c, fa, L, rank) /\ Knows(c, L)
         /\ ~c.torn => Joined(c, L)
  BY <1>2, <1>5, ForestFacts
<1>7. r = L[c.st[1]] /\ c.st[1] \in Pods(c.n) /\ r \in Pods(c.n) /\ L[r] = r
  <2>1. c.st[1] \in Pods(c.n)
    BY <1>2, <1>6, ClimbFacts
  <2> QED BY <1>1, <1>2, <1>6, <2>1, RootFacts DEF Climbs
<1> HIDE DEF r
<1>8. CASE c.use = "x"
  <2>1. /\ d.n = c.n /\ d.torn = c.torn /\ d.want = c.want /\ d.pc = "find" /\ d.use = "y"
        /\ d.left = c.left /\ d.rx = r /\ d.root = c.root /\ d.st = <<First(c.left)[2]>>
    BY <1>1, <1>8, FoundFirst
  <2>2. First(c.left)[2] \in Pods(c.n) /\ c.st[1] = First(c.left)[1]
    BY <1>2, <1>3, <1>4, <1>6, <1>8, FirstFacts, PairFacts DEF Climbs
  <2>3. Climbs(d, fa, L, rank)
    BY <1>7, <2>1, <2>2, StartClimbs
  <2>4. Knows(d, L)
    <3>1. \A j \in 1 .. Len(c.root) : c.root[j] = L[j - 1]
      BY <1>2, <1>6 DEF Knows
    <3> QED BY <2>1, <3>1 DEF Knows
  <2>5. ~d.torn => Joined(d, L)
    BY <1>1, <1>6, <2>1 DEF Joined
  <2> QED BY <1>1, <1>6, <2>1, <2>3, <2>4, <2>5, IsForest
<1>9. CASE c.use = "y"
  <2>1. /\ First(c.left) \in c.left /\ First(c.left)[1] \in Pods(c.n)
        /\ c.root = <<>> /\ rest \in SUBSET Pairs(c.n)
    BY <1>3, <1>4, <1>9, FirstFacts, PairFacts
  <2>2. r = L[First(c.left)[2]] /\ c.rx = L[First(c.left)[1]]
    BY <1>2, <1>6, <1>7, <1>9 DEF Climbs
  <2>3. CASE r = c.rx
    <3>1. /\ d.n = c.n /\ d.torn = c.torn /\ d.want = c.want
          /\ d.pc = "find" /\ d.left = rest /\ d.root = c.root
          /\ rest = {} => d.st = <<0>> /\ d.use = "group"
          /\ rest # {} => d.st = <<First(rest)[1]>> /\ d.use = "x"
      <4>1. d = Found(c, c.rx)
        BY <1>1, <2>3
      <4> DEFINE e == Found(c, c.rx)
      <4>2. /\ e.n = c.n /\ e.torn = c.torn /\ e.want = c.want
            /\ e.pc = "find" /\ e.left = rest /\ e.root = c.root
            /\ rest = {} => e.st = <<0>> /\ e.use = "group"
            /\ rest # {} => e.st = <<First(rest)[1]>> /\ e.use = "x"
        BY <1>1, <1>9, FoundSame
      <4> HIDE DEF e
      <4> QED BY <4>1, <4>2 DEF e
    <3> HIDE DEF rest
    <3>2. Climbs(d, fa, L, rank) /\ Knows(d, L)
      BY <1>4, <2>1, <3>1, NextClimbs
    <3>3. ASSUME ~d.torn PROVE Joined(d, L)
      <4>1. Joined(c, L) /\ c.pc # "link" /\ d.pc # "link"
        BY <1>1, <1>6, <3>1, <3>3
      <4>2. L[First(c.left)[1]] = L[First(c.left)[2]]
        BY <2>2, <2>3
      <4> QED BY <3>1, <4>1, <4>2, PairJoined DEF rest
    <3> QED BY <1>1, <1>6, <3>1, <3>2, <3>3, IsForest
  <2>4. CASE r # c.rx
    <3>1. /\ d.n = c.n /\ d.torn = c.torn /\ d.want = c.want
          /\ d.pc = "link" /\ d.left = rest
          /\ d.rx = c.rx /\ d.ret = r /\ d.root = c.root
      BY <1>1, <1>9, <2>4, FoundOther
    <3>2. Climbs(d, fa, L, rank)
      BY <3>1 DEF Climbs, InFind
    <3>3. Knows(d, L)
      <4>1. c.rx \in Pods(c.n) /\ L[c.rx] = c.rx
        BY <1>6, <2>1, <2>2, RootFacts
      <4>2. Len(d.root) = 0
        BY <2>1, <3>1
      <4> QED BY <1>7, <2>4, <3>1, <4>1, <4>2 DEF Knows
    <3>4. ASSUME ~d.torn PROVE Joined(d, L)
      <4>1. Joined(c, L) /\ c.pc # "link"
        BY <1>1, <1>6, <3>1, <3>4
      <4>2. First(c.left) \in c.want
        BY <2>1, <4>1 DEF Joined
      <4>3. L[First(c.left)[1]] = d.rx /\ L[First(c.left)[2]] = d.ret
        BY <2>2, <3>1
      <4> QED BY <3>1, <4>1, <4>2, <4>3, PairJoined
    <3> QED BY <1>1, <1>6, <3>1, <3>2, <3>3, <3>4, IsForest
  <2> QED BY <2>3, <2>4
<1>10. CASE c.use = "group"
  <2>1. /\ d.n = c.n /\ d.torn = c.torn /\ d.want = c.want
        /\ d.left = c.left /\ d.root = more /\ d.use = "group"
        /\ Len(more) < c.n => d.pc = "find" /\ d.st = <<Len(more)>>
        /\ ~(Len(more) < c.n) => d.pc = "group" /\ d.st = <<>>
    BY <1>1, <1>10, FoundRoot
  <2>2. /\ Len(c.root) \in Nat /\ Len(more) = Len(c.root) + 1 /\ more[Len(c.root) + 1] = r
        /\ \A j \in 1 .. Len(c.root) : more[j] = c.root[j]
    <3>1. r \in Index
      BY <1>4, <1>7
    <3> QED BY <1>3, <3>1, AppendProperties
  <2> HIDE DEF more
  <2>3. r = L[Len(c.root)]
    BY <1>2, <1>6, <1>7, <1>10 DEF Climbs
  <2>4. ASSUME NEW j \in 1 .. Len(d.root) PROVE d.root[j] = L[j - 1]
    <3>1. CASE j = Len(c.root) + 1
      <4>1. j - 1 = Len(c.root)
        BY <2>2, <3>1
      <4> QED BY <2>1, <2>2, <2>3, <3>1, <4>1
    <3>2. CASE j # Len(c.root) + 1
      <4>1. j \in 1 .. Len(c.root)
        BY <2>1, <2>2, <3>2
      <4>2. c.root[j] = L[j - 1]
        BY <1>2, <1>6, <4>1 DEF Knows
      <4> QED BY <2>1, <2>2, <4>1, <4>2
    <3> QED BY <3>1, <3>2
  <2>5. Knows(d, L)
    BY <1>3, <1>10, <2>1, <2>4 DEF Knows
  <2>6. ~d.torn => Joined(d, L)
    BY <1>1, <1>6, <2>1 DEF Joined
  <2>7. Climbs(d, fa, L, rank)
    <3>1. CASE Len(more) < c.n
      <4>1. Len(more) \in Pods(d.n)
        BY <1>4, <2>1, <2>2, <3>1 DEF Pods
      <4> QED BY <2>1, <3>1, <4>1, StartClimbs
    <3>2. CASE ~(Len(more) < c.n)
      BY <2>1, <3>2 DEF Climbs, InFind
    <3> QED BY <3>1, <3>2
  <2>8. d.pc # "init"
    BY <2>1
  <2> QED BY <1>1, <1>6, <2>1, <2>5, <2>6, <2>7, <2>8, IsForest
<1> QED BY <1>3, <1>8, <1>9, <1>10

\* Paths are compressed to the root that find has returned.
LEMMA CompressForest ==
    ASSUME TypeOK, NEW s \in Slot, Compress(s), NEW c, c = call[s],
           NEW d, d = call'[s], d.alone, Forest(c, fa)
    PROVE  Forest(d, fa')
<1>1. /\ c.pc = "set" /\ fa' = [fa EXCEPT ![Top(c)] = c.ret]
      /\ c.alone /\ d.n = c.n /\ d.torn = c.torn /\ d.want = c.want /\ d.left = c.left
      /\ d.rx = c.rx /\ d.use = c.use /\ d.root = c.root
      /\ d.pc = "back" /\ d.st = c.st
  BY CompressFields
<1>2. InFind(c) /\ c.pc \in InFa \ {"init"}
  BY <1>1 DEF InFind, InFa
<1>3. PICK L \in [Pods(c.n) -> Pods(c.n)], rank \in [Pods(c.n) -> Nat] :
         /\ Rooted(fa, c.n, L, rank) /\ Climbs(c, fa, L, rank) /\ Knows(c, L)
         /\ ~c.torn => Joined(c, L)
  BY <1>1, <1>2, ForestFacts
<1>4. Top(c) \in Pods(c.n) /\ L[Top(c)] = L[c.st[1]]
  BY <1>2, <1>3, ClimbFacts
<1>5. c.ret = L[Top(c)]
  BY <1>1, <1>2, <1>3, <1>4 DEF Climbs
<1>6. Top(c) \in Index /\ fa \in [Index -> Index]
  BY <1>2, <1>4, FaCallFacts DEF TypeOK
<1>7. Rooted(fa', c.n, L, rank)
  <2> DEFINE x == Top(c)
             g == [fa EXCEPT ![x] = L[x]]
  <2>1. fa' = g /\ x \in Pods(c.n) /\ x \in Index
    BY <1>1, <1>4, <1>5, <1>6
  <2> HIDE DEF x
  <2>2. Rooted(g, c.n, L, rank)
    BY <1>3, <1>6, <2>1, CompressRooted
  <2> QED BY <2>1, <2>2
<1>8. fa'[Top(d)] = L[d.st[1]]
  <2>1. Top(d) = Top(c)
    BY <1>1 DEF Top
  <2> QED BY <1>1, <1>4, <1>5, <1>6, <2>1
<1>9. Climbs(d, fa', L, rank)
  <2>1. /\ \A k \in 1 .. Len(c.st) : c.st[k] \in Pods(c.n) /\ L[c.st[k]] = L[c.st[1]]
        /\ \A j, k \in 1 .. Len(c.st) : j < k => rank[c.st[j]] < rank[c.st[k]]
        /\ c.use = "x" => c.st[1] = First(c.left)[1]
        /\ c.use = "y" => c.st[1] = First(c.left)[2] /\ c.rx = L[First(c.left)[1]]
        /\ c.use = "group" => c.st[1] = Len(c.root)
    BY <1>2, <1>3 DEF Climbs
  <2>2. d.n = c.n /\ d.st = c.st /\ d.pc = "back"
    BY <1>1
  <2> QED BY <1>1, <1>8, <2>1, <2>2 DEF Climbs
<1>10. Knows(d, L)
  BY <1>1, <1>2, <1>3 DEF Knows, InFa
<1>11. ~d.torn => Joined(d, L)
  BY <1>1, <1>3 DEF Joined
<1> QED BY <1>1, <1>3, <1>7, <1>9, <1>10, <1>11, IsForest

\* Two trees are joined for the pair that is done.
LEMMA LinkForest ==
    ASSUME TypeOK, NEW s \in Slot, Link(s), NEW c, c = call[s],
           NEW d, d = call'[s], d.alone, Forest(c, fa)
    PROVE  Forest(d, fa')
<1>1. /\ c.pc = "link" /\ fa' = [fa EXCEPT ![c.rx] = c.ret]
      /\ c.alone /\ d.n = c.n /\ d.torn = c.torn /\ d.want = c.want /\ d.left = c.left
      /\ d.root = c.root /\ c.root = <<>> /\ d.pc = "find"
  BY LinkFields
<1>2. /\ d.left = {} => d.st = <<0>> /\ d.use = "group"
      /\ d.left # {} => d.st = <<First(d.left)[1]>> /\ d.use = "x"
  <2>1. d.left = {} => d.st = <<0>> /\ d.use = "group"
    BY LinkFields
  <2>2. d.left # {} => d.st = <<First(d.left)[1]>> /\ d.use = "x"
    BY LinkFields
  <2> QED BY <2>1, <2>2
<1>3. c.pc \in InFa \ {"init"}
  BY <1>1 DEF InFa
<1>4. PICK L \in [Pods(c.n) -> Pods(c.n)], rank \in [Pods(c.n) -> Nat] :
         /\ Rooted(fa, c.n, L, rank) /\ Climbs(c, fa, L, rank) /\ Knows(c, L)
         /\ ~c.torn => Joined(c, L)
  BY <1>1, <1>3, ForestFacts
<1>5. /\ c.rx \in Pods(c.n) /\ L[c.rx] = c.rx /\ c.ret \in Pods(c.n) /\ L[c.ret] = c.ret
      /\ c.rx # c.ret
  BY <1>1, <1>4 DEF Knows
<1>6. /\ c.n \in Nat \ {0} /\ Pods(c.n) \subseteq Index /\ fa \in [Index -> Index]
      /\ c.left \in SUBSET Pairs(c.n) /\ c.want \in SUBSET Pairs(c.n)
  BY <1>3, FaCallFacts DEF TypeOK
<1> DEFINE M == Joins(L, c.rx, c.ret)
           high == Raised(rank, c.rx, c.ret)
<1>7. /\ M \in [Pods(c.n) -> Pods(c.n)] /\ high \in [Pods(c.n) -> Nat]
      /\ Rooted(fa', c.n, M, high)
  <2> DEFINE g == [fa EXCEPT ![c.rx] = c.ret]
  <2>1. /\ fa \in [Index -> Index] /\ Pods(c.n) \subseteq Index
        /\ L \in [Pods(c.n) -> Pods(c.n)] /\ rank \in [Pods(c.n) -> Nat]
        /\ Rooted(fa, c.n, L, rank)
        /\ c.rx \in Pods(c.n) /\ L[c.rx] = c.rx /\ c.ret \in Pods(c.n) /\ L[c.ret] = c.ret
        /\ c.rx # c.ret
    BY <1>4, <1>5, <1>6
  <2>2. M \in [Pods(c.n) -> Pods(c.n)] /\ high \in [Pods(c.n) -> Nat]
    <3>1. M \in [Pods(c.n) -> Pods(c.n)]
      BY <2>1 DEF Joins
    <3>2. rank[c.ret] + rank[c.rx] + 1 \in Nat
      BY <2>1
    <3>3. high \in [Pods(c.n) -> Nat]
      BY <2>1, <3>2 DEF Raised
    <3> QED BY <3>1, <3>3
  <2>3. Rooted(g, c.n, M, high)
    BY <2>1, LinkRooted
  <2> HIDE DEF M, high
  <2>4. fa' = g
    BY <1>1
  <2> QED BY <2>2, <2>3, <2>4
<1>8. ~d.torn => Joined(d, M)
  BY <1>1, <1>4, <1>5, <1>6, LinkJoined
<1> HIDE DEF M, high
<1>9. Climbs(d, fa', M, high) /\ Knows(d, M)
  BY <1>1, <1>2, <1>6, NextClimbs
<1> QED BY <1>1, <1>7, <1>8, <1>9, IsForest

\* A call is in none of the steps on fa, or disturbed, or it has its forest.
LEMMA ForestsKept ==
    ASSUME Forests, fa' = fa,
           \A t \in Slot : \/ call'[t] = call[t]
                           \/ call'[t].pc \notin InFa
                           \/ call'[t].pc = "init" /\ call'[t].i = 0
    PROVE  Forests'
<1> SUFFICES ASSUME NEW t \in Slot PROVE Forest(call'[t], fa)
  BY DEF Forests
<1>1. CASE call'[t] = call[t]
  BY <1>1 DEF Forests
<1>2. CASE call'[t].pc \notin InFa
  BY <1>2 DEF Forest
<1>3. CASE call'[t].pc = "init" /\ call'[t].i = 0
  <2>1. 0 .. call'[t].i - 1 = {}
    BY <1>3
  <2> QED BY <1>3, <2>1 DEF Forest
<1> QED BY <1>1, <1>2, <1>3

LEMMA ForestsStep == TypeOK /\ Reads /\ Forests /\ [Next]_vars => Forests'
<1> SUFFICES ASSUME TypeOK, Reads, Forests, [Next]_vars PROVE Forests'
  OBVIOUS
<1>1. ASSUME NEW how \in {"down", "panic"}, Ends(how) PROVE Forests'
  <2>1. \A t \in Slot : call'[t].pc = "idle"
    BY <1>1, EndsFacts, BlankFacts
  <2> QED BY <2>1 DEF Forests, Forest, InFa
<1>2. CASE UNCHANGED <<fa, call>>
  BY <1>2, ForestsKept
<1>3. CASE Process
  BY <1>1, <1>2, <1>3 DEF Process, Serve, Kill, Signal, Drained
<1>4. ASSUME NEW r \in Reports, phraseData(r) PROVE Forests'
  <2>1. fa' = fa
    BY <1>4 DEF phraseData
  <2>2. ASSUME NEW t \in Slot PROVE call'[t] = call[t] \/ call'[t].pc \notin InFa
    <3>1. CASE call[t].pc \in Reading
      <4>1. call'[t] = [call[t] EXCEPT !.torn = TRUE]
        BY <1>4, <3>1, ReportTypes
      <4>2. call'[t].pc = call[t].pc
        BY <4>1, BlankFacts DEF TypeOK, CallOK
      <4> QED BY <3>1, <4>2 DEF Reading, InFa
    <3>2. CASE call[t].pc \notin Reading
      BY <1>4, <3>2, ReportTypes
    <3> QED BY <3>1, <3>2
  <2> QED BY <2>1, <2>2, ForestsKept
<1>5. CASE WriteField
  BY <1>2, <1>5 DEF WriteField
<1>6. CASE Agent
  <2>1. CASE GetNumaNodeInof \/ CallFails \/ AgentEnds
    BY <1>2, <2>1 DEF GetNumaNodeInof, CallFails, AgentEnds
  <2>2. CASE CpusetOverflow
    BY <1>1, <2>2 DEF CpusetOverflow
  <2>3. ASSUME NEW s \in Slot, NEW n \in Sizes, GetPodAffinity(s, n) PROVE Forests'
    <3>1. /\ fa' = fa /\ \A t \in Slot \ {s} : call'[t] = call[t]
          /\ call'[s].pc \in {"nums", "tids"}
      BY <2>3, NewFields
    <3> QED BY <3>1, ForestsKept DEF InFa
  <2> QED BY <1>6, <2>1, <2>2, <2>3 DEF Agent
<1>7. ASSUME NEW s \in Slot, Handler(s) PROVE Forests'
  <2> DEFINE c == call[s]
             d == call'[s]
  <2>0. ReadsReport(c, report, todo) /\ Forest(c, fa)
    BY DEF Reads, Forests
  <2>1. CASE ReadNums(s)
    <3>1. fa' = fa /\ (\A t \in Slot \ {s} : call'[t] = call[t]) /\ d.pc \notin InFa
      BY <2>1, NumsFields DEF InFa
    <3> QED BY <3>1, ForestsKept
  <2>2. CASE ReadPidA(s)
    <3>1. fa' = fa /\ (\A t \in Slot \ {s} : call'[t] = call[t]) /\ d.pc \notin InFa
      BY <2>2, PidAFields DEF InFa
    <3> QED BY <3>1, ForestsKept
  <2>3. CASE ReadPidB(s)
    <3>1. fa' = fa /\ (\A t \in Slot \ {s} : call'[t] = call[t]) /\ d.pc \notin InFa
      BY <2>3, PidBFields DEF InFa
    <3> QED BY <3>1, ForestsKept
  <2>4. CASE getTidListForPods(s)
    <3>1. /\ fa' = fa /\ (\A t \in Slot \ {s} : call'[t] = call[t])
          /\ d.pc \notin InFa \/ (d.pc = "init" /\ d.i = 0)
      BY <2>4, ThreadTypes DEF InFa
    <3> QED BY <3>1, ForestsKept
  <2>5. CASE calculateGid(s)
    <3>1. /\ fa' = fa /\ (\A t \in Slot \ {s} : call'[t] = call[t])
          /\ d.pc = "init" /\ d.i = 0
      BY <2>5, GroupTypes
    <3> QED BY <3>1, ForestsKept
  <2>6. CASE FaStep(s)
    <3>1. ASSUME NEW t \in Slot \ {s} PROVE Forest(call'[t], fa')
      <4>1. CASE call[t].pc \in InFa
        <5>1. ~call'[t].alone
          BY <2>6, <4>1, FaFacts
        <5> QED BY <5>1 DEF Forest
      <4>2. CASE call[t].pc \notin InFa
        <5>1. call'[t].pc \notin InFa
          BY <2>6, <4>2, FaFacts
        <5> QED BY <5>1 DEF Forest
      <4> QED BY <4>1, <4>2
    <3>2. ASSUME d.alone PROVE Forest(d, fa')
      <4>1. CASE init_unionFindSet(s)
        BY <2>0, <3>2, <4>1, InitForest
      <4>2. CASE Compare(s)
        BY <2>0, <3>2, <4>2, CompareForest
      <4>3. CASE Return(s) /\ Len(c.st) # 1
        BY <2>0, <3>2, <4>3, FrameForest
      <4>4. CASE Return(s) /\ Len(c.st) = 1
        BY <2>0, <3>2, <4>4, FoundForest
      <4>5. CASE Compress(s)
        BY <2>0, <3>2, <4>5, CompressForest
      <4>6. CASE Link(s)
        BY <2>0, <3>2, <4>6, LinkForest
      <4> QED BY <2>6, <4>1, <4>2, <4>3, <4>4, <4>5, <4>6 DEF FaStep
    <3>3. ~d.alone => Forest(d, fa')
      BY DEF Forest
    <3> HIDE DEF d
    <3>4. Forest(d, fa')
      BY <3>2, <3>3
    <3> QED BY <3>1, <3>4 DEF Forests, d
  <2>7. CASE getPodsAffinity(s) \/ Answered(s)
    <3>1. /\ fa' = fa /\ (\A t \in Slot \ {s} : call'[t] = call[t])
          /\ d.pc \notin InFa
      BY <2>7, DoneTypes DEF InFa
    <3> QED BY <3>1, ForestsKept
  <2>8. CASE IndexPanic(s) \/ Overflow(s) \/ DividePanic(s)
    BY <1>1, <2>8, PanicTypes
  <2> QED BY <1>7, <2>1, <2>2, <2>3, <2>4, <2>5, <2>6, <2>7, <2>8 DEF Handler, FaStep
<1>8. CASE UNCHANGED vars
  BY <1>2, <1>8 DEF vars
<1> QED BY <1>3, <1>4, <1>5, <1>6, <1>7, <1>8 DEF Next, Callback

-----------------------------------------------------------------------------
(* The server brings itself down                                           *)

\* A call that is alone goes up from pod to pod, each but once: the stack of find
\* does not overflow.
LEMMA NoOverflow ==
    ASSUME TypeOK, Forests, NEW s \in Slot, Overflow(s)
    PROVE  ~call[s].alone
<1> DEFINE c == call[s]
           y == fa[Top(c)]
           T == Pods(c.n) \ {y}
<1> SUFFICES ASSUME c.alone PROVE FALSE
  OBVIOUS
<1>1. c.pc = "find" /\ y # Top(c) /\ Len(c.st) = MaxDepth
  BY DEF Overflow
<1>2. InFind(c) /\ c.pc \in InFa \ {"init"}
  BY <1>1 DEF InFind, InFa
<1>3. PICK L \in [Pods(c.n) -> Pods(c.n)], rank \in [Pods(c.n) -> Nat] :
         Rooted(fa, c.n, L, rank) /\ Climbs(c, fa, L, rank)
  BY <1>2, ForestFacts DEF Forests
<1>4. y \in Pods(c.n) /\ \A j \in 1 .. Len(c.st) : rank[c.st[j]] < rank[y]
  BY <1>1, <1>2, <1>3, HigherFacts
<1>5. c.n \in Nat \ {0} /\ c.n < FaSize
  BY <1>2, FaCallFacts
<1> DEFINE S == 1 .. MaxDepth
           g == [j \in S |-> c.st[j]]
<1>6. \A j \in S : c.st[j] \in Pods(c.n) /\ rank[c.st[j]] \in Nat /\ rank[y] \in Nat
  BY <1>1, <1>2, <1>3, <1>4 DEF Climbs, Rooted
<1>7. g \in [S -> T]
  <2>1. \A j \in S : rank[c.st[j]] < rank[y]
    BY <1>1, <1>4
  <2>2. \A j \in S : c.st[j] # y
    BY <1>6, <2>1
  <2> QED BY <1>6, <2>2
<1>8. IsFiniteSet(S) /\ Cardinality(S) = MaxDepth
  BY SizeFacts, FS_Interval
<1>9. IsFiniteSet(T) /\ Cardinality(T) = c.n - 1
  <2>1. IsFiniteSet(Pods(c.n)) /\ Cardinality(Pods(c.n)) = c.n
    BY <1>5, PodsFacts
  <2> QED BY <1>4, <2>1, FS_RemoveElement
<1>10. Cardinality(T) < Cardinality(S)
  BY <1>5, <1>8, <1>9, SizeFacts
<1> HIDE DEF g, S, T
<1>11. PICK i \in S, j \in S : i # j /\ g[i] = g[j]
  BY <1>7, <1>8, <1>9, <1>10, FS_PigeonHole
<1>12. /\ i \in 1 .. Len(c.st) /\ j \in 1 .. Len(c.st) /\ c.st[i] = c.st[j]
       /\ i < j \/ j < i
  BY <1>1, <1>11, SizeFacts DEF S, g
<1>13. rank[c.st[i]] < rank[c.st[j]] \/ rank[c.st[j]] < rank[c.st[i]]
  BY <1>1, <1>2, <1>3, <1>12 DEF Climbs
<1> QED BY <1>6, <1>11, <1>12, <1>13 DEF S

\* The conjunct of PanicsOnly that explains a step to "panic"
Explained == \/ agent = "idle" /\ TooWide
             \/ \E s \in Slot : /\ call[s].pc \in InFa
                                /\ call[s].n >= FaSize \/ call[s].stale \/ ~call[s].alone

LEMMA PanicStep ==
    ASSUME TypeOK, NodesKnown, Forests, [Next]_vars, up' = "panic", up # "panic"
    PROVE  Explained
<1>1. CASE CpusetOverflow
  BY <1>1 DEF CpusetOverflow, Explained
<1>2. ASSUME NEW s \in Slot, IndexPanic(s) PROVE Explained
  <2>1. CallOK(call[s]) /\ call[s].pc = "init" /\ call[s].i >= FaSize
    BY <1>2 DEF IndexPanic, TypeOK
  <2>2. call[s].i \in 0 .. call[s].n /\ call[s].n \in Nat
    BY <2>1, SizeFacts DEF CallOK
  <2>3. call[s].n >= FaSize
    BY <2>1, <2>2, SizeFacts
  <2> QED BY <2>1, <2>3 DEF Explained, InFa
<1>3. ASSUME NEW s \in Slot, Overflow(s) PROVE Explained
  BY <1>3, NoOverflow DEF Overflow, Explained, InFa
<1>4. ASSUME NEW s \in Slot, DividePanic(s) PROVE Explained
  <2>1. call[s].pc = "group" /\ numaNums = 0
    BY <1>4 DEF DividePanic
  <2>2. numaNums # NumaCount
    BY <2>1, SizeFacts
  <2>3. call[s].stale
    BY <2>1, <2>2 DEF NodesKnown
  <2> QED BY <2>1, <2>3 DEF Explained, InFa
<1>5. CASE Process
  BY <1>5 DEF Process, Serve, Kill, Signal, Drained, Ends
<1>6. CASE Callback
  BY <1>6 DEF Callback, phraseData, WriteField
<1>7. CASE Agent
  BY <1>1, <1>7 DEF Agent, GetNumaNodeInof, CallFails, AgentEnds, GetPodAffinity
<1>8. ASSUME NEW s \in Slot, Handler(s) PROVE Explained
  <2>1. CASE ReadNums(s) \/ ReadPidA(s) \/ ReadPidB(s)
    BY <2>1 DEF ReadNums, ReadPidA, ReadPidB, Goes
  <2>2. CASE getTidListForPods(s) \/ calculateGid(s) \/ getPodsAffinity(s) \/ Answered(s)
    BY <2>2 DEF getTidListForPods, calculateGid, getPodsAffinity, Answered, Goes
  <2>3. CASE FaStep(s)
    BY <2>3
    DEF FaStep, init_unionFindSet, Compare, Return, Compress, Link, Local
  <2> QED BY <1>2, <1>3, <1>4, <1>8, <2>1, <2>2, <2>3 DEF Handler, FaStep
<1>9. CASE UNCHANGED vars
  BY <1>9 DEF vars
<1> QED BY <1>5, <1>6, <1>7, <1>8, <1>9 DEF Next

\* All that the proofs need of a state
ServerInv == TypeOK /\ NodesKnown /\ Reads /\ Forests

LEMMA InitInv == Init => ServerInv
<1> SUFFICES ASSUME Init PROVE ServerInv
  OBVIOUS
<1>1. TypeOK
  BY InitTypeOK
<1>2. \A s \in Slot : call[s] = Blank
  BY DEF Init
<1>3. NodesKnown
  BY <1>2, BlankFacts DEF NodesKnown, Init
<1>4. Written
  BY DEF Written, Init
<1>5. ReadsReport(Blank, report, todo) /\ Forest(Blank, fa)
  BY BlankFacts DEF ReadsReport, Forest, Blank, InFa
<1> QED BY <1>1, <1>2, <1>3, <1>4, <1>5 DEF ServerInv, Reads, Forests

LEMMA InvStep == ServerInv /\ [Next]_vars => ServerInv'
BY NextTypes, NodesStep, ReadsStep, ForestsStep DEF ServerInv

\* The forest and what has been read of the report, whatever overlaps
THEOREM ServerInvariant == Spec => []ServerInv
<1>1. Init => ServerInv
  BY InitInv
<1>2. ServerInv /\ [Next]_vars => ServerInv'
  BY InvStep
<1> QED BY <1>1, <1>2, PTL DEF Spec

\* PanicsOnly: the handlers bring the server down only for a request with FaSize
\* pods, for a call of an agent that had asked a server that has ended since, when
\* calls overlap, or for the nodes of a machine with too many CPUs.
THEOREM ServerPanicsOnly == Spec => PanicsOnly
<1>1. ServerInv /\ [Next]_vars /\ up' = "panic" /\ up # "panic" => Explained
  BY PanicStep DEF ServerInv
<1>2. ServerInv /\ [Next]_vars =>
         [up' = "panic" /\ up # "panic" =>
            \/ agent = "idle" /\ TooWide
            \/ \E s \in Slot : /\ call[s].pc \in InFa
                               /\ call[s].n >= FaSize \/ call[s].stale \/ ~call[s].alone]_vars
  BY <1>1 DEF Explained
<1> QED BY <1>2, ServerInvariant, PTL DEF Spec, PanicsOnly

-----------------------------------------------------------------------------
(* The NUMA nodes in turn                                                  *)

LEMMA QuotientFacts ==
    ASSUME NEW N \in Nat \ {0}, NEW i \in Nat
    PROVE  \E q \in Int : i = N * q + (i % N)
<1>1. i \div N \in Int /\ i = N * (i \div N) + (i % N)
  OBVIOUS
<1> QED BY <1>1, Zenon

\* The number before i that goes to the node m, if i goes to k, ...
LEMMA TurnDown ==
    ASSUME NEW N \in Nat \ {0}, NEW m \in Nat, NEW k \in Nat, m < k, k < N,
           NEW i \in Nat, i % N = k
    PROVE  i - (k - m) \in Nat /\ (i - (k - m)) % N = m
<1>1. PICK q \in Int : i = N * q + k
  BY QuotientFacts
<1>2. i - (k - m) \in Nat
  BY <1>1
<1>3. i - (k - m) = N * q + m
  BY <1>1
<1>4. (N * q + m) % N = m
  OBVIOUS
<1> QED BY <1>2, <1>3, <1>4

\* ... and the one that goes to k, if i goes to m and is not the first that does
LEMMA TurnUp ==
    ASSUME NEW N \in Nat \ {0}, NEW m \in Nat, NEW k \in Nat, m < k, k < N,
           NEW i \in Nat, i % N = m, i # m
    PROVE  i - N + (k - m) \in Nat /\ (i - N + (k - m)) % N = k
<1>1. PICK q \in Int : i = N * q + m
  BY QuotientFacts
<1>2. i >= N
  BY <1>1
<1>3. i - N + (k - m) = N * (q - 1) + k
  BY <1>1
<1>4. (N * (q - 1) + k) % N = k
  OBVIOUS
<1> QED BY <1>2, <1>3, <1>4

\* A set that another one has room for is not larger.
LEMMA NotLarger ==
    ASSUME NEW S, NEW T, IsFiniteSet(S), IsFiniteSet(T), NEW f \in [S -> T],
           \A x, y \in S : f[x] = f[y] => x = y
    PROVE  Cardinality(S) <= Cardinality(T)
<1>1. Cardinality(S) \in Nat /\ Cardinality(T) \in Nat
  BY FS_CardinalityType
<1>2. ASSUME Cardinality(T) < Cardinality(S) PROVE FALSE
  <2>1. \E x, y \in S : x # y /\ f[x] = f[y]
    BY <1>2, FS_PigeonHole
  <2> QED BY <2>1
<1> QED BY <1>1, <1>2

\* An order of G gives every number to a member of G.
LEMMA OrderFacts ==
    ASSUME NEW G, IsFiniteSet(G), NEW o \in [G -> 0 .. Cardinality(G) - 1],
           \A g, h \in G : o[g] = o[h] => g = h,
           NEW i \in 0 .. Cardinality(G) - 1
    PROVE  \E g \in G : o[g] = i
<1> DEFINE K == Cardinality(G)
           T == (0 .. K - 1) \ {i}
<1>1. K \in Nat
  BY FS_CardinalityType
<1>2. IsFiniteSet(0 .. K - 1) /\ Cardinality(0 .. K - 1) = K
  BY <1>1, FS_Interval
<1>3. IsFiniteSet(T) /\ Cardinality(T) = K - 1
  <2> DEFINE I == 0 .. K - 1
  <2>1. IsFiniteSet(I) /\ Cardinality(I) = K /\ i \in I
    BY <1>2
  <2> HIDE DEF I, K
  <2>2. IsFiniteSet(I \ {i}) /\ Cardinality(I \ {i}) = K - 1
    BY <2>1, FS_RemoveElement
  <2> QED BY <2>2 DEF I
<1> SUFFICES ASSUME \A g \in G : o[g] # i PROVE FALSE
  OBVIOUS
<1>4. o \in [G -> T]
  OBVIOUS
<1> HIDE DEF T
<1>5. Cardinality(T) < Cardinality(G)
  BY <1>1, <1>3
<1>6. PICK g \in G, h \in G : g # h /\ o[g] = o[h]
  BY <1>3, <1>4, <1>5, FS_PigeonHole
<1> QED BY <1>6

\* The members of G that go to the node m
To(G, o, N, m) == {g \in G : o[g] % N = m}

LEMMA TwoNodes ==
    ASSUME NEW N \in Nat \ {0}, NEW G, IsFiniteSet(G),
           NEW o \in [G -> 0 .. Cardinality(G) - 1],
           \A g, h \in G : o[g] = o[h] => g = h,
           NEW m \in Nat, NEW k \in Nat, m < k, k < N
    PROVE  /\ Cardinality(To(G, o, N, k)) <= Cardinality(To(G, o, N, m))
           /\ Cardinality(To(G, o, N, m)) <= Cardinality(To(G, o, N, k)) + 1
<1> DEFINE K == Cardinality(G)
           A == To(G, o, N, m)
           B == To(G, o, N, k)
           At(i) == CHOOSE g \in G : o[g] = i
<1>1. K \in Nat /\ \A g \in G : o[g] \in Nat /\ o[g] < K
  BY FS_CardinalityType
<1>2. ASSUME NEW i \in Nat, i < K PROVE At(i) \in G /\ o[At(i)] = i
  <2>1. i \in 0 .. K - 1
    BY <1>1, <1>2
  <2> QED BY <2>1, OrderFacts
<1>3. A \in SUBSET G /\ B \in SUBSET G
  BY DEF To
<1>4. IsFiniteSet(A) /\ IsFiniteSet(B) /\ Cardinality(A) \in Nat /\ Cardinality(B) \in Nat
  BY <1>3, FS_Subset, FS_CardinalityType
<1> HIDE DEF K, At
<1>5. Cardinality(B) <= Cardinality(A)
  <2> DEFINE f == [g \in B |-> At(o[g] - (k - m))]
  <2>1. ASSUME NEW g \in B
        PROVE  /\ f[g] \in A /\ o[f[g]] = o[g] - (k - m)
    <3>1. g \in G /\ o[g] % N = k /\ o[g] \in Nat /\ o[g] < K
      BY <1>1 DEF To
    <3>2. o[g] - (k - m) \in Nat /\ (o[g] - (k - m)) % N = m
      BY <3>1, TurnDown
    <3>3. o[g] - (k - m) < K
      BY <1>1, <3>1
    <3>4. f[g] \in G /\ o[f[g]] = o[g] - (k - m)
      BY <1>2, <3>2, <3>3
    <3>5. f[g] \in A
      BY <3>2, <3>4 DEF To
    <3> QED BY <3>4, <3>5
  <2>2. ASSUME NEW g \in B, NEW h \in B, f[g] = f[h] PROVE g = h
    <3>1. o[g] - (k - m) = o[h] - (k - m)
      BY <2>1, <2>2
    <3>2. g \in G /\ h \in G /\ o[g] \in Nat /\ o[h] \in Nat
      BY <1>1, <1>3
    <3>3. o[g] = o[h]
      BY <3>1, <3>2
    <3> QED BY <3>2, <3>3
  <2>3. f \in [B -> A]
    BY <2>1
  <2> HIDE DEF f, A, B
  <2> QED BY <1>4, <2>2, <2>3, NotLarger
<1>6. Cardinality(A) <= Cardinality(B) + 1
  <2> DEFINE A1 == A \ {At(m)}
             f == [g \in A1 |-> At(o[g] - N + (k - m))]
  <2>1. ASSUME NEW g \in A1
        PROVE  f[g] \in B /\ o[f[g]] = o[g] - N + (k - m)
    <3>1. g \in G /\ o[g] % N = m /\ o[g] \in Nat /\ o[g] < K
      BY <1>1 DEF To
    <3>2. o[g] # m
      <4> SUFFICES ASSUME o[g] = m PROVE FALSE
        OBVIOUS
      <4>1. o[At(m)] = m /\ At(m) \in G
        BY <1>2, <3>1
      <4> QED BY <3>1, <4>1
    <3>3. o[g] - N + (k - m) \in Nat /\ (o[g] - N + (k - m)) % N = k
      BY <3>1, <3>2, TurnUp
    <3>4. o[g] - N + (k - m) < K
      BY <1>1, <3>1
    <3>5. f[g] \in G /\ o[f[g]] = o[g] - N + (k - m)
      BY <1>2, <3>3, <3>4
    <3>6. f[g] \in B
      BY <3>3, <3>5 DEF To
    <3> QED BY <3>5, <3>6
  <2>2. ASSUME NEW g \in A1, NEW h \in A1, f[g] = f[h] PROVE g = h
    <3>1. o[g] - N + (k - m) = o[h] - N + (k - m)
      BY <2>1, <2>2
    <3>2. g \in G /\ h \in G /\ o[g] \in Nat /\ o[h] \in Nat
      BY <1>1, <1>3
    <3>3. o[g] = o[h]
      BY <3>1, <3>2
    <3> QED BY <3>2, <3>3
  <2>3. f \in [A1 -> B]
    BY <2>1
  <2>4. IsFiniteSet(A1) /\ Cardinality(A1) >= Cardinality(A) - 1
    <3> HIDE DEF A
    <3>1. /\ IsFiniteSet(A1)
          /\ Cardinality(A1) = IF At(m) \in A THEN Cardinality(A) - 1 ELSE Cardinality(A)
      BY <1>4, FS_RemoveElement
    <3> HIDE DEF A1
    <3> QED BY <1>4, <3>1
  <2>5. Cardinality(A1) \in Nat
    BY <2>4, FS_CardinalityType
  <2> HIDE DEF f, A1, A, B
  <2>6. Cardinality(A1) <= Cardinality(B)
    BY <1>4, <2>2, <2>3, <2>4, NotLarger
  <2> QED BY <1>4, <2>4, <2>5, <2>6
<1> QED BY <1>5, <1>6

-----------------------------------------------------------------------------
(* The answer                                                              *)

\* Pods with the same root are a component.
LEMMA GroupComponents ==
    ASSUME TypeOK, Forests, NEW s \in Slot, NEW c, c = call[s], c.pc = "group",
           c.alone, ~c.torn
    PROVE  /\ Groups(c) = {G \in {Component(c.n, c.want, p) : p \in Pods(c.n)} :
                             Cardinality(G) >= 2}
           /\ IsFiniteSet(Groups(c))
<1> DEFINE Tree(r) == {j \in Pods(c.n) : c.root[j + 1] = r}
           Comp(p) == Component(c.n, c.want, p)
<1>1. c.pc \in InFa \ {"init"} /\ Forest(c, fa) /\ CallOK(c)
  BY DEF InFa, Forests, TypeOK
<1>2. /\ c.n \in Nat \ {0} /\ Pods(c.n) \subseteq Index /\ c.want \in SUBSET Pairs(c.n)
      /\ Len(c.root) = c.n
  <2>1. Len(c.root) = c.n
    <3>1. c.pc \in InFa \cup Reading \cup {"tids"}
      BY <1>1
    <3> QED BY <1>1, <3>1 DEF CallOK, InFind
  <2> QED BY <1>1, <2>1, FaCallFacts
<1>3. PICK L \in [Pods(c.n) -> Pods(c.n)], rank \in [Pods(c.n) -> Nat] :
         Rooted(fa, c.n, L, rank) /\ Knows(c, L) /\ Joined(c, L)
  BY <1>1, ForestFacts
<1>4. ASSUME NEW j \in Pods(c.n) PROVE c.root[j + 1] = L[j]
  <2>1. j + 1 \in 1 .. Len(c.root) /\ (j + 1) - 1 = j
    BY <1>2 DEF Pods
  <2>2. c.root[j + 1] = L[(j + 1) - 1]
    BY <1>1, <1>3, <2>1 DEF Knows
  <2> QED BY <2>1, <2>2
<1>5. \A r : Tree(r) = {j \in Pods(c.n) : L[j] = r}
  BY <1>4
<1>6. /\ \A x \in Pods(c.n) : L[x] \in Comp(x)
      /\ \A e \in c.want : L[e[1]] = L[e[2]]
  <2>1. c.left = {}
    BY <1>3 DEF Knows
  <2> QED BY <1>3, <2>1 DEF Joined
<1>7. ASSUME NEW p \in Pods(c.n) PROVE Comp(p) = Tree(L[p])
  <2>1. ASSUME NEW q \in Comp(p) PROVE q \in Tree(L[p])
    <3> DEFINE S == {x \in Pods(c.n) : L[x] = L[p]}
    <3>1. \A e \in c.want : e[1] \in Pods(c.n) /\ e[2] \in Pods(c.n)
      BY <1>2 DEF Pairs
    <3>2. \A e \in c.want : e[1] \in S <=> e[2] \in S
      BY <1>6, <3>1
    <3>3. S \in SUBSET Pods(c.n) /\ p \in S
      OBVIOUS
    <3>4. q \in S
      BY <3>2, <3>3 DEF Component
    <3> QED BY <1>5, <3>4
  <2>2. ASSUME NEW q \in Tree(L[p]) PROVE q \in Comp(p)
    <3>1. q \in Pods(c.n) /\ L[q] = L[p]
      BY <1>5
    <3>2. L[q] \in Comp(q) /\ L[p] \in Comp(p)
      BY <1>6, <3>1
    <3>3. q \in Comp(L[q])
      BY <1>2, <3>1, <3>2, SameComponent
    <3> QED BY <3>1, <3>2, <3>3, SharedComponent
  <2> QED BY <2>1, <2>2
<1>8. Groups(c) = {G \in {Tree(r) : r \in Index} : Cardinality(G) >= 2}
  BY DEF Groups
<1> HIDE DEF Tree, Comp
<1>9. ASSUME NEW r \in Index, Cardinality(Tree(r)) >= 2
      PROVE  \E p \in Pods(c.n) : Tree(r) = Comp(p)
  <2>1. Tree(r) # {}
    <3>1. ~(0 >= 2)
      OBVIOUS
    <3> QED BY <1>9, <3>1, FS_EmptySet
  <2>2. PICK p \in Pods(c.n) : L[p] = r
    BY <1>5, <2>1
  <2> QED BY <1>7, <2>2
<1>10. ASSUME NEW p \in Pods(c.n) PROVE \E r \in Index : Tree(r) = Comp(p)
  BY <1>2, <1>7
<1>11. Groups(c) = {G \in {Comp(p) : p \in Pods(c.n)} : Cardinality(G) >= 2}
  BY <1>8, <1>9, <1>10
<1>12. IsFiniteSet(Groups(c))
  <2>1. IsFiniteSet(SUBSET Pods(c.n))
    BY <1>2, PodsFacts, FS_SUBSET
  <2>2. Groups(c) \in SUBSET (SUBSET Pods(c.n))
    BY <1>8 DEF Tree
  <2> QED BY <2>1, <2>2, FS_Subset
<1> QED BY <1>11, <1>12 DEF Comp

\* What AnswerRight says of a call
Answers(c, nodes) ==
    c.pc = "done" /\ c.alone /\ ~c.torn =>
        LET On(m) == Cardinality({g \in DOMAIN c.answer : c.answer[g] = m})
        IN /\ DOMAIN c.answer = {G \in {Component(c.n, c.want, p) : p \in Pods(c.n)} :
                                   Cardinality(G) >= 2}
           /\ \A m, k \in 0 .. nodes - 1 : On(m) - On(k) \in {-1, 0, 1}

LEMMA AnswerFacts == AnswerRight <=> \A s \in Slot : Answers(call[s], NumaCount)
BY DEF AnswerRight, Answers

\* The groups G are spread over the nodes in the order o.
Spread(G, nodes, answer) ==
    \E o \in [G -> 0 .. Cardinality(G) - 1] :
      /\ \A g, h \in G : o[g] = o[h] => g = h
      /\ answer = [g \in G |-> o[g] % nodes]

\* What a call answers
LEMMA DoneFields ==
    ASSUME TypeOK, NEW s \in Slot, getPodsAffinity(s)
    PROVE  LET c == call[s]
               d == call'[s]
           IN /\ c.pc = "group" /\ d.n = c.n /\ d.torn = c.torn /\ d.alone = c.alone
              /\ d.want = c.want /\ (Groups(c) = {} \/ numaNums # 0)
              /\ Spread(Groups(c), numaNums, d.answer)
<1> DEFINE G == Groups(call[s])
           e(a) == [Blank EXCEPT !.pc = "done", !.n = call[s].n, !.torn = call[s].torn,
                      !.alone = call[s].alone, !.want = call[s].want, !.answer = a]
<1> HIDE DEF G
<1>1. call[s].pc = "group" /\ (G = {} \/ numaNums # 0)
  BY DEF getPodsAffinity, G
<1>2. PICK o \in [G -> 0 .. Cardinality(G) - 1] :
        /\ \A g, h \in G : o[g] = o[h] => g = h
        /\ Goes(s, e([g \in G |-> o[g] % numaNums]))
  BY DEF getPodsAffinity, G
<1>3. ASSUME NEW a
      PROVE  /\ e(a).n = call[s].n /\ e(a).torn = call[s].torn
             /\ e(a).alone = call[s].alone /\ e(a).want = call[s].want /\ e(a).answer = a
  BY DEF Blank
<1> DEFINE ans == [g \in G |-> o[g] % numaNums]
<1> HIDE DEF e
<1>4. Spread(G, numaNums, ans)
  BY <1>2 DEF Spread
<1> HIDE DEF ans
<1>5. call'[s] = e(ans)
  BY <1>2, GoesFacts DEF ans
<1>6. /\ call'[s].n = call[s].n /\ call'[s].torn = call[s].torn
      /\ call'[s].alone = call[s].alone /\ call'[s].want = call[s].want
      /\ call'[s].answer = ans
  BY <1>3, <1>5
<1> QED BY <1>1, <1>4, <1>6 DEF G

\* The answer of a call that is alone
LEMMA AnswerGiven ==
    ASSUME TypeOK, Forests, NEW s \in Slot, getPodsAffinity(s)
    PROVE  Answers(call'[s], NumaCount)
<1> DEFINE c == call[s]
           d == call'[s]
           G == Groups(c)
           N == NumaCount
<1> SUFFICES ASSUME d.alone, ~d.torn PROVE Answers(d, N)
  BY DEF Answers
<1>1. /\ c.pc = "group" /\ d.n = c.n /\ d.torn = c.torn /\ d.alone = c.alone
      /\ d.want = c.want /\ (G = {} \/ numaNums # 0) /\ Spread(G, numaNums, d.answer)
  BY DoneFields
<1>2. /\ G = {H \in {Component(d.n, d.want, p) : p \in Pods(d.n)} : Cardinality(H) >= 2}
      /\ IsFiniteSet(G)
  BY <1>1, GroupComponents
<1>3. N \in Nat \ {0} /\ (G # {} => numaNums = N)
  BY <1>1, SizeFacts DEF TypeOK
<1> HIDE DEF c, d, G, N
<1>4. PICK o \in [G -> 0 .. Cardinality(G) - 1] :
        /\ \A g, h \in G : o[g] = o[h] => g = h
        /\ d.answer = [g \in G |-> o[g] % numaNums]
  BY <1>1 DEF Spread
<1>5. DOMAIN d.answer = G
  BY <1>4
<1> DEFINE On(m) == {g \in DOMAIN d.answer : d.answer[g] = m}
<1>6. \A m : On(m) = To(G, o, N, m)
  <2>1. \A g \in G : d.answer[g] = o[g] % N
    BY <1>4, <1>3
  <2> QED BY <1>5, <2>1 DEF To
<1>7. ASSUME NEW m \in 0 .. N - 1 PROVE Cardinality(On(m)) \in Nat
  <2>1. On(m) \in SUBSET G
    BY <1>5
  <2> HIDE DEF On
  <2> QED BY <1>2, <2>1, FS_Subset, FS_CardinalityType
<1>8. ASSUME NEW m \in 0 .. N - 1, NEW k \in 0 .. N - 1, m < k
      PROVE  /\ Cardinality(On(k)) <= Cardinality(On(m))
             /\ Cardinality(On(m)) <= Cardinality(On(k)) + 1
  <2>1. m \in Nat /\ k \in Nat /\ k < N
    BY <1>3
  <2>2. /\ Cardinality(To(G, o, N, k)) <= Cardinality(To(G, o, N, m))
        /\ Cardinality(To(G, o, N, m)) <= Cardinality(To(G, o, N, k)) + 1
    BY <1>4, <1>2, <1>3, <1>8, <2>1, TwoNodes
  <2>3. On(m) = To(G, o, N, m) /\ On(k) = To(G, o, N, k)
    BY <1>6
  <2> HIDE DEF On
  <2> QED BY <2>2, <2>3
<1> HIDE DEF On
<1>9. ASSUME NEW m \in 0 .. N - 1, NEW k \in 0 .. N - 1
      PROVE  Cardinality(On(m)) - Cardinality(On(k)) \in {-1, 0, 1}
  <2>1. CASE m < k
    BY <1>7, <1>8, <2>1
  <2>2. CASE k < m
    BY <1>7, <1>8, <2>2
  <2>3. CASE m = k
    BY <1>7, <2>3
  <2> QED BY <1>3, <2>1, <2>2, <2>3
<1> QED BY <1>2, <1>5, <1>9 DEF Answers, On

LEMMA AnswersKept ==
    ASSUME AnswerRight, NumaCount' = NumaCount,
           \A t \in Slot : call'[t] = call[t] \/ call'[t].pc # "done"
    PROVE  AnswerRight'
<1>1. \A t \in Slot : Answers(call'[t], NumaCount)
  BY AnswerFacts DEF Answers
<1> QED BY <1>1 DEF AnswerRight, Answers

LEMMA AnswerStep == TypeOK /\ Forests /\ AnswerRight /\ [Next]_vars => AnswerRight'
<1> SUFFICES ASSUME TypeOK, Forests, AnswerRight, [Next]_vars PROVE AnswerRight'
  OBVIOUS
<1>0. kind' = kind => NumaCount' = NumaCount
  BY DEF NumaCount, get_numa_info
<1>1. ASSUME NEW how \in {"down", "panic"}, Ends(how) PROVE AnswerRight'
  <2>1. \A t \in Slot : call'[t].pc # "done"
    BY <1>1, EndsFacts, BlankFacts
  <2>2. kind' = kind
    BY <1>1 DEF Ends
  <2> QED BY <1>0, <2>1, <2>2, AnswersKept
<1>2. CASE UNCHANGED <<kind, call>>
  BY <1>0, <1>2, AnswersKept
<1>3. CASE Process
  BY <1>1, <1>2, <1>3 DEF Process, Serve, Kill, Signal, Drained
<1>4. ASSUME NEW r \in Reports, phraseData(r) PROVE AnswerRight'
  <2>1. kind' = kind
    BY <1>4 DEF phraseData
  <2>2. ASSUME NEW t \in Slot PROVE call'[t] = call[t] \/ call'[t].pc # "done"
    <3>1. CASE call[t].pc \in Reading
      <4>1. call'[t] = [call[t] EXCEPT !.torn = TRUE]
        BY <1>4, <3>1, ReportTypes
      <4>2. call'[t].pc = call[t].pc
        BY <4>1, BlankFacts DEF TypeOK, CallOK
      <4> QED BY <3>1, <4>2 DEF Reading
    <3>2. CASE call[t].pc \notin Reading
      BY <1>4, <3>2, ReportTypes
    <3> QED BY <3>1, <3>2
  <2> QED BY <1>0, <2>1, <2>2, AnswersKept
<1>5. CASE WriteField
  BY <1>2, <1>5 DEF WriteField
<1>6. CASE Agent
  <2>1. CASE GetNumaNodeInof \/ CallFails \/ AgentEnds
    BY <1>2, <2>1 DEF GetNumaNodeInof, CallFails, AgentEnds
  <2>2. CASE CpusetOverflow
    BY <1>1, <2>2 DEF CpusetOverflow
  <2>3. ASSUME NEW s \in Slot, NEW n \in Sizes, GetPodAffinity(s, n) PROVE AnswerRight'
    <3>1. /\ kind' = kind /\ \A t \in Slot \ {s} : call'[t] = call[t]
          /\ call'[s].pc \in {"nums", "tids"}
      BY <2>3, NewFields
    <3> QED BY <1>0, <3>1, AnswersKept
  <2> QED BY <1>6, <2>1, <2>2, <2>3 DEF Agent
<1>7. ASSUME NEW s \in Slot, Handler(s) PROVE AnswerRight'
  <2>1. CASE ReadNums(s) \/ ReadPidA(s) \/ ReadPidB(s)
    <3>1. /\ kind' = kind /\ (\A t \in Slot \ {s} : call'[t] = call[t])
          /\ call'[s].pc # "done"
      BY <2>1, NumsFields, PidAFields, PidBFields
    <3> QED BY <1>0, <3>1, AnswersKept
  <2>2. CASE getTidListForPods(s) \/ calculateGid(s)
    <3>1. /\ kind' = kind /\ (\A t \in Slot \ {s} : call'[t] = call[t])
          /\ call'[s].pc # "done"
      BY <2>2, ThreadTypes, GroupTypes
    <3> QED BY <1>0, <3>1, AnswersKept
  <2>3. CASE FaStep(s)
    <3>1. kind' = kind /\ call'[s].pc # "done"
      BY <2>3, FaFacts DEF InFa
    <3>2. ASSUME NEW t \in Slot \ {s} PROVE call'[t] = call[t] \/ call'[t].pc # "done"
      <4>1. CASE call[t].pc \in InFa
        <5>1. call'[t].pc \in InFa
          BY <2>3, <4>1, FaFacts
        <5> QED BY <5>1 DEF InFa
      <4>2. CASE call[t].pc \notin InFa
        BY <2>3, <4>2, FaFacts
      <4> QED BY <4>1, <4>2
    <3> QED BY <1>0, <3>1, <3>2, AnswersKept
  <2>4. CASE getPodsAffinity(s)
    <3>1. kind' = kind /\ \A t \in Slot \ {s} : call'[t] = call[t]
      BY <2>4, DoneTypes
    <3>2. \A t \in Slot : Answers(call'[t], NumaCount)
      BY <2>4, <3>1, AnswerGiven, AnswerFacts
    <3> QED BY <1>0, <3>1, <3>2 DEF AnswerRight, Answers
  <2>5. CASE Answered(s)
    <3>1. kind' = kind /\ call' = [call EXCEPT ![s] = Blank]
      BY <2>5 DEF Answered
    <3>2. \A t \in Slot : call'[t] = call[t] \/ call'[t].pc # "done"
      BY <3>1, BlankFacts DEF TypeOK
    <3> QED BY <1>0, <3>1, <3>2, AnswersKept
  <2>6. CASE IndexPanic(s) \/ Overflow(s) \/ DividePanic(s)
    BY <1>1, <2>6, PanicTypes
  <2> QED BY <1>7, <2>1, <2>2, <2>3, <2>4, <2>5, <2>6 DEF Handler, FaStep
<1>8. CASE UNCHANGED vars
  BY <1>2, <1>8 DEF vars
<1> QED BY <1>3, <1>4, <1>5, <1>6, <1>7, <1>8 DEF Next, Callback

\* AnswerRight: whatever earlier calls have left in fa, a call that no other one and
\* no callback disturbs answers the groups that the report or the kernel relates,
\* spread over the NUMA nodes.
THEOREM ServerAnswerRight == Spec => []AnswerRight
<1>1. Init => AnswerRight
  BY BlankFacts DEF Init, AnswerRight
<1>2. ServerInv /\ AnswerRight /\ [Next]_vars => AnswerRight'
  BY AnswerStep DEF ServerInv
<1> QED BY <1>1, <1>2, ServerInvariant, PTL DEF Spec

=============================================================================
