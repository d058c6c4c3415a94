-------------------------- MODULE AffinityServer ---------------------------
(***************************************************************************)
(* The two affinity servers, netRelaServer and grpcServer (numafast), and  *)
(* the agent that calls one of them.  A tick of the agent asks for the     *)
(* NUMA nodes and then for the groups of its pods that talk to each other. *)
(*                                                                         *)
(* The handlers of a server run in goroutines of their own, but keep their *)
(* union-find forest in one array, fa, and the number of NUMA nodes in one *)
(* variable.  netRelaServer reads its relation from an array that a        *)
(* callback of oeAware fills, in a thread of its own; numafast asks the    *)
(* kernel for the relation group of every thread.  No lock is taken.       *)
(*                                                                         *)
(* The agent calls again when the last call is answered, but an agent that *)
(* ends does not end its call: the next one's calls overlap with it.       *)
(*                                                                         *)
(* Every read and write of fa, of the report array and of numaNums is a    *)
(* step of its own; what a handler does between two of them is local.      *)
(***************************************************************************)
EXTENDS Integers, Sequences, FiniteSets

CONSTANTS Kinds,     \* which servers are checked: "netrela", "numafast"
          Overlap,   \* Overlap[k]: how many calls server k may work on at a time
          Sizes,     \* how many pods a request may have
          FaSize,    \* 1024 in the program
          MaxDepth,  \* how many frames of find the stack holds (1 GB)
          CpusOf,    \* CpusOf[k]: the CPUs of the NUMA nodes 0, 1, ... of k's machine
          CpusetSize, \* 64 in the program
          Threads,   \* Threads[i + 1]: the thread ids of the i-th pod
          Reports,   \* what oeAware reports: sequences of pairs of thread ids
          RelSize,   \* 1024 in the program
          Gids,      \* what the kernel answers: thread id -> group id or None
          MayFail,   \* the pods for which crictl may fail
          None,
          Faults     \* which of "kill", "signal" and "agent" may happen

ASSUME AffinityAssumption ==
    /\ Kinds \subseteq {"netrela", "numafast"}
    /\ FaSize \in Nat /\ RelSize \in Nat /\ MaxDepth \in Nat \ {0}
    /\ MaxDepth >= FaSize - 1
    /\ \A k \in Kinds : LET N == DOMAIN CpusOf[k]
                         IN IsFiniteSet(N) /\ N # {} /\ N = 0 .. Cardinality(N) - 1
    /\ Threads \in Seq(SUBSET Nat) /\ Sizes \subseteq 1 .. Len(Threads)
    /\ \A r \in Reports : r \in Seq(Nat \X Nat) /\ Len(r) <= RelSize
    /\ \A k \in Kinds : Overlap[k] \in Nat
    /\ None \notin Nat

VARIABLES
    kind,      \* which server it is
    up,        \* "down", "up", "stopping" (GracefulStop) or "panic"
    numaNums,
    fa,        \* the union-find forest
    relsNums, rels,
    report,    \* history: the report delivered last
    todo,      \* what the callback has still to write to rels
    agent,     \* "idle", "asked" (it knows the nodes), "stale" (and the server
               \*         has ended since), or "waits" for the call mine
    mine,
    call       \* the calls

vars == <<kind, up, numaNums, fa, relsNums, rels, report, todo, agent, mine, call>>
agentVars == <<agent, mine>>
dataVars == <<relsNums, rels, report, todo>>

\* The nodes as libnuma lists them, with their CPUs
get_numa_info == CpusOf[kind]
NumaCount == Cardinality(DOMAIN get_numa_info)

Slot == UNION {1 .. Overlap[k] : k \in Kinds}

Pods(n) == 0 .. n - 1
Pairs(n) == {p \in Pods(n) \X Pods(n) : p[1] < p[2]}

\* The fields of a call: what it has read of the report (seen), the report that
\* was the last one then (src), whether a callback wrote meanwhile (torn), whether
\* the server was started again after the agent had asked (stale); the pairs of
\* related pods it finds (aff) and should find (want); whether no other call
\* worked on fa meanwhile (alone); the pairs to join (left); the frames of find
\* (st), what find is for (use) and has returned (ret); the roots (root).
Blank == [pc |-> "idle", n |-> 0, seen |-> <<>>, src |-> <<>>, torn |-> FALSE,
          stale |-> FALSE, aff |-> {}, want |-> {}, alone |-> TRUE, left |-> {},
          i |-> 0, rx |-> 0, st |-> <<>>, use |-> "x", ret |-> 0, root |-> <<>>,
          answer |-> <<>>]

Reading == {"nums", "pairs", "field"}
InFa == {"init", "find", "back", "set", "link", "group"}

Index == 0 .. FaSize - 1
Tid == Nat \cup {None}

\* Call c is in find.
InFind(c) == c.pc \in {"find", "back", "set"}

CallOK(c) ==
    /\ DOMAIN c = DOMAIN Blank
    /\ c.pc \in {"idle", "tids", "gids", "done"} \cup Reading \cup InFa
    /\ c.pc = "idle" => c = Blank
    /\ c.pc # "idle" => c.n \in Sizes
    /\ c.torn \in BOOLEAN /\ c.stale \in BOOLEAN /\ c.alone \in BOOLEAN
    /\ c.left \cup c.aff \cup c.want \subseteq Pairs(c.n)
    /\ c.seen \in Seq(Tid \X Tid) /\ (c.pc = "nums" => c.seen = <<>>)
    /\ c.pc \in {"pairs", "field"} => c.i \in 1 .. RelSize /\ Len(c.seen) < c.i
    /\ c.pc = "field" => c.ret \in Tid
    /\ c.pc = "gids" => c.i = 0
    /\ c.pc = "init" => c.i \in 0 .. c.n
    /\ c.pc \in InFa \ {"init"} => c.n < FaSize
    /\ c.st \in Seq(Index) /\ Len(c.st) <= MaxDepth
    /\ c.use \in {"x", "y", "group"}
    /\ InFind(c) => c.st # <<>> /\ (c.use = "group" <=> c.left = {})
    /\ (InFind(c) /\ c.use = "y") \/ c.pc = "link" => c.rx \in Index
    /\ c.pc \in {"set", "link"} => c.ret \in Index
    /\ c.pc \notin {"gids", "done"} => c.root \in Seq(Index)
    /\ c.pc \in InFa \cup Reading \cup {"tids"} =>
         CASE c.pc = "group" -> Len(c.root) = c.n
           [] InFind(c) /\ c.use = "group" -> Len(c.root) < c.n
           [] OTHER -> c.root = <<>>

TypeOK ==
    /\ kind \in Kinds
    /\ up \in {"down", "up", "stopping", "panic"}
    /\ numaNums \in {0, NumaCount}
    /\ fa \in [Index -> Index]
    /\ relsNums \in 0 .. RelSize
    /\ rels \in [1 .. RelSize -> Tid \X Tid]
    /\ report \in Reports \cup {<<>>}
    /\ todo \in Seq((1 .. Len(report)) \X {1, 2})
    /\ agent \in {"idle", "asked", "stale", "waits"}
    /\ mine \in Slot \cup {0} /\ (mine # 0 <=> agent = "waits")
    /\ DOMAIN call = Slot /\ \A s \in Slot : CallOK(call[s])

-----------------------------------------------------------------------------
(* The server's process                                                    *)

Serve == /\ up \in {"down", "panic"}
         /\ up' = "up"
         /\ UNCHANGED <<kind, numaNums, fa, dataVars, agentVars, call>>

\* The process ends: its memory is lost and its calls fail.
Ends(how) == /\ up' = how
             /\ call' = [s \in Slot |-> Blank]
             /\ agent' = CASE agent = "waits" -> "idle" [] agent = "asked" -> "stale"
                           [] OTHER -> agent
             /\ mine' = 0
             /\ numaNums' = 0
             /\ fa' = [k \in Index |-> 0]
             /\ relsNums' = 0
             /\ rels' = [k \in 1 .. RelSize |-> <<None, None>>]
             /\ report' = <<>>
             /\ todo' = <<>>
             /\ UNCHANGED kind

Kill == /\ "kill" \in Faults
        /\ up \in {"up", "stopping"}
        /\ Ends("down")

\* SIGTERM: netRelaServer unsubscribes and takes no more calls, but ends the
\* running ones.
Signal == /\ "signal" \in Faults
          /\ kind = "netrela"
          /\ up = "up"
          /\ up' = "stopping"
          /\ UNCHANGED <<kind, numaNums, fa, dataVars, agentVars, call>>

Drained == /\ up = "stopping"
           /\ \A s \in Slot : call[s].pc = "idle"
           /\ Ends("down")

-----------------------------------------------------------------------------
(* The callback of oeAware                                                 *)

\* It sets the number first and then the elements, field by field.
phraseData(r) ==
    /\ kind = "netrela"
    /\ up = "up"
    /\ todo = <<>>
    /\ relsNums' = Len(r)
    /\ report' = r
    /\ todo' = [k \in 1 .. 2 * Len(r) |-> <<(k + 1) \div 2, 2 - (k % 2)>>]
    /\ call' = [s \in Slot |-> IF call[s].pc \in Reading
                                 THEN [call[s] EXCEPT !.torn = TRUE] ELSE call[s]]
    /\ UNCHANGED <<kind, up, numaNums, fa, rels, agentVars>>

WriteField ==
    /\ todo # <<>>
    /\ LET k == Head(todo)[1]
           f == Head(todo)[2]
       IN rels' = [rels EXCEPT ![k][f] = report[k][f]]
    /\ todo' = Tail(todo)
    /\ UNCHANGED <<kind, up, numaNums, fa, relsNums, report, agentVars, call>>

-----------------------------------------------------------------------------
(* The agent                                                               *)

\* The handler sets numaNums when it has read the nodes.
Counted == numaNums' = NumaCount

GetNumaNodeInof == /\ agent = "idle"
                   /\ up = "up"
                   /\ agent' = "asked"
                   /\ Counted
                   /\ UNCHANGED <<kind, up, fa, dataVars, mine, call>>

\* The CPUs of a node are written to an array of CpusetSize numbers on the heap;
\* what lies behind it may be in use or not.
TooWide == \E n \in DOMAIN get_numa_info : Cardinality(get_numa_info[n]) > CpusetSize

CpusetOverflow == /\ agent = "idle"
                  /\ up = "up"
                  /\ TooWide
                  /\ Ends("panic")

\* Mutant: the agent does not ask for the nodes first.
GetPodAffinityFirst(s, n) ==
    /\ agent # "waits"
    /\ up = "up"
    /\ s <= Overlap[kind]
    /\ call[s].pc = "idle" /\ \A t \in 1 .. s - 1 : call[t].pc # "idle"
    /\ agent' = "waits"
    /\ mine' = s
    /\ call' = [call EXCEPT ![s] =
                  [Blank EXCEPT !.pc = IF kind = "netrela" THEN "nums" ELSE "tids",
                                !.n = n, !.stale = (agent = "stale")]]
    /\ UNCHANGED <<kind, up, numaNums, fa, dataVars>>

GetPodAffinity(s, n) ==
    /\ agent \in {"asked", "stale"}
    /\ up = "up"
    /\ s <= Overlap[kind]
    /\ call[s].pc = "idle" /\ \A t \in 1 .. s - 1 : call[t].pc # "idle"
    /\ agent' = "waits"
    /\ mine' = s
    /\ call' = [call EXCEPT ![s] =
                  [Blank EXCEPT !.pc = IF kind = "netrela" THEN "nums" ELSE "tids",
                                !.n = n, !.stale = (agent = "stale")]]
    /\ UNCHANGED <<kind, up, numaNums, fa, dataVars>>

\* There is no server, or the list of pods fails.
CallFails == /\ agent \in {"asked", "stale"}
             /\ agent' = "idle"
             /\ UNCHANGED <<kind, up, numaNums, fa, dataVars, mine, call>>

\* The agent ends and is started again.  Its call goes on.
AgentEnds == /\ "agent" \in Faults
             /\ agent = "waits"
             /\ agent' = "idle"
             /\ mine' = 0
             /\ UNCHANGED <<kind, up, numaNums, fa, dataVars, call>>

Answered(s) == /\ call[s].pc = "done"
               /\ call' = [call EXCEPT ![s] = Blank]
               /\ agent' = IF mine = s THEN "idle" ELSE agent
               /\ mine' = IF mine = s THEN 0 ELSE mine
               /\ UNCHANGED <<kind, up, numaNums, fa, dataVars>>

-----------------------------------------------------------------------------
(* A call reads the report, the threads and their groups                   *)

\* Call s goes on as c, and nothing that is shared changes.
Goes(s, c) == /\ call' = [call EXCEPT ![s] = c]
              /\ UNCHANGED <<kind, up, numaNums, fa, dataVars, agentVars>>

ReadNums(s) ==
    /\ call[s].pc = "nums"
    /\ Goes(s, [call[s] EXCEPT !.pc = IF relsNums = 0 THEN "tids" ELSE "pairs",
                               !.i = relsNums, !.src = report, !.torn = todo # <<>>])

ReadPidA(s) ==
    /\ call[s].pc = "pairs"
    /\ Goes(s, [call[s] EXCEPT !.pc = "field", !.ret = rels[Len(call[s].seen) + 1][1]])

ReadPidB(s) ==
    /\ call[s].pc = "field"
    /\ LET c == call[s]
           more == Append(c.seen, <<c.ret, rels[Len(c.seen) + 1][2]>>)
       IN Goes(s, [c EXCEPT !.pc = IF Len(more) = c.i THEN "tids" ELSE "pairs",
                            !.seen = more, !.ret = 0])

\* The pairs of pods that the reported pairs of threads relate, if pod i has
\* the threads T[i]
Affine(reported, T) ==
    {p \in Pairs(Cardinality(DOMAIN T)) :
       \E t1 \in T[p[1]], t2 \in T[p[2]], k \in DOMAIN reported :
         reported[k] \in {<<t1, t2>>, <<t2, t1>>}}

\* The threads of n pods: of their containers' first processes, as crictl knows
\* them, and of the children ps lists.  A pod of F, for which crictl fails or none
\* of whose containers runs yet, has none.
ThreadsOf(n, F) == [i \in Pods(n) |-> IF i \in F THEN {} ELSE Threads[i + 1]]

getTidListForPods(s) ==
    /\ call[s].pc = "tids"
    /\ \E F \in SUBSET MayFail :
         LET c == call[s]
             T == ThreadsOf(c.n, F)
             d == [c EXCEPT !.seen = <<>>, !.src = <<>>, !.i = 0]
         IN Goes(s, IF kind = "netrela"
                      THEN [d EXCEPT !.pc = "init", !.aff = Affine(c.seen, T),
                                     !.want = Affine(c.src, T)]
                      ELSE [d EXCEPT !.pc = "gids", !.root = T])

\* The groups of the threads S.  One that is alone in its group has none.
get_gid(gid, S) == {gid[t] : t \in S} \ {None}

\* Two pods are related if threads of theirs have the same group, or one's group
\* is a thread of the other.
hasPodAffinity(gid, S, T) == \/ get_gid(gid, S) \cap get_gid(gid, T) # {}
                             \/ get_gid(gid, S) \cap T # {}
                             \/ get_gid(gid, T) \cap S # {}

calculateGid(s) ==
    /\ call[s].pc = "gids"
    /\ \E gid \in Gids :
         LET c == call[s]
             aff == {p \in Pairs(c.n) : hasPodAffinity(gid, c.root[p[1]], c.root[p[2]])}
         IN Goes(s, [c EXCEPT !.pc = "init", !.aff = aff, !.want = aff, !.root = <<>>])

-----------------------------------------------------------------------------
(* A call groups the pods: union-find on fa                                *)

\* Call s goes on as c after a step on fa.  It is not alone any more if another
\* call is between its first and its last step on fa, and neither is that one.
GoesOn(s, c) ==
    LET others == {t \in Slot \ {s} : call[t].pc \in InFa}
        met(d) == [d EXCEPT !.alone = FALSE, !.want = {}]
    IN call' = [t \in Slot |-> IF t \in others THEN met(call[t])
                              ELSE IF t # s THEN call[t]
                              ELSE IF others = {} THEN c ELSE met(c)]

Local == <<kind, up, numaNums, dataVars, agentVars>>

\* The loops go through the pairs in this order.
First(R) == CHOOSE p \in R : \A q \in R : p[1] < q[1] \/ (p[1] = q[1] /\ p[2] <= q[2])

\* Call c starts find(x).
Find(c, x, use) == [c EXCEPT !.pc = "find", !.st = <<x>>, !.use = use]

\* Call c joins the next pair, or looks for every pod's root.
NextPair(c) == IF c.left = {} THEN Find(c, 0, "group")
                              ELSE Find(c, First(c.left)[1], "x")

\* Mutant: the roots count from one.
init_unionFindSetOne(s) ==
    /\ call[s].pc = "init"
    /\ LET c == call[s]
       IN /\ c.i < FaSize
          /\ fa' = [fa EXCEPT ![c.i] = c.i + 1]
          /\ GoesOn(s, IF c.i < c.n THEN [c EXCEPT !.i = @ + 1]
                       ELSE NextPair([c EXCEPT !.i = 0, !.aff = {}, !.left = c.aff]))
    /\ UNCHANGED Local

\* Mutant: one element less than there are pods is set.
init_unionFindSetShort(s) ==
    /\ call[s].pc = "init"
    /\ LET c == call[s]
       IN /\ c.i < FaSize
          /\ fa' = IF c.i < c.n - 1 THEN [fa EXCEPT ![c.i] = c.i] ELSE fa
          /\ GoesOn(s, IF c.i < c.n THEN [c EXCEPT !.i = @ + 1]
                       ELSE NextPair([c EXCEPT !.i = 0, !.aff = {}, !.left = c.aff]))
    /\ UNCHANGED Local

\* One more element than there are pods is set.
init_unionFindSet(s) ==
    /\ call[s].pc = "init"
    /\ LET c == call[s]
       IN /\ c.i < FaSize
          /\ fa' = [fa EXCEPT ![c.i] = c.i]
          /\ GoesOn(s, IF c.i < c.n THEN [c EXCEPT !.i = @ + 1]
                                    ELSE NextPair([c EXCEPT !.i = 0, !.aff = {}, !.left = c.aff]))
    /\ UNCHANGED Local

\* Index out of range
IndexPanic(s) == /\ call[s].pc = "init"
                 /\ call[s].i >= FaSize
                 /\ Ends("panic")

Top(c) == c.st[Len(c.st)]

\* Mutant: find is a loop.
CompareLoops(s) ==
    /\ call[s].pc = "find"
    /\ LET c == call[s]
           y == fa[Top(c)]
       IN GoesOn(s, IF y = Top(c) THEN [c EXCEPT !.pc = "back"]
                                  ELSE [c EXCEPT !.st = <<y>>])
    /\ UNCHANGED <<fa, Local>>

\* x # fa[x], and the call of find(fa[x]) if it is not
Compare(s) ==
    /\ call[s].pc = "find"
    /\ LET c == call[s]
           y == fa[Top(c)]
       IN /\ y = Top(c) \/ Len(c.st) < MaxDepth
          /\ GoesOn(s, IF y = Top(c) THEN [c EXCEPT !.pc = "back"]
                                     ELSE [c EXCEPT !.st = Append(@, y)])
    /\ UNCHANGED <<fa, Local>>

\* A cycle in fa ends in a stack overflow.
Overflow(s) == /\ call[s].pc = "find"
               /\ fa[Top(call[s])] # Top(call[s])
               /\ Len(call[s].st) = MaxDepth
               /\ Ends("panic")

\* What call c does with the result r of its outermost find
Found(c, r) ==
    CASE c.use = "x" -> Find([c EXCEPT !.rx = r], First(c.left)[2], "y")
      [] c.use = "y" -> LET d == [c EXCEPT !.left = @ \ {First(@)}]
                        IN IF r = c.rx THEN NextPair([d EXCEPT !.rx = 0])
                           ELSE [d EXCEPT !.pc = "link", !.ret = r, !.st = <<>>]
      [] OTHER -> LET d == [c EXCEPT !.root = Append(@, r)]
                  IN IF Len(d.root) < c.n THEN Find(d, Len(d.root), "group")
                     ELSE [d EXCEPT !.pc = "group", !.st = <<>>]

\* return fa[x], to join, to the grouping, or to the frame below
Return(s) ==
    /\ call[s].pc = "back"
    /\ LET c == call[s]
           r == fa[Top(c)]
       IN GoesOn(s, IF Len(c.st) = 1 THEN Found(c, r)
                    ELSE [c EXCEPT !.pc = "set", !.ret = r,
                                   !.st = SubSeq(@, 1, Len(@) - 1)])
    /\ UNCHANGED <<fa, Local>>

\* fa[x] = find(fa[x])
Compress(s) ==
    /\ call[s].pc = "set"
    /\ fa' = [fa EXCEPT ![Top(call[s])] = call[s].ret]
    /\ GoesOn(s, [call[s] EXCEPT !.pc = "back", !.ret = 0])
    /\ UNCHANGED Local

\* fa[rx] = ry
Link(s) ==
    /\ call[s].pc = "link"
    /\ fa' = [fa EXCEPT ![call[s].rx] = call[s].ret]
    /\ GoesOn(s, NextPair([call[s] EXCEPT !.rx = 0, !.ret = 0]))
    /\ UNCHANGED Local

\* Pods with the same root are a group, if there are two of them at least.
Groups(c) == {G \in {{j \in Pods(c.n) : c.root[j + 1] = r} : r \in Index} :
                Cardinality(G) >= 2}

\* The groups get the NUMA nodes in turn, in the order of a map, which is any.
getPodsAffinity(s) ==
    /\ call[s].pc = "group"
    /\ Groups(call[s]) = {} \/ numaNums # 0
    /\ LET G == Groups(call[s])
       IN \E o \in [G -> 0 .. Cardinality(G) - 1] :
            /\ \A g, h \in G : o[g] = o[h] => g = h
            /\ Goes(s, [Blank EXCEPT !.pc = "done", !.n = call[s].n,
                          !.torn = call[s].torn, !.alone = call[s].alone,
                          !.want = call[s].want,
                          !.answer = [g \in G |-> o[g] % numaNums]])

\* (numaNode + 1) % numaNums
DividePanic(s) == /\ call[s].pc = "group"
                  /\ Groups(call[s]) # {}
                  /\ numaNums = 0
                  /\ Ends("panic")

-----------------------------------------------------------------------------
Init == /\ kind \in Kinds
        /\ up = "down"
        /\ numaNums = 0
        /\ fa = [k \in Index |-> 0]
        /\ relsNums = 0
        /\ rels = [k \in 1 .. RelSize |-> <<None, None>>]
        /\ report = <<>>
        /\ todo = <<>>
        /\ agent = "idle"
        /\ mine = 0
        /\ call = [s \in Slot |-> Blank]

Handler(s) ==
    \/ ReadNums(s) \/ ReadPidA(s) \/ ReadPidB(s)
    \/ getTidListForPods(s) \/ calculateGid(s)
    \/ init_unionFindSet(s) \/ IndexPanic(s)
    \/ Compare(s) \/ Overflow(s) \/ Return(s) \/ Compress(s) \/ Link(s)
    \/ getPodsAffinity(s) \/ DividePanic(s) \/ Answered(s)

Process == Serve \/ Kill \/ Signal \/ Drained
Callback == (\E r \in Reports : phraseData(r)) \/ WriteField
Agent == \/ GetNumaNodeInof \/ CpusetOverflow \/ CallFails \/ AgentEnds
         \/ \E s \in Slot, n \in Sizes : GetPodAffinity(s, n)

Next == Process \/ Callback \/ Agent \/ \E s \in Slot : Handler(s)

Spec == Init /\ [][Next]_vars

\* The goroutine of every call runs.
FairSpec == Spec /\ \A s \in Slot : WF_vars(Handler(s))

-----------------------------------------------------------------------------
(* Properties                                                              *)

\* The pods that are related to pod p, directly or through others: what every
\* set that holds p and that R does not leave has in common
Component(n, R, p) ==
    {q \in Pods(n) : \A S \in SUBSET Pods(n) :
       p \in S /\ (\A e \in R : e[1] \in S <=> e[2] \in S) => q \in S}

\* An answer has the groups of pods that the report, or the kernel, relates, on
\* NUMA nodes taken in turn, whatever earlier calls have left in fa, if no other
\* call worked on fa and no callback wrote the report meanwhile.
AnswerRight ==
    \A s \in Slot : call[s].pc = "done" /\ call[s].alone /\ ~call[s].torn =>
        LET c == call[s]
            On(m) == Cardinality({g \in DOMAIN c.answer : c.answer[g] = m})
        IN /\ DOMAIN c.answer = {G \in {Component(c.n, c.want, p) : p \in Pods(c.n)} :
                                   Cardinality(G) >= 2}
           /\ \A m, k \in 0 .. NumaCount - 1 : On(m) - On(k) \in {-1, 0, 1}

\* The server brings itself down only for a request with FaSize pods, for a call
\* of an agent that had asked a server that has ended since, when calls overlap,
\* or when it is asked for the nodes of a machine with too many CPUs.
PanicsOnly ==
    [][up' = "panic" /\ up # "panic" =>
         \/ agent = "idle" /\ TooWide
         \/ \E s \in Slot : /\ call[s].pc \in InFa
                            /\ call[s].n >= FaSize \/ call[s].stale \/ ~call[s].alone]_vars

\* An agent, which waits without a timeout, does not wait for ever.
Returns == agent = "waits" ~> agent = "idle"
=============================================================================
