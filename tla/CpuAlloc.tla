------------------------------ MODULE CpuAlloc ------------------------------
(***************************************************************************)
(* How a tick of the agent hands the CPUs of its machine to pods           *)
(* (updateByLoadBalancing and updateByNumafastAware in pkg/agent/agent.go, *)
(* after the pods have been listed).  Pods are taken one after the other.  *)
(* A Guaranteed pod gets as many CPUs as its containers request, one at a  *)
(* time; another pod gets a whole NUMA node.                               *)
(*                                                                         *)
(* The load-balancing tick numbers all CPUs of the machine and runs one    *)
(* index over them, which chooses the pod's NUMA node too.  The            *)
(* network-affinity tick is told the pod's NUMA node and runs one index    *)
(* per node, cyclically.                                                   *)
(*                                                                         *)
(* The containers of a pod are handled one after the other with the same   *)
(* indices, so the pod's request stands for theirs.  Every NUMA node has   *)
(* the same number of CPUs, at least one.                                  *)
(***************************************************************************)
EXTENDS Naturals, Sequences, FiniteSets

CONSTANTS N,        \* NUMA nodes of the machine
          C,        \* CPUs of a NUMA node
          MaxReq,   \* bound: CPUs a pod requests
          MaxPods   \* bound: pods a tick places

ASSUME AllocAssumption == /\ N \in Nat \ {0}
                          /\ C \in Nat \ {0}
                          /\ MaxReq \in Nat
                          /\ MaxPods \in Nat

VARIABLES
    policy,   \* the agent's policy
    placed,   \* the pods placed so far; the last one may still want CPUs
    left,     \* CPUs the last pod still wants
    next,     \* guranteedPodCpuIdx
    over,     \* overFlowCpuIdx
    shared,   \* nonGuaranteedPodNumaIdx
    idx,      \* cpuAllocIdx: NUMA node -> the next CPU in its cpuset
    use,      \* history: CPU -> how often it was handed out
    crashed   \* the process has panicked

vars == <<policy, placed, left, next, over, shared, idx, use, crashed>>

Numa == 0 .. N - 1
Offset == 0 .. C - 1

\* A CPU is known by its NUMA node and its place in the node's cpuset.
Cpu == Numa \X Offset

\* allCpus: the cpusets one after the other
AllCpus(i) == <<i \div C, i % C>>

\* What is published for a pod; NumaNum can be N, see RunsOutWhenFull.  Its field
\* spilled records whether the pod overflowed its NUMA node.
Placement == [numa : 0 .. N, guaranteed : BOOLEAN, req : 0 .. MaxReq,
              cpus : SUBSET Cpu, spilled : BOOLEAN]

TypeOK == /\ policy \in {"net_affinity", "load_balance"}
          /\ placed \in Seq(Placement)
          /\ Len(placed) <= MaxPods
          /\ left \in 0 .. MaxReq
          /\ next \in 0 .. N * C
          /\ over \in 0 .. N * C
          /\ shared \in Numa
          /\ idx \in [Numa -> Offset]
          /\ use \in [Cpu -> Nat]
          /\ crashed \in BOOLEAN

Last == Len(placed)

\* The previous pod has its CPUs and the tick takes another one.
Ready == left = 0 /\ ~crashed /\ Len(placed) < MaxPods

Place(k, g, r, cpus) ==
    /\ placed' = Append(placed, [numa |-> k, guaranteed |-> g,
                                 req |-> r, cpus |-> cpus, spilled |-> FALSE])
    /\ left' = IF g THEN r ELSE 0

\* Load balancing: the index has not left the NUMA node of the last pod.
InNode == next \div C = placed[Last].numa

\* The last pod gets CPU c.
Give(c) == /\ placed' = [placed EXCEPT ![Last].cpus = @ \cup {c},
                                        ![Last].spilled = policy = "load_balance" /\ ~InNode]
           /\ left' = left - 1
           /\ use' = [use EXCEPT ![c] = @ + 1]
           /\ UNCHANGED <<policy, shared, crashed>>

-----------------------------------------------------------------------------
(* updateByLoadBalancing                                                   *)

\* A Guaranteed pod: the index that points at its first CPU names its node.
LbGuaranteed(r) == /\ policy = "load_balance"
                   /\ Ready
                   /\ Place(next \div C, TRUE, r, {})
                   /\ over' = next \div C
                   /\ UNCHANGED <<policy, next, shared, idx, use, crashed>>

\* Another pod: the NUMA nodes in turn.
LbShared == /\ policy = "load_balance"
            /\ Ready
            /\ Place(shared, FALSE, 0, {shared} \X Offset)
            /\ shared' = (shared + 1) % N
            /\ over' = next \div C
            /\ UNCHANGED <<policy, next, idx, use, crashed>>

\* Mutant: the index skips a CPU.
LbNextSkip == /\ policy = "load_balance"
              /\ left > 0 /\ ~crashed
              /\ InNode
              /\ next < N * C
              /\ Give(AllCpus(next))
              /\ next' = IF next + 2 <= N * C THEN next + 2 ELSE next + 1
              /\ UNCHANGED <<over, idx>>

\* Mutant: the index is not moved.
LbNextStay == /\ policy = "load_balance"
              /\ left > 0 /\ ~crashed
              /\ InNode
              /\ next < N * C
              /\ Give(AllCpus(next))
              /\ UNCHANGED <<next, over, idx>>

\* Mutant: the index is not compared with the number of CPUs.
LbNextUnchecked == /\ policy = "load_balance"
                   /\ left > 0 /\ ~crashed
                   /\ InNode
                   /\ Give(AllCpus(next))
                   /\ next' = next + 1
                   /\ UNCHANGED <<over, idx>>

LbNext == /\ policy = "load_balance"
          /\ left > 0 /\ ~crashed
          /\ InNode
          /\ next < N * C
          /\ Give(AllCpus(next))
          /\ next' = next + 1
          /\ UNCHANGED <<over, idx>>

\* Mutant: the second index is not moved.
LbOverflowStay == /\ policy = "load_balance"
                  /\ left > 0 /\ ~crashed
                  /\ ~InNode
                  /\ Give(AllCpus(over))
                  /\ UNCHANGED <<next, over, idx>>

\* The index has left the pod's node: the rest is taken from a second index,
\* which turns back to the node's first CPU at the node's end.
LbOverflow == /\ policy = "load_balance"
              /\ left > 0 /\ ~crashed
              /\ ~InNode
              /\ Give(AllCpus(over))
              /\ over' = IF over + 1 = (placed[Last].numa + 1) * C
                           THEN placed[Last].numa * C ELSE over + 1
              /\ UNCHANGED <<next, idx>>

\* The index is past the last CPU: index out of range.
LbPanic == /\ policy = "load_balance"
           /\ left > 0 /\ ~crashed
           /\ InNode
           /\ next = N * C
           /\ crashed' = TRUE
           /\ UNCHANGED <<policy, placed, left, next, over, shared, idx, use>>

-----------------------------------------------------------------------------
(* updateByNumafastAware                                                   *)

NetGuaranteed(k, r) == /\ policy = "net_affinity"
                       /\ Ready
                       /\ Place(k, TRUE, r, {})
                       /\ UNCHANGED <<policy, next, over, shared, idx, use, crashed>>

NetShared(k) == /\ policy = "net_affinity"
                /\ Ready
                /\ Place(k, FALSE, 0, {k} \X Offset)
                /\ UNCHANGED <<policy, next, over, shared, idx, use, crashed>>

\* Mutant: the index of node 0 is moved for every node.
NetNextZero == /\ policy = "net_affinity"
               /\ left > 0
               /\ LET k == placed[Last].numa
                  IN /\ Give(<<k, idx[k]>>)
                     /\ idx' = [idx EXCEPT ![0] = (@ + 1) % C]
               /\ UNCHANGED <<next, over>>

NetNext == /\ policy = "net_affinity"
           /\ left > 0
           /\ LET k == placed[Last].numa
              IN /\ Give(<<k, idx[k]>>)
                 /\ idx' = [idx EXCEPT ![k] = (@ + 1) % C]
           /\ UNCHANGED <<next, over>>

-----------------------------------------------------------------------------
Init == /\ policy \in {"net_affinity", "load_balance"}
        /\ placed = <<>>
        /\ left = 0
        /\ next = 0
        /\ over = 0
        /\ shared = 0
        /\ idx = [k \in Numa |-> 0]
        /\ use = [c \in Cpu |-> 0]
        /\ crashed = FALSE

Next == \/ \E r \in 0 .. MaxReq : LbGuaranteed(r)
        \/ LbShared
        \/ LbNext
        \/ LbOverflow
        \/ LbPanic
        \/ \E k \in Numa, r \in 0 .. MaxReq : NetGuaranteed(k, r)
        \/ \E k \in Numa : NetShared(k)
        \/ NetNext

Spec == Init /\ [][Next]_vars

-----------------------------------------------------------------------------
(* Properties                                                              *)

\* The pods that have all their CPUs
Done == {i \in 1 .. Last : placed[i].guaranteed /\ (i = Last => left = 0)}

\* A pod that asks for no more CPUs than a NUMA node has gets as many different
\* ones, however the indices wrap and whichever pods came before it.
EnoughCpus == \A i \in Done : placed[i].req <= C
                                 => Cardinality(placed[i].cpus) = placed[i].req

\* Under load balancing two pods that both stay inside their NUMA node have no
\* CPU in common: only a pod that overflows its node takes CPUs in use.
Exclusive == policy = "load_balance" =>
    (\A i, j \in Done : i < j /\ ~placed[i].spilled /\ ~placed[j].spilled
                           => placed[i].cpus \cap placed[j].cpus = {})

\* Load balancing runs out of CPUs, by a panic or by naming a NUMA node that does
\* not exist, only when it has handed out every CPU of the machine.
RunsOutWhenFull ==
    policy = "load_balance" /\ (crashed \/ \E i \in 1 .. Last : placed[i].numa = N)
       => \A c \in Cpu : use[c] > 0

\* The network-affinity tick spreads the Guaranteed pods of a NUMA node evenly
\* over the node's CPUs.
CpuBalanced == policy = "net_affinity" =>
    (\A k \in Numa : \A i, j \in Offset : use[<<k, i>>] <= use[<<k, j>>] + 1)

\* The CPUs of a pod do not cross NUMA nodes: the overflow index is there "to
\* prevent the CPUs of the containers of a pod from crossing NUMA nodes"
\* (agent.go:362), and "beyond the node, CPUs are allocated inside it" (385).
PodInOneNuma == \A i \in 1 .. Last : \A c \in placed[i].cpus : c[1] = placed[i].numa

-----------------------------------------------------------------------------
(* What makes the properties inductive                                     *)

\* The index of load balancing has passed exactly the CPUs handed out by it; the
\* second index is inside the last pod's node or before it.
LbInv == policy = "load_balance" =>
    /\ \A i \in 0 .. next - 1 : use[AllCpus(i)] > 0
    /\ crashed => next = N * C
    /\ \A i \in 1 .. Last : placed[i].numa = N => next = N * C
    /\ left > 0 /\ placed[Last].numa < N => over < (placed[Last].numa + 1) * C

\* The CPUs of node k before its index were handed out once more than the others.
RoundOf(k) == \A i, j \in Offset :
                 /\ i < idx[k] /\ j < idx[k] => use[<<k, i>>] = use[<<k, j>>]
                 /\ i >= idx[k] /\ j >= idx[k] => use[<<k, i>>] = use[<<k, j>>]
                 /\ i < idx[k] /\ j >= idx[k] => use[<<k, i>>] = use[<<k, j>>] + 1

NetInv == policy = "net_affinity" =>
    /\ \A k \in Numa : RoundOf(k)
    /\ left > 0 => placed[Last].numa \in Numa

AllocInv == /\ TypeOK
            /\ left > 0 => Last > 0
            /\ LbInv
            /\ NetInv
=============================================================================
