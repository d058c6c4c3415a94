---------------------------- MODULE OenumaData -----------------------------
(***************************************************************************)
(* The data of the Oenuma custom resource and the edits the agents make to *)
(* it (pkg/apis/.../types.go, pkg/agent/agent.go).                         *)
(***************************************************************************)
EXTENDS Naturals

CONSTANTS Node,       \* worker nodes: one agent process each
          Pod,        \* pod names (one namespace)
          NumaCount,  \* NUMA nodes of a machine
          Policy,     \* node -> its agent's policy (flag -policy)
          Whitelist   \* the pods the Whitelist object names

ASSUME DataAssumption == /\ NumaCount \in Nat \ {0}
                         /\ Policy \in [Node -> {"net_affinity", "load_balance"}]
                         /\ Whitelist \subseteq Pod

\* NUMA numbers an agent can publish
Numa == 0 .. NumaCount - 1

\* Node.podAffinity: pod -> NUMA number
PodMap == UNION {[S -> Numa] : S \in SUBSET Pod}

\* Node: the number of NUMA nodes it lists, and its pod placements
Entry == [numa : 0 .. NumaCount, aff : PodMap]

SpecMap == UNION {[S -> Entry] : S \in SUBSET Node}

NoPods == [p \in {} |-> 0]
NoEntries == [n \in {} |-> NoPods]

MkEntry(k, m) == [numa |-> k, aff |-> m]

\* s with node n's entry (added or) replaced
Put(s, n, e) == [m \in DOMAIN s \cup {n} |-> IF m = n THEN e ELSE s[m]]

\* s with only the placements of n's entry replaced
PutAff(s, n, m) == Put(s, n, MkEntry(s[n].numa, m))

\* the placements m after those of r are written over them
Merge(r, m) == [p \in DOMAIN r \cup DOMAIN m |->
                   IF p \in DOMAIN r THEN r[p] ELSE m[p]]

\* m without the pods of D
Without(m, D) == [p \in DOMAIN m \ D |-> m[p]]
=============================================================================
