---------------------------- MODULE OenumaStore ----------------------------
(***************************************************************************)
(* What the agents promise about the shared Oenuma custom resource: its    *)
(* spec is a table with one entry per worker node, and every update of the *)
(* table is an ATOMIC change of ONE node's entry, computed from the value  *)
(* that entry has at that moment.  No read copy, no version, no handler.   *)
(* Placements are reset only by the agent that created the object, once.   *)
(* OenumaAgent implements it with read-modify-write cycles on the whole    *)
(* object.                                                                 *)
(***************************************************************************)
EXTENDS OenumaData

VARIABLES crExists,   \* the Oenuma object "podafi" is in the API server
          spec,       \* node name -> its entry in spec.node
          edits,      \* how often a user has edited it
          creator     \* the node whose agent created it and has yet to register

storeVars == <<crExists, spec, edits, creator>>

-----------------------------------------------------------------------------
Create(n) == /\ ~crExists
             /\ crExists' = TRUE
             /\ spec' = NoEntries
             /\ creator' = creator \cup {n}
             /\ UNCHANGED edits

\* The creator registers its node: all NUMA nodes, no placement.
Reset(n) == /\ n \in creator
            /\ spec' = Put(spec, n, MkEntry(NumaCount, NoPods))
            /\ creator' = creator \ {n}
            /\ UNCHANGED <<crExists, edits>>

\* The creator fails before it has registered.
GiveUp(n) == /\ n \in creator
             /\ creator' = creator \ {n}
             /\ UNCHANGED <<crExists, spec, edits>>

\* A load-balancing tick registers a node that has no entry.
Register(n) == /\ Policy[n] = "load_balance"
               /\ n \notin DOMAIN spec
               /\ spec' = Put(spec, n, MkEntry(NumaCount, NoPods))
               /\ UNCHANGED <<crExists, edits, creator>>

\* A network-affinity tick changes some placements and keeps the others.
Overlay(n, r) == /\ Policy[n] = "net_affinity"
                 /\ n \in DOMAIN spec
                 /\ spec' = PutAff(spec, n, Merge(r, spec[n].aff))
                 /\ UNCHANGED <<crExists, edits, creator>>

\* A load-balancing tick replaces all the placements, by whitelisted pods'.
Assign(n, m) == /\ Policy[n] = "load_balance"
                /\ DOMAIN m \subseteq Whitelist
                /\ n \in DOMAIN spec
                /\ spec' = PutAff(spec, n, m)
                /\ UNCHANGED <<crExists, edits, creator>>

\* A Deleted event removes one pod and nothing else.
Drop(n, p) == /\ n \in DOMAIN spec
              /\ spec' = PutAff(spec, n, Without(spec[n].aff, {p}))
              /\ UNCHANGED <<crExists, edits, creator>>

\* A user applies an entry, creating the object if need be.
Edit(n, e) == /\ spec' = Put(spec, n, e)
              /\ crExists' = TRUE
              /\ edits' = edits + 1
              /\ UNCHANGED creator

Init == /\ crExists = FALSE
        /\ spec = NoEntries
        /\ edits = 0
        /\ creator = {}

Next == \E n \in Node : \/ Create(n) \/ Reset(n) \/ GiveUp(n) \/ Register(n)
                        \/ \E m \in PodMap : Overlay(n, m) \/ Assign(n, m)
                        \/ \E p \in Pod : Drop(n, p)
                        \/ \E e \in Entry : Edit(n, e)

Spec == Init /\ [][Next]_storeVars
=============================================================================
