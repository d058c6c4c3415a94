---------------------------- MODULE OenumaProps ----------------------------
(***************************************************************************)
(* Properties of OenumaAgent, and the invariants their proofs need.        *)
(***************************************************************************)
EXTENDS OenumaAgent

\* A pod of a's entry is still there, or its deletion is on its way to a.
Accounted(a, p) == p \in Live(a) \cup Queued(a) \cup del[a] \cup lost[a]

\* The pods placed in n's entry of s.
Placed(s, n) == IF n \in DOMAIN s THEN DOMAIN s[n].aff ELSE {}

\* A pod deleted from its node stays in the node's entry only while its
\* Deleted event waits in the agent's channel or is being handled, unless that
\* event was lost to a dead watch, a crash or a refused update
\* (deleteObsoletePodsInCr against the two ticks that rewrite the entry).
ObsoleteAccounted == \A a \in Node : \A p \in Placed(spec, a) : Accounted(a, p)

\* A handler whose copy has the object's current version holds the object's
\* current value, so its update cannot undo another agent's.
FreshCopy == \A a \in fresh : crExists /\ un[a] = spec

\* What a handler's state holds from its GET to its return.
HandlerOK(a) ==
    /\ a \in fresh => pc[a] \in {"setupWrite", "ask", "write", "del"}
    /\ pc[a] \notin {"setupWrite", "ask", "write", "del"} => un[a] = NoEntries
    /\ pc[a] # "write" => plan[a] = NoPods
    /\ pc[a] # "del" => del[a] = {}
    /\ pc[a] = "del" => \E p \in Pod : del[a] = {p}
    /\ pc[a] = "del" \/ (pc[a] \in {"ask", "write"} /\ Policy[a] = "net_affinity")
          => a \in DOMAIN un[a]
    /\ Policy[a] = "load_balance" => DOMAIN plan[a] \subseteq Whitelist

\* An event of a channel is about one pod.
EventsOK(q) == \A i \in 1 .. Len(q) : q[i] = {} \/ \E p \in Pod : q[i] = {p}

HandlerState == \A a \in Node : HandlerOK(a) /\ EventsOK(podEv[a])

\* No object, no entry.
NoObject == ~crExists => spec = NoEntries

\* An ended process has no watch and no channel.
DownClean == \A a \in Node : pc[a] = "down" => a \notin watching /\ podEv[a] = <<>>

CopiesAccounted ==
    \A a \in Node : \A p \in Placed(un[a], a) \cup DOMAIN plan[a] : Accounted(a, p)

IndInv == /\ TypeOK
          /\ FreshCopy
          /\ HandlerState
          /\ DownClean
          /\ NoObject
          /\ ObsoleteAccounted
          /\ CopiesAccounted

\* n's entry of s, as a set
EntryOf(s, n) == IF n \in DOMAIN s THEN {s[n]} ELSE {}

\* Only a node's own agent, or a user, changes the node's entry: the whole-object
\* updates of the other agents leave it as it is (UpdateConfigCrd).
OnlyOwnerWrites ==
    [][\A n \in Node : EntryOf(spec', n) # EntryOf(spec, n)
                          => pc[n] # pc'[n] \/ edits # edits']_vars

\* Pod p is placed in a's entry and does not run on the node.
Stale(a, p) == p \in Placed(spec, a) \ Live(a)

\* Unless its Deleted event is lost, a deleted pod leaves the entry: the event
\* is handled although ticks, other pods' events and the other agents' updates
\* come between (the select loop of Start, deleteObsoletePodsInCr).
ObsoleteHandled ==
    \A a \in Node, p \in Pod :
        Stale(a, p) /\ p \notin lost[a] ~> ~Stale(a, p) \/ p \in lost[a]

\* A load-balancing tick rebuilds all the placements, so it ends the stale ones
\* the pod events did not, however many events were lost (updateByLoadBalancing).
LoadBalanceHeals ==
    \A a \in {n \in Node : Policy[n] = "load_balance"}, p \in Pod :
        wlExists /\ Stale(a, p) ~> ~Stale(a, p)

\* Once the object exists, the ticks of a network-affinity agent see to its node's
\* entry: "if a pod of the worker node is adjusted for the first time, create a
\* Node to maintain its content and state" (agent.go:461, above an error return).
FirstAdjustment ==
    \A a \in Node : Policy[a] = "net_affinity" /\ crExists /\ pc[a] = "ready"
                       ~> a \in DOMAIN spec

\* The agent that created the object and has not added its entry yet
Creator == {n \in Node : pc[n] \in {"setup", "setupWrite"}}

\* The read-modify-write cycles look like atomic changes of one entry, computed
\* from its current value; placements are reset by the object's creator only.
Store == INSTANCE OenumaStore WITH creator <- Creator
ImplementsStore == Store!Spec
=============================================================================
