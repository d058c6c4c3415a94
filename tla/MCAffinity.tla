----------------------------- MODULE MCAffinity ----------------------------
(* Small requests, reports and groups. *)
EXTENDS AffinityServer

\* One thread each; the fourth pod is one too many for fa.
OneEach == <<{1}, {2}, {3}, {4}>>
NetReports == {<< <<1, 3>>, <<2, 3>> >>, << <<2, 1>> >>}
KernelGids == {[t \in 1 .. 4 |-> IF t = 2 THEN 1 ELSE None],
               [t \in 1 .. 4 |-> CASE t = 1 -> 3 [] t = 3 -> 2 [] OTHER -> None]}
\* One machine has a NUMA node with more CPUs than the array holds.
TwoNodes == [k \in {"netrela", "numafast"} |->
               IF k = "netrela" THEN [n \in 0 .. 1 |-> IF n = 0 THEN {0, 1, 2} ELSE {3}]
                                ELSE [n \in 0 .. 1 |-> {2 * n, 2 * n + 1}]]
MaxCalls == [k \in {"netrela", "numafast"} |-> IF k = "netrela" THEN 1 ELSE 2]
=============================================================================
