------------------------------ MODULE Metrics ------------------------------
(***************************************************************************)
(* pkg/prometheus/prometheus.go: the goroutine of the agent that publishes *)
(* the monitoring counters of the resctrl groups.  Every few seconds it    *)
(* lists the groups and then reads the counters of one after the other,    *)
(* while the watchers of the QoS configuration make and remove groups and  *)
(* the kernel counts.  The gauges stay in the memory of the process.       *)
(*                                                                         *)
(* A group is a directory, a counter a file of its mon_data directory,     *)
(* known by its metric and the domain in its directory's name.  The root   *)
(* directory is published under the label "total", which may also be the   *)
(* name of a group.                                                        *)
(***************************************************************************)
EXTENDS Naturals

CONSTANTS Group,    \* names of resctrl groups
          Root,     \* the root of the file system
          Total,    \* the label of the root
          Counter,  \* the counters of a directory
          Value,    \* what they count
          Bad,      \* a text that is no number ("Unavailable", "Error")
          None,     \* no gauge yet
          Faults    \* which of "read", "crash" may happen

ASSUME MetricsAssumption == /\ Root \notin Group /\ Root # Total
                            /\ Value \subseteq Nat
                            /\ Bad \notin Nat /\ None \notin Nat
                            /\ Faults \subseteq {"read", "crash"}

VARIABLES
    files,   \* directory -> counter -> the file's text
    gauge,   \* label -> counter -> value
    pc,      \* "wait" for the ticker, "next" directory, "read" a counter
    groups,  \* the groups the pass has listed
    todo,    \* the directories it has still to visit
    dir,     \* the one it visits
    rest,    \* the counters of it that are still to be read
    calm     \* history: the files that are as they were when the pass began,
             \*          and that no failed call of the pass concerned

vars == <<files, gauge, pc, groups, todo, dir, rest, calm>>
passVars == <<pc, groups, todo, dir, rest>>

Dir == Group \cup {Root}
LabelOf(d) == IF d = Root THEN Total ELSE d
Label == Group \cup {Total}
Text == Value \cup {Bad}
Files == (DOMAIN files) \X Counter

TypeOK == /\ DOMAIN files \subseteq Dir /\ Root \in DOMAIN files
          /\ \A d \in DOMAIN files : files[d] \in [Counter -> Text]
          /\ gauge \in [Label -> [Counter -> Nat \cup {None}]]
          /\ pc \in {"wait", "next", "read"}
          /\ groups \subseteq Group
          /\ todo \subseteq Dir
          /\ dir \in Dir
          /\ rest \subseteq Counter
          /\ calm \subseteq Files

-----------------------------------------------------------------------------
(* The file system                                                         *)

MakeGroup(g) == /\ g \notin DOMAIN files
                /\ \E f \in [Counter -> Text] :
                      files' = [d \in (DOMAIN files) \cup {g} |-> IF d = g THEN f ELSE files[d]]
                /\ UNCHANGED <<gauge, passVars, calm>>

RemoveGroup(g) == /\ g \in DOMAIN files
                  /\ files' = [d \in (DOMAIN files) \ {g} |-> files[d]]
                  /\ calm' = calm \ ({g} \X Counter)
                  /\ UNCHANGED <<gauge, passVars>>

Count(d, c, x) == /\ d \in DOMAIN files
                  /\ files[d][c] # x
                  /\ files' = [files EXCEPT ![d][c] = x]
                  /\ calm' = calm \ {<<d, c>>}
                  /\ UNCHANGED <<gauge, passVars>>

-----------------------------------------------------------------------------
(* The collector                                                           *)

\* collectMetrics lists the root directory and begins with the root itself.
collectMetrics == /\ pc = "wait"
                  /\ pc' = "next"
                  /\ groups' = (DOMAIN files) \ {Root}
                  /\ todo' = DOMAIN files
                  /\ calm' = Files
                  /\ UNCHANGED <<files, gauge, dir, rest>>

\* The directories that can be next: the root, and then the groups (in the order
\* of their names, which is any).
Turn == IF Root \in todo THEN {Root} ELSE todo

\* Mutant: a group that is gone ends the pass.
processGroupStops(d) ==
    /\ pc = "next"
    /\ d \in Turn
    /\ IF d \in DOMAIN files THEN pc' = "read" /\ rest' = Counter /\ todo' = todo \ {d}
                             ELSE todo' = {} /\ UNCHANGED <<pc, rest>>
    /\ dir' = d
    /\ UNCHANGED <<files, gauge, groups, calm>>

\* processGroup lists mon_data; a group that is gone is skipped.
processGroup(d) ==
    /\ pc = "next"
    /\ d \in Turn
    /\ dir' = d
    /\ todo' = todo \ {d}
    /\ IF d \in DOMAIN files THEN pc' = "read" /\ rest' = Counter
                             ELSE UNCHANGED <<pc, rest>>
    /\ UNCHANGED <<files, gauge, groups, calm>>

\* ParseFloat, whose error is ignored, returns 0 for a text that is no number.
ParseFloat(x) == IF x = Bad THEN 0 ELSE x

\* Mutant: the text is stored.
readCounterRaw(c) ==
    /\ pc = "read"
    /\ c \in rest
    /\ rest' = rest \ {c}
    /\ gauge' = IF dir \in DOMAIN files
                  THEN [gauge EXCEPT ![LabelOf(dir)][c] = files[dir][c]] ELSE gauge
    /\ UNCHANGED <<files, pc, groups, todo, dir, calm>>

\* One file is read and its gauge set.  If the file is gone the gauge stays.
readCounter(c) ==
    /\ pc = "read"
    /\ c \in rest
    /\ rest' = rest \ {c}
    /\ gauge' = IF dir \in DOMAIN files
                  THEN [gauge EXCEPT ![LabelOf(dir)][c] = ParseFloat(files[dir][c])]
                  ELSE gauge
    /\ UNCHANGED <<files, pc, groups, todo, dir, calm>>

\* A listing or a read fails: what it was for is skipped.
Fails == /\ "read" \in Faults
         /\ \/ /\ pc = "next"
               /\ \E d \in Turn : /\ todo' = todo \ {d}
                                  /\ calm' = calm \ ({d} \X Counter)
               /\ UNCHANGED rest
            \/ /\ pc = "read"
               /\ \E c \in rest : rest' = rest \ {c} /\ calm' = calm \ {<<dir, c>>}
               /\ UNCHANGED todo
         /\ UNCHANGED <<files, gauge, pc, groups, dir>>

GroupDone == /\ pc = "read"
             /\ rest = {}
             /\ pc' = "next"
             /\ UNCHANGED <<files, gauge, groups, todo, dir, rest, calm>>

PassDone == /\ pc = "next"
            /\ todo = {}
            /\ pc' = "wait"
            /\ UNCHANGED <<files, gauge, groups, todo, dir, rest, calm>>

\* The process ends, for instance because port 8000 is in use (klog.Fatal), and
\* is started again without gauges.
Ends == /\ "crash" \in Faults
        /\ pc' = "wait"
        /\ gauge' = [l \in Label |-> [c \in Counter |-> None]]
        /\ calm' = {}
        /\ groups' = {} /\ todo' = {} /\ rest' = {}
        /\ UNCHANGED <<files, dir>>

-----------------------------------------------------------------------------
Init == /\ files \in [{Root} -> [Counter -> Text]]
        /\ gauge = [l \in Label |-> [c \in Counter |-> None]]
        /\ pc = "wait"
        /\ groups = {} /\ todo = {} /\ rest = {}
        /\ dir = Root
        /\ calm = {}

FileSystem == \/ \E g \in Group : MakeGroup(g) \/ RemoveGroup(g)
              \/ \E d \in Dir, c \in Counter, x \in Text : Count(d, c, x)

Collector == \/ collectMetrics
             \/ \E d \in Dir : processGroup(d)
             \/ \E c \in Counter : readCounter(c)
             \/ GroupDone \/ PassDone
             \/ Fails \/ Ends

Next == FileSystem \/ Collector

Spec == Init /\ [][Next]_vars

-----------------------------------------------------------------------------
(* Properties                                                              *)

\* After a pass every counter that did not change while it ran, and for which no
\* call failed, is in its own gauge, whatever other groups came and went in the
\* meantime.  Only a group called "total" hides the root.
PassComplete ==
    pc = "wait" => \A f \in calm : LET d == f[1]
                                       c == f[2]
                                   IN \/ gauge[LabelOf(d)][c] = ParseFloat(files[d][c])
                                      \/ d = Root /\ Total \in groups
=============================================================================
