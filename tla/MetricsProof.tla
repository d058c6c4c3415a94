---------------------------- MODULE MetricsProof ----------------------------
(***************************************************************************)
(* Proofs about Metrics, for any groups, counters and values.              *)
(***************************************************************************)
EXTENDS Metrics, TLAPS

-----------------------------------------------------------------------------
(* What makes PassComplete inductive                                       *)

\* The pass visits the root first and then groups it has listed.
Ordered == /\ todo \subseteq groups \cup {Root}
           /\ pc = "read" => dir \in groups \cup {Root}
           /\ Root \in todo \/ (pc = "read" /\ dir = Root) => groups \subseteq todo
           /\ pc = "wait" => todo = {}
           /\ \A f \in calm : f[1] \in groups \cup {Root}

\* The counter is still to be read.
Waits(d, c) == \/ d \in todo
               \/ pc = "read" /\ dir = d /\ c \in rest

Right(d, c) == gauge[LabelOf(d)][c] = ParseFloat(files[d][c])

\* A calm file waits to be read or is in its gauge.
Covered == \A d \in Dir, c \in Counter :
              <<d, c>> \in calm => \/ Waits(d, c)
                                   \/ Right(d, c)
                                   \/ d = Root /\ Total \in groups

MetricsInv == TypeOK /\ Ordered /\ Covered

-----------------------------------------------------------------------------
(* The file system's steps                                                 *)

\* A file that is calm after a step was calm before, and is the same.
LEMMA OutsideKeeps ==
    ASSUME MetricsInv,
           UNCHANGED <<gauge, passVars>>,
           calm' \subseteq calm,
           \A d \in Dir, c \in Counter : <<d, c>> \in calm' => files'[d][c] = files[d][c]
    PROVE  Ordered' /\ Covered'
<1>1. Ordered'
  BY DEF MetricsInv, Ordered, passVars
<1>2. ASSUME NEW d \in Dir, NEW c \in Counter, <<d, c>> \in calm'
      PROVE  Waits(d, c)' \/ Right(d, c)' \/ (d = Root /\ Total \in groups')
  <2>1. Waits(d, c) \/ Right(d, c) \/ (d = Root /\ Total \in groups)
    BY <1>2 DEF MetricsInv, Covered
  <2>2. files'[d][c] = files[d][c]
    BY <1>2
  <2> QED BY <2>1, <2>2 DEF Waits, Right, passVars
<1> QED BY <1>1, <1>2 DEF Covered

LEMMA MakeGroupKeeps ==
    ASSUME MetricsInv, NEW g \in Group, MakeGroup(g)
    PROVE  MetricsInv'
<1>1. PICK f \in [Counter -> Text] :
         files' = [d \in (DOMAIN files) \cup {g} |-> IF d = g THEN f ELSE files[d]]
  BY DEF MakeGroup
<1>2. /\ DOMAIN files' = (DOMAIN files) \cup {g} /\ g \notin DOMAIN files
      /\ \A d \in DOMAIN files : files'[d] = files[d]
      /\ files'[g] = f
  BY <1>1 DEF MakeGroup
<1>3. TypeOK'
  <2>1. \A d \in DOMAIN files' : files'[d] \in [Counter -> Text]
    BY <1>2 DEF MetricsInv, TypeOK
  <2>2. DOMAIN files' \subseteq Dir /\ Root \in DOMAIN files'
    BY <1>2 DEF MetricsInv, TypeOK, Dir
  <2>3. calm' \subseteq Files'
    BY <1>2 DEF MetricsInv, TypeOK, Files, MakeGroup
  <2> QED BY <2>1, <2>2, <2>3 DEF MetricsInv, TypeOK, MakeGroup, passVars
<1>4. \A d \in Dir, c \in Counter : <<d, c>> \in calm' => files'[d][c] = files[d][c]
  BY <1>2 DEF MetricsInv, TypeOK, Files, MakeGroup
<1>5. UNCHANGED <<gauge, passVars>> /\ calm' \subseteq calm
  BY DEF MakeGroup
<1> QED BY <1>3, <1>4, <1>5, OutsideKeeps DEF MetricsInv

LEMMA RemoveGroupKeeps ==
    ASSUME MetricsInv, NEW g \in Group, RemoveGroup(g)
    PROVE  MetricsInv'
<1>1. /\ DOMAIN files' = (DOMAIN files) \ {g}
      /\ \A d \in (DOMAIN files) \ {g} : files'[d] = files[d]
      /\ calm' = calm \ ({g} \X Counter)
  BY DEF RemoveGroup
<1>2. g # Root
  BY MetricsAssumption
<1>3. TypeOK'
  <2>1. calm' \subseteq Files'
    BY <1>1 DEF MetricsInv, TypeOK, Files
  <2> QED BY <1>1, <1>2, <2>1 DEF MetricsInv, TypeOK, RemoveGroup, passVars
<1>4. \A d \in Dir, c \in Counter : <<d, c>> \in calm' => files'[d][c] = files[d][c]
  BY <1>1 DEF MetricsInv, TypeOK, Files
<1>5. UNCHANGED <<gauge, passVars>> /\ calm' \subseteq calm
  BY <1>1 DEF RemoveGroup
<1> QED BY <1>3, <1>4, <1>5, OutsideKeeps DEF MetricsInv

LEMMA CountKeeps ==
    ASSUME MetricsInv, NEW g \in Dir, NEW b \in Counter, NEW x \in Text, Count(g, b, x)
    PROVE  MetricsInv'
<1>1. /\ g \in DOMAIN files
      /\ files' = [files EXCEPT ![g][b] = x]
      /\ calm' = calm \ {<<g, b>>}
  BY DEF Count
<1>2. \A d \in DOMAIN files : files[d] \in [Counter -> Text]
  BY DEF MetricsInv, TypeOK
<1>3. /\ DOMAIN files' = DOMAIN files
      /\ \A d \in DOMAIN files : files'[d] \in [Counter -> Text]
      /\ \A d \in DOMAIN files, c \in Counter :
            d # g \/ c # b => files'[d][c] = files[d][c]
  BY <1>1, <1>2
<1>4. TypeOK'
  BY <1>1, <1>3 DEF MetricsInv, TypeOK, Count, passVars, Files
<1>5. \A d \in Dir, c \in Counter : <<d, c>> \in calm' => files'[d][c] = files[d][c]
  BY <1>1, <1>3 DEF MetricsInv, TypeOK, Files
<1>6. UNCHANGED <<gauge, passVars>> /\ calm' \subseteq calm
  BY <1>1 DEF Count
<1> QED BY <1>4, <1>5, <1>6, OutsideKeeps DEF MetricsInv

-----------------------------------------------------------------------------
(* The collector's steps                                                   *)

\* All files are calm and wait.
LEMMA CollectKeeps == ASSUME MetricsInv, collectMetrics PROVE MetricsInv'
<1>1. TypeOK'
  BY DEF MetricsInv, TypeOK, collectMetrics, Dir, Files
<1>2. Ordered'
  <2>1. \A f \in calm' : f[1] \in groups' \cup {Root}
    BY DEF collectMetrics, Files
  <2>2. todo' = (DOMAIN files) /\ groups' = (DOMAIN files) \ {Root} /\ pc' = "next"
    BY DEF collectMetrics
  <2> QED BY <2>1, <2>2 DEF Ordered
<1>3. Covered'
  BY DEF collectMetrics, Covered, Waits, Files
<1> QED BY <1>1, <1>2, <1>3 DEF MetricsInv

\* A directory that is there is read next; one that is not has no calm files.
LEMMA ProcessKeeps == ASSUME MetricsInv, NEW g \in Dir, processGroup(g) PROVE MetricsInv'
<1>1. /\ pc = "next" /\ g \in todo /\ (Root \in todo => g = Root)
      /\ dir' = g /\ todo' = todo \ {g}
      /\ IF g \in DOMAIN files THEN pc' = "read" /\ rest' = Counter
                               ELSE pc' = pc /\ rest' = rest
      /\ UNCHANGED <<files, gauge, groups, calm>>
  BY DEF processGroup, Turn
<1>2. TypeOK'
  BY <1>1 DEF MetricsInv, TypeOK, Files
<1>3. Ordered'
  BY <1>1, MetricsAssumption DEF MetricsInv, Ordered, TypeOK
<1>4. ASSUME NEW d \in Dir, NEW c \in Counter, <<d, c>> \in calm'
      PROVE  Waits(d, c)' \/ Right(d, c)' \/ (d = Root /\ Total \in groups')
  <2>1. Waits(d, c) \/ Right(d, c) \/ (d = Root /\ Total \in groups)
    BY <1>1, <1>4 DEF MetricsInv, Covered
  <2>2. d \in DOMAIN files
    BY <1>1, <1>4 DEF MetricsInv, TypeOK, Files
  <2>3. Waits(d, c) => Waits(d, c)'
    BY <1>1, <2>2 DEF Waits
  <2>4. Right(d, c) => Right(d, c)'
    BY <1>1 DEF Right
  <2> QED BY <1>1, <2>1, <2>3, <2>4
<1> QED BY <1>2, <1>3, <1>4 DEF MetricsInv, Covered

\* The gauge is right now.  It was another directory's only if that is the root and
\* a group has its label.
LEMMA ReadKeeps == ASSUME MetricsInv, NEW b \in Counter, readCounter(b) PROVE MetricsInv'
<1>1. /\ pc = "read" /\ b \in rest /\ rest' = rest \ {b}
      /\ gauge' = IF dir \in DOMAIN files
                    THEN [gauge EXCEPT ![LabelOf(dir)][b] = ParseFloat(files[dir][b])]
                    ELSE gauge
      /\ UNCHANGED <<files, pc, groups, todo, dir, calm>>
  BY DEF readCounter
<1>2. LabelOf(dir) \in Label /\ \A d \in Dir : LabelOf(d) \in Label
  BY DEF MetricsInv, TypeOK, LabelOf, Label, Dir
<1>3. dir \in DOMAIN files => ParseFloat(files[dir][b]) \in Nat
  <2> SUFFICES ASSUME dir \in DOMAIN files PROVE ParseFloat(files[dir][b]) \in Nat
    OBVIOUS
  <2>1. files[dir][b] \in Text
    BY DEF MetricsInv, TypeOK
  <2> QED BY <2>1, MetricsAssumption DEF ParseFloat, Text
<1>4. gauge \in [Label -> [Counter -> Nat \cup {None}]]
  BY DEF MetricsInv, TypeOK
<1>5. gauge' \in [Label -> [Counter -> Nat \cup {None}]]
  BY <1>1, <1>2, <1>3, <1>4
<1>6. \A l \in Label, c \in Counter :
         gauge'[l][c] = IF dir \in DOMAIN files /\ l = LabelOf(dir) /\ c = b
                          THEN ParseFloat(files[dir][b]) ELSE gauge[l][c]
  BY <1>1, <1>2, <1>4
<1>7. TypeOK'
  BY <1>1, <1>5 DEF MetricsInv, TypeOK, Files
<1>8. Ordered'
  BY <1>1 DEF MetricsInv, Ordered
<1>9. ASSUME NEW d \in Dir, NEW c \in Counter, <<d, c>> \in calm'
      PROVE  Waits(d, c)' \/ Right(d, c)' \/ (d = Root /\ Total \in groups')
  <2>1. Waits(d, c) \/ Right(d, c) \/ (d = Root /\ Total \in groups)
    BY <1>1, <1>9 DEF MetricsInv, Covered
  <2>2. d \in DOMAIN files /\ d \in groups \cup {Root}
    BY <1>1, <1>9 DEF MetricsInv, TypeOK, Ordered, Files
  <2>3. CASE d = dir /\ c = b
    BY <1>1, <1>2, <1>6, <2>2, <2>3 DEF Right
  <2>4. CASE ~(d = dir /\ c = b) /\ Waits(d, c)
    BY <1>1, <2>4 DEF Waits
  <2>5. CASE ~(d = dir /\ c = b) /\ Right(d, c)
    <3>1. CASE c # b \/ LabelOf(d) # LabelOf(dir)
      BY <1>1, <1>2, <1>6, <2>5, <3>1 DEF Right
    <3>2. CASE d # dir /\ LabelOf(d) = LabelOf(dir)
      <4>1. CASE d = Root
        BY <1>1, <3>2, <4>1 DEF LabelOf, MetricsInv, Ordered
      <4>2. CASE dir = Root
        BY <1>1, <2>2, <3>2, <4>2 DEF LabelOf, MetricsInv, Ordered, Waits
      <4>3. CASE d # Root /\ dir # Root
        BY <3>2, <4>3 DEF LabelOf
      <4> QED BY <4>1, <4>2, <4>3
    <3> QED BY <2>5, <3>1, <3>2
  <2> QED BY <1>1, <2>1, <2>3, <2>4, <2>5
<1> QED BY <1>7, <1>8, <1>9 DEF MetricsInv, Covered

\* What is skipped is not calm any more.
LEMMA FailsKeeps == ASSUME MetricsInv, Fails PROVE MetricsInv'
<1>1. UNCHANGED <<files, gauge, pc, groups, dir>>
  BY DEF Fails
<1>2. CASE /\ pc = "next" /\ rest' = rest
           /\ \E d \in Turn : todo' = todo \ {d} /\ calm' = calm \ ({d} \X Counter)
  <2>1. PICK g \in Turn : todo' = todo \ {g} /\ calm' = calm \ ({g} \X Counter)
    BY <1>2
  <2>2. g \in todo /\ (Root \in todo => g = Root)
    BY DEF Turn
  <2>3. TypeOK'
    BY <1>1, <1>2, <2>1 DEF MetricsInv, TypeOK, Files
  <2>4. Ordered'
    BY <1>1, <1>2, <2>1, <2>2 DEF MetricsInv, Ordered
  <2>5. Covered'
    BY <1>1, <1>2, <2>1 DEF MetricsInv, Covered, Waits, Right
  <2> QED BY <2>3, <2>4, <2>5 DEF MetricsInv
<1>3. CASE /\ pc = "read" /\ todo' = todo
           /\ \E c \in rest : rest' = rest \ {c} /\ calm' = calm \ {<<dir, c>>}
  <2>1. PICK b \in rest : rest' = rest \ {b} /\ calm' = calm \ {<<dir, b>>}
    BY <1>3
  <2>2. TypeOK'
    BY <1>1, <1>3, <2>1 DEF MetricsInv, TypeOK, Files
  <2>3. Ordered'
    BY <1>1, <1>3, <2>1 DEF MetricsInv, Ordered
  <2>4. Covered'
    BY <1>1, <1>3, <2>1 DEF MetricsInv, Covered, Waits, Right
  <2> QED BY <2>2, <2>3, <2>4 DEF MetricsInv
<1> QED BY <1>2, <1>3 DEF Fails

\* A directory, or the pass, ends when nothing of it waits.
LEMMA DoneKeeps == ASSUME MetricsInv, GroupDone \/ PassDone PROVE MetricsInv'
<1>1. UNCHANGED <<files, gauge, groups, todo, dir, rest, calm>>
  BY DEF GroupDone, PassDone
<1>2. \/ pc = "read" /\ rest = {} /\ pc' = "next"
      \/ pc = "next" /\ todo = {} /\ pc' = "wait"
  BY DEF GroupDone, PassDone
<1>3. TypeOK'
  BY <1>1, <1>2 DEF MetricsInv, TypeOK, Files
<1>4. Ordered'
  BY <1>1, <1>2 DEF MetricsInv, Ordered
<1>5. Covered'
  BY <1>1, <1>2 DEF MetricsInv, Covered, Waits, Right
<1> QED BY <1>3, <1>4, <1>5 DEF MetricsInv

\* A new process has nothing to cover.
LEMMA EndsKeeps == ASSUME MetricsInv, Ends PROVE MetricsInv'
<1>1. TypeOK'
  BY DEF MetricsInv, TypeOK, Ends, Files
<1>2. Ordered' /\ Covered'
  BY DEF Ordered, Covered, Ends
<1> QED BY <1>1, <1>2 DEF MetricsInv

-----------------------------------------------------------------------------
(* The theorems                                                            *)

LEMMA MetricsInit == Init => MetricsInv
<1> SUFFICES ASSUME Init PROVE MetricsInv
  OBVIOUS
<1>1. TypeOK
  BY DEF Init, TypeOK, Dir, Files
<1>2. Ordered /\ Covered
  BY DEF Init, Ordered, Covered
<1> QED BY <1>1, <1>2 DEF MetricsInv

LEMMA MetricsStep == MetricsInv /\ [Next]_vars => MetricsInv'
<1> SUFFICES ASSUME MetricsInv, [Next]_vars PROVE MetricsInv'
  OBVIOUS
<1>1. ASSUME NEW g \in Group, MakeGroup(g) PROVE MetricsInv'
  BY <1>1, MakeGroupKeeps
<1>2. ASSUME NEW g \in Group, RemoveGroup(g) PROVE MetricsInv'
  BY <1>2, RemoveGroupKeeps
<1>3. ASSUME NEW d \in Dir, NEW c \in Counter, NEW x \in Text, Count(d, c, x)
      PROVE  MetricsInv'
  BY <1>3, CountKeeps
<1>4. CASE collectMetrics
  BY <1>4, CollectKeeps
<1>5. ASSUME NEW d \in Dir, processGroup(d) PROVE MetricsInv'
  BY <1>5, ProcessKeeps
<1>6. ASSUME NEW c \in Counter, readCounter(c) PROVE MetricsInv'
  BY <1>6, ReadKeeps
<1>7. CASE Fails
  BY <1>7, FailsKeeps
<1>8. CASE GroupDone \/ PassDone
  BY <1>8, DoneKeeps
<1>9. CASE Ends
  BY <1>9, EndsKeeps
<1>10. CASE UNCHANGED vars
  BY <1>10 DEF MetricsInv, TypeOK, Ordered, Covered, Waits, Right, Files, vars, passVars
<1> QED BY <1>1, <1>2, <1>3, <1>4, <1>5, <1>6, <1>7, <1>8, <1>9, <1>10
        DEF Next, FileSystem, Collector

LEMMA MetricsInvariant == Spec => []MetricsInv
BY MetricsInit, MetricsStep, PTL DEF Spec

\* A gauge holds a number or nothing, and only files that exist are calm.
THEOREM MetricsTypeOK == Spec => []TypeOK
<1>1. MetricsInv => TypeOK
  BY DEF MetricsInv
<1> QED BY <1>1, MetricsInvariant, PTL

\* A pass publishes every counter that kept still, in its own gauge, although
\* groups are made and removed while it runs.
THEOREM PassIsComplete == Spec => []PassComplete
<1>1. MetricsInv => PassComplete
  <2> SUFFICES ASSUME MetricsInv, pc = "wait", NEW f \in calm
               PROVE  \/ gauge[LabelOf(f[1])][f[2]] = ParseFloat(files[f[1]][f[2]])
                      \/ f[1] = Root /\ Total \in groups
    BY DEF PassComplete
  <2>1. PICK d \in Dir, c \in Counter : f = <<d, c>>
    BY DEF MetricsInv, TypeOK, Files
  <2>2. ~Waits(d, c)
    BY DEF MetricsInv, Ordered, Waits
  <2> QED BY <2>1, <2>2 DEF MetricsInv, Covered, Right
<1> QED BY <1>1, MetricsInvariant, PTL

=============================================================================
