-------------------------- MODULE ObjectWatchProof --------------------------
(***************************************************************************)
(* Proofs about ObjectWatch, for every channel size, number of objects and *)
(* bound.                                                                  *)
(***************************************************************************)
EXTENDS ObjectWatch, TLAPS

\* Nothing on its way to the reader is newer than the store.
NotNewer == \A i \in DOMAIN Pipeline : Pipeline[i] <= ver

\* The timer is never armed; a stopped stream has no events.
Stopped == ~reopenC /\ (wif = "nil" => stream = <<>>)

WatchInv == TypeOK /\ InOrder /\ NotNewer /\ OpenIsCurrent /\ Stopped

Size == Len(resultC) + Len(stream)

\* The pipeline's entries are versions, or the Error event.
LEMMA PipelineType ==
    ASSUME TypeOK
    PROVE  /\ Size \in Nat /\ DOMAIN Pipeline = 0 .. Size
           /\ \A i \in 0 .. Size : Pipeline[i] \in Nat
           /\ ver \in Nat
<1>1. /\ Len(resultC) \in Nat /\ Len(stream) \in Nat
      /\ \A i \in 1 .. Len(resultC) : resultC[i] \in Nat
      /\ \A i \in 1 .. Len(stream) : stream[i] \in Nat
      /\ seen \in Nat /\ ver \in Nat
  BY WatchAssumption DEF TypeOK
<1> QED BY <1>1 DEF Pipeline, Size

\* The same after a step.
LEMMA PipelineTypeNext ==
    ASSUME TypeOK'
    PROVE  /\ Size' \in Nat /\ DOMAIN Pipeline' = 0 .. Size'
           /\ \A i \in 0 .. Size' : Pipeline'[i] \in Nat
           /\ ver' \in Nat
<1>1. /\ Len(resultC') \in Nat /\ Len(stream') \in Nat
      /\ \A i \in 1 .. Len(resultC') : resultC'[i] \in Nat
      /\ \A i \in 1 .. Len(stream') : stream'[i] \in Nat
      /\ seen' \in Nat /\ ver' \in Nat
  BY WatchAssumption DEF TypeOK
<1> QED BY <1>1 DEF Pipeline, Size

\* A step that drops entries, repeats them, turns them into Error events or adds
\* the newest version behind them keeps the order.  Entry i before place m comes
\* from entry g[i].
LEMMA Rearranged ==
    ASSUME TypeOK, TypeOK', InOrder, NotNewer, ver <= ver',
           NEW g \in [0 .. Size' -> 0 .. Size], NEW m \in Nat,
           \A i, j \in 0 .. Size' : i <= j => g[i] <= g[j],
           \A i \in 0 .. Size' :
              \/ Pipeline'[i] = Error
              \/ i < m /\ Pipeline'[i] = Pipeline[g[i]]
              \/ i >= m /\ Pipeline'[i] = ver'
    PROVE  InOrder' /\ NotNewer'
<1>1. /\ Size \in Nat /\ DOMAIN Pipeline = 0 .. Size
      /\ \A i \in 0 .. Size : Pipeline[i] \in Nat
      /\ ver \in Nat
  BY PipelineType
<1>2. /\ Size' \in Nat /\ DOMAIN Pipeline' = 0 .. Size'
      /\ \A i \in 0 .. Size' : Pipeline'[i] \in Nat
      /\ ver' \in Nat
  BY PipelineTypeNext
<1>3. \A i \in 0 .. Size' : Pipeline'[i] <= ver'
  <2> SUFFICES ASSUME NEW i \in 0 .. Size' PROVE Pipeline'[i] <= ver'
    OBVIOUS
  <2>1. g[i] \in 0 .. Size
    OBVIOUS
  <2>2. Pipeline[g[i]] <= ver /\ Pipeline[g[i]] \in Nat
    BY <2>1, <1>1 DEF NotNewer
  <2>3. CASE Pipeline'[i] = Error
    BY <2>3, <1>2 DEF Error
  <2>4. CASE Pipeline'[i] = Pipeline[g[i]]
    BY <2>2, <2>4, <1>1, <1>2
  <2>5. CASE Pipeline'[i] = ver'
    BY <2>5, <1>2
  <2> QED BY <2>3, <2>4, <2>5
<1>4. ASSUME NEW i \in 0 .. Size', NEW j \in 0 .. Size',
             i <= j, Pipeline'[i] # Error, Pipeline'[j] # Error
      PROVE  Pipeline'[i] <= Pipeline'[j]
  <2>1. CASE j >= m
    <3>1. Pipeline'[j] = ver' /\ Pipeline'[i] <= ver'
      BY <2>1, <1>2, <1>3, <1>4
    <3> QED BY <3>1
  <2>2. CASE j < m
    <3>1. i < m
      BY <2>2, <1>2, <1>4
    <3>2. Pipeline'[i] = Pipeline[g[i]] /\ Pipeline'[j] = Pipeline[g[j]]
      BY <3>1, <2>2, <1>2, <1>4
    <3>3. g[i] \in 0 .. Size /\ g[j] \in 0 .. Size /\ g[i] <= g[j]
      BY <1>4
    <3> QED BY <3>2, <3>3, <1>1, <1>4 DEF InOrder
  <2> QED BY <2>1, <2>2, <1>2
<1> QED BY <1>2, <1>3, <1>4 DEF InOrder, NotNewer

-----------------------------------------------------------------------------
(* The steps                                                               *)

\* One entry of the pipeline, with the definitions it needs.
LEMMA Entries ==
    ASSUME TypeOK
    PROVE  /\ Pipeline[0] = seen
           /\ \A i \in 1 .. Len(resultC) : Pipeline[i] = resultC[i]
           /\ \A i \in 1 .. Len(stream) : Pipeline[Len(resultC) + i] = stream[i]
<1>1. Len(resultC) \in Nat /\ Len(stream) \in Nat
  BY DEF TypeOK
<1> QED BY <1>1 DEF Pipeline

\* A new version is appended to an open stream.
LEMMA UpdateKeeps == ASSUME WatchInv, Update PROVE WatchInv'
<1> DEFINE g == [i \in 0 .. Size' |-> IF i <= Size THEN i ELSE Size]
<1>0. ver + 1 \in 0 .. MaxVer /\ stream \in Seq(0 .. MaxVer)
  BY WatchAssumption DEF WatchInv, TypeOK, Update
<1>1. TypeOK'
  <2>1. stream' \in Seq(0 .. MaxVer)
    <3>1. Append(stream, ver + 1) \in Seq(0 .. MaxVer)
      BY <1>0
    <3> QED BY <1>0, <3>1 DEF Update
  <2> QED BY <1>0, <2>1, WatchAssumption DEF WatchInv, TypeOK, Update
<1>2. /\ Len(resultC) \in Nat /\ Len(stream) \in Nat /\ ver \in Nat
      /\ resultC' = resultC /\ seen' = seen /\ ver' = ver + 1
      /\ Len(stream') \in {Len(stream), Len(stream) + 1}
      /\ \A i \in 1 .. Len(stream) : stream'[i] = stream[i]
      /\ Len(stream') = Len(stream) + 1 => stream'[Len(stream) + 1] = ver'
      /\ wif = "open" => Len(stream') = Len(stream) + 1
  <2>1. CASE wif = "open"
    <3>1. stream' = Append(stream, ver + 1)
      BY <2>1 DEF Update
    <3> QED BY <1>0, <2>1, <3>1, WatchAssumption DEF WatchInv, TypeOK, Update
  <2>2. CASE wif # "open"
    BY <1>0, <2>2, WatchAssumption DEF WatchInv, TypeOK, Update
  <2> QED BY <2>1, <2>2
<1>3. /\ Size \in Nat /\ Size' \in {Size, Size + 1}
      /\ \A i \in 0 .. Size : Pipeline'[i] = Pipeline[i]
      /\ Size' = Size + 1 => Pipeline'[Size + 1] = ver'
  <2>1. CASE Len(stream') = Len(stream)
    BY <1>2, <2>1 DEF Size, Pipeline
  <2>2. CASE Len(stream') = Len(stream) + 1
    BY <1>2, <2>2 DEF Size, Pipeline
  <2> QED BY <1>2, <2>1, <2>2
<1>4. /\ g \in [0 .. Size' -> 0 .. Size]
      /\ \A i, j \in 0 .. Size' : i <= j => g[i] <= g[j]
      /\ \A i \in 0 .. Size' : \/ i < Size + 1 /\ Pipeline'[i] = Pipeline[g[i]]
                               \/ i >= Size + 1 /\ Pipeline'[i] = ver'
  BY <1>3
<1> HIDE DEF g
<1>5. InOrder' /\ NotNewer'
  <2>1. Size + 1 \in Nat /\ ver <= ver'
    BY <1>2, <1>3
  <2> QED BY <1>1, <1>4, <2>1, Rearranged DEF WatchInv
<1>6. OpenIsCurrent'
  BY <1>2, <1>3 DEF OpenIsCurrent, Update, Size
<1>7. Stopped'
  BY DEF WatchInv, Stopped, Update
<1> QED BY <1>1, <1>5, <1>6, <1>7 DEF WatchInv

\* An expiring stream gets at most an Error event.
LEMMA ExpireKeeps == ASSUME WatchInv, Expire PROVE WatchInv'
<1> DEFINE g == [i \in 0 .. Size' |-> IF i <= Size THEN i ELSE Size]
<1>1. TypeOK'
  <2>1. stream \in Seq(0 .. MaxVer) /\ Error \in 0 .. MaxVer /\ closes + 1 \in 0 .. MaxCloses
    BY WatchAssumption DEF WatchInv, TypeOK, Expire, Error
  <2>2. Append(stream, Error) \in Seq(0 .. MaxVer)
    BY <2>1
  <2>3. stream' = stream \/ stream' = Append(stream, Error)
    BY DEF Expire
  <2>4. stream' \in Seq(0 .. MaxVer)
    BY <2>1, <2>2, <2>3
  <2>5. QED
    BY <2>1, <2>4 DEF WatchInv, TypeOK, Expire
<1>2. /\ Len(resultC) \in Nat /\ Len(stream) \in Nat
      /\ resultC' = resultC /\ seen' = seen /\ ver' = ver /\ ver \in Nat
      /\ Len(stream') \in {Len(stream), Len(stream) + 1}
      /\ \A i \in 1 .. Len(stream) : stream'[i] = stream[i]
      /\ Len(stream') = Len(stream) + 1 => stream'[Len(stream) + 1] = Error
  BY WatchAssumption DEF WatchInv, TypeOK, Expire
<1>3. /\ Size \in Nat /\ Size' \in {Size, Size + 1}
      /\ \A i \in 0 .. Size : Pipeline'[i] = Pipeline[i]
      /\ Size' = Size + 1 => Pipeline'[Size + 1] = Error
  BY <1>2, SMTT(30) DEF Size, Pipeline
<1>4. /\ g \in [0 .. Size' -> 0 .. Size]
      /\ \A i, j \in 0 .. Size' : i <= j => g[i] <= g[j]
      /\ \A i \in 0 .. Size' : \/ Pipeline'[i] = Error
                               \/ i < Size + 1 /\ Pipeline'[i] = Pipeline[g[i]]
  BY <1>3
<1> HIDE DEF g
<1>5. InOrder' /\ NotNewer'
  <2>1. Size + 1 \in Nat /\ ver <= ver'
    BY <1>2, <1>3
  <2> QED BY <1>1, <1>4, <2>1, Rearranged DEF WatchInv
<1>6. OpenIsCurrent' /\ Stopped'
  BY DEF WatchInv, OpenIsCurrent, Stopped, Expire
<1> QED BY <1>1, <1>5, <1>6 DEF WatchInv

\* A new stream follows an empty one and begins at the current version.
LEMMA ReopenOKKeeps == ASSUME WatchInv, ReopenOK PROVE WatchInv'
<1> DEFINE g == [i \in 0 .. Size' |-> IF i <= Size THEN i ELSE Size]
<1>1. stream = <<>>
  BY DEF WatchInv, Stopped, ReopenOK, ReopenDue
<1>2. /\ Len(resultC) \in Nat /\ Len(stream) = 0 /\ ver \in Nat
      /\ resultC' = resultC /\ seen' = seen /\ ver' = ver
      /\ Len(stream') = Objects /\ Objects \in Nat \ {0}
      /\ \A i \in 1 .. Objects : stream'[i] = ver'
  BY <1>1, WatchAssumption DEF WatchInv, TypeOK, ReopenOK, Opened
<1>3. TypeOK'
  <2>1. stream' \in Seq(0 .. MaxVer)
    BY WatchAssumption DEF WatchInv, TypeOK, ReopenOK, Opened
  <2> QED BY <2>1 DEF WatchInv, TypeOK, ReopenOK, Opened
<1>4. /\ Size = Len(resultC) /\ Size' = Size + Objects
      /\ \A i \in 0 .. Size : Pipeline'[i] = Pipeline[i]
      /\ \A i \in Size + 1 .. Size' : Pipeline'[i] = ver'
  BY <1>2 DEF Size, Pipeline
<1>5. /\ g \in [0 .. Size' -> 0 .. Size]
      /\ \A i, j \in 0 .. Size' : i <= j => g[i] <= g[j]
      /\ \A i \in 0 .. Size' : \/ i < Size + 1 /\ Pipeline'[i] = Pipeline[g[i]]
                               \/ i >= Size + 1 /\ Pipeline'[i] = ver'
  BY <1>2, <1>4
<1> HIDE DEF g
<1>6. InOrder' /\ NotNewer'
  <2>1. Size + 1 \in Nat /\ ver <= ver'
    BY <1>2, <1>4
  <2> QED BY <1>3, <1>5, <2>1, Rearranged DEF WatchInv
<1>7. OpenIsCurrent'
  BY <1>2, <1>4 DEF OpenIsCurrent, Size
<1>8. Stopped'
  BY DEF Stopped, ReopenOK, Opened
<1> QED BY <1>3, <1>6, <1>7, <1>8 DEF WatchInv

\* A stream that is stopped leaves what has been forwarded.
LEMMA DroppedKeeps ==
    ASSUME WatchInv, Dropped, UNCHANGED <<ver, resultC, seen, closes, reopenC>>
    PROVE  WatchInv'
<1> DEFINE g == [i \in 0 .. Size' |-> i]
<1>1. TypeOK'
  BY DEF WatchInv, TypeOK, Dropped
<1>2. /\ Len(resultC) \in Nat /\ Len(stream) \in Nat /\ ver \in Nat
      /\ resultC' = resultC /\ seen' = seen /\ ver' = ver
      /\ Len(stream') = 0
  BY WatchAssumption DEF WatchInv, TypeOK, Dropped
<1>3. /\ Size \in Nat /\ Size' \in 0 .. Size
      /\ \A i \in 0 .. Size' : Pipeline'[i] = Pipeline[i]
  BY <1>2 DEF Size, Pipeline
<1>4. /\ g \in [0 .. Size' -> 0 .. Size]
      /\ \A i, j \in 0 .. Size' : i <= j => g[i] <= g[j]
      /\ \A i \in 0 .. Size' : i < Size + 1 /\ Pipeline'[i] = Pipeline[g[i]]
  BY <1>3
<1> HIDE DEF g
<1>5. InOrder' /\ NotNewer'
  <2>1. Size + 1 \in Nat /\ ver <= ver'
    BY <1>2, <1>3
  <2> QED BY <1>1, <1>4, <2>1, Rearranged DEF WatchInv
<1>6. OpenIsCurrent' /\ Stopped'
  BY DEF WatchInv, OpenIsCurrent, Stopped, Dropped
<1> QED BY <1>1, <1>5, <1>6 DEF WatchInv

\* The reopen timer is never armed (scheduleReopen).
LEMMA NoTimer == ASSUME WatchInv, ScheduleReopen PROVE UNCHANGED reopenC
BY DEF WatchInv, TypeOK, ScheduleReopen, ResultCIsNil

\* A failed reopening leaves no stream.
LEMMA ReopenFailsKeeps == ASSUME WatchInv, ReopenFails PROVE WatchInv'
BY NoTimer, DroppedKeeps DEF ReopenFails

\* An overflow leaves no stream.
LEMMA OverflowKeeps == ASSUME WatchInv, Overflow PROVE WatchInv'
BY NoTimer, DroppedKeeps DEF Overflow

\* Forwarding moves the boundary between the two channels and nothing else.
LEMMA ForwardKeeps == ASSUME WatchInv, Forward PROVE WatchInv'
<1> DEFINE g == [i \in 0 .. Size' |-> i]
           h == Head(stream)
<1>1. /\ stream \in Seq(0 .. MaxVer) /\ resultC \in Seq(0 .. MaxVer)
      /\ stream # <<>> /\ h \in 0 .. MaxVer
      /\ Len(resultC) < ChanSize /\ ChanSize \in Nat
  BY WatchAssumption DEF WatchInv, TypeOK, Forward
<1>2. /\ stream' = Tail(stream) /\ resultC' = Append(resultC, h)
      /\ UNCHANGED <<ver, wif, reopenC, seen, closes>>
  BY DEF Forward
<1>3. stream' \in Seq(0 .. MaxVer) /\ resultC' \in Seq(0 .. MaxVer) /\ Len(resultC') <= ChanSize
  BY <1>1, <1>2
<1>4. TypeOK'
  BY <1>2, <1>3 DEF WatchInv, TypeOK
<1>5. /\ Len(resultC) \in Nat /\ Len(stream) \in Nat \ {0}
      /\ Len(resultC') = Len(resultC) + 1 /\ Len(stream') = Len(stream) - 1
      /\ \A i \in 1 .. Len(resultC) : resultC'[i] = resultC[i]
      /\ resultC'[Len(resultC) + 1] = stream[1]
      /\ \A i \in 1 .. Len(stream) - 1 : stream'[i] = stream[i + 1]
      /\ seen' = seen
  BY <1>1, <1>2
<1>6. /\ Size \in Nat /\ Size' = Size
      /\ \A i \in 0 .. Size : Pipeline'[i] = Pipeline[i]
  <2> HIDE DEF g, h
  <2>1. Size \in Nat /\ Size' = Size /\ 0 .. Size = 0 .. (Len(resultC) + Len(stream))
    BY <1>5 DEF Size
  <2>2. ASSUME NEW i \in 0 .. Size PROVE Pipeline'[i] = Pipeline[i]
    <3>1. CASE i <= Len(resultC)
      BY <1>5, <2>1, <3>1 DEF Pipeline, Size
    <3>2. CASE i = Len(resultC) + 1
      BY <1>5, <2>1, <3>2 DEF Pipeline, Size
    <3>3. CASE i > Len(resultC) + 1
      BY <1>5, <2>1, <3>3 DEF Pipeline, Size
    <3> QED BY <1>5, <2>1, <3>1, <3>2, <3>3
  <2> QED BY <2>1, <2>2
<1>7. /\ g \in [0 .. Size' -> 0 .. Size]
      /\ \A i, j \in 0 .. Size' : i <= j => g[i] <= g[j]
      /\ \A i \in 0 .. Size' : i < Size + 1 /\ Pipeline'[i] = Pipeline[g[i]]
  BY <1>6
<1> HIDE DEF g
<1>8. InOrder' /\ NotNewer'
  <2>1. Size + 1 \in Nat /\ ver <= ver'
    BY <1>2, <1>6 DEF WatchInv, TypeOK
  <2> QED BY <1>4, <1>7, <2>1, Rearranged DEF WatchInv
<1>9. OpenIsCurrent'
  <2>1. wif = "open" => Pipeline[Size] = ver
    BY DEF WatchInv, OpenIsCurrent, Size
  <2>2. wif' = "open" => Pipeline'[Size'] = ver'
    BY <1>2, <1>6, <2>1
  <2> QED BY <2>2 DEF OpenIsCurrent, Size
<1>10. Stopped'
  BY <1>1, <1>2 DEF WatchInv, Stopped
<1> QED BY <1>4, <1>8, <1>9, <1>10 DEF WatchInv

\* An Error event leaves no stream, and no version behind it.
LEMMA ForwardErrorKeeps == ASSUME WatchInv, ForwardError PROVE WatchInv'
<1>1. CASE Len(resultC) < ChanSize
  <2> DEFINE g == [i \in 0 .. Size' |-> IF i <= Size THEN i ELSE Size]
  <2>1. /\ stream \in Seq(0 .. MaxVer) /\ resultC \in Seq(0 .. MaxVer)
        /\ ChanSize \in Nat /\ Error \in 0 .. MaxVer
    BY WatchAssumption DEF WatchInv, TypeOK, Error
  <2>2. /\ stream' = <<>> /\ resultC' = Append(resultC, Error) /\ wif' = "nil"
        /\ UNCHANGED <<ver, reopenC, seen, closes>>
    BY <1>1 DEF ForwardError, Dropped
  <2>3. stream' \in Seq(0 .. MaxVer) /\ resultC' \in Seq(0 .. MaxVer) /\ Len(resultC') <= ChanSize
    BY <1>1, <2>1, <2>2
  <2>4. TypeOK'
    BY <2>2, <2>3 DEF WatchInv, TypeOK
  <2>5. /\ Len(resultC) \in Nat /\ Len(stream) \in Nat
        /\ Len(resultC') = Len(resultC) + 1 /\ Len(stream') = 0
        /\ \A i \in 1 .. Len(resultC) : resultC'[i] = resultC[i]
        /\ resultC'[Len(resultC) + 1] = Error
        /\ seen' = seen
    BY <2>1, <2>2
  <2>6. /\ Size \in Nat /\ Size' = Len(resultC) + 1 /\ Size' <= Size + 1
        /\ \A i \in 0 .. Len(resultC) : Pipeline'[i] = Pipeline[i]
        /\ Pipeline'[Size'] = Error
    BY <2>5 DEF Size, Pipeline
  <2>7. /\ g \in [0 .. Size' -> 0 .. Size]
        /\ \A i, j \in 0 .. Size' : i <= j => g[i] <= g[j]
        /\ \A i \in 0 .. Size' : \/ Pipeline'[i] = Error
                                 \/ i < Size + 1 /\ Pipeline'[i] = Pipeline[g[i]]
    BY <2>5, <2>6 DEF Size
  <2> HIDE DEF g
  <2>8. InOrder' /\ NotNewer'
    <3>1. Size + 1 \in Nat /\ ver <= ver'
      BY <2>2, <2>6 DEF WatchInv, TypeOK
    <3> QED BY <2>4, <2>7, <3>1, Rearranged DEF WatchInv
  <2>9. OpenIsCurrent' /\ Stopped'
    BY <2>2 DEF WatchInv, OpenIsCurrent, Stopped
  <2> QED BY <2>4, <2>8, <2>9 DEF WatchInv
<1>2. CASE ~(Len(resultC) < ChanSize)
  BY <1>2, NoTimer, DroppedKeeps DEF ForwardError
<1> QED BY <1>1, <1>2

\* The first entry after seen is what the reader takes.
LEMMA ConsumeKeeps == ASSUME WatchInv, Consume PROVE WatchInv' /\ seen' \in seen .. ver
<1> DEFINE h == Head(resultC)
           g == [i \in 0 .. Size' |-> IF i = 0 /\ h = Error THEN 0 ELSE i + 1]
<1>1. /\ stream \in Seq(0 .. MaxVer) /\ resultC \in Seq(0 .. MaxVer)
      /\ resultC # <<>> /\ h \in 0 .. MaxVer /\ h = resultC[1]
      /\ Len(resultC) <= ChanSize /\ ChanSize \in Nat
      /\ seen \in 0 .. MaxVer /\ ver \in Nat
  BY WatchAssumption DEF WatchInv, TypeOK, Consume
<1>2. /\ resultC' = Tail(resultC)
      /\ seen' = IF h = Error THEN seen ELSE h
      /\ UNCHANGED <<ver, wif, stream, reopenC, closes>>
  BY DEF Consume
<1>3. resultC' \in Seq(0 .. MaxVer) /\ Len(resultC') <= ChanSize
  BY <1>1, <1>2
<1>4. TypeOK'
  BY <1>1, <1>2, <1>3 DEF WatchInv, TypeOK
<1>5. /\ Len(resultC) \in Nat \ {0} /\ Len(stream) \in Nat
      /\ Len(resultC') = Len(resultC) - 1 /\ Len(stream') = Len(stream)
      /\ \A i \in 1 .. Len(resultC) - 1 : resultC'[i] = resultC[i + 1]
      /\ stream' = stream
  BY <1>1, <1>2
<1>6. /\ Size \in Nat \ {0} /\ Size' = Size - 1
      /\ \A i \in 1 .. Size' : Pipeline'[i] = Pipeline[i + 1]
      /\ Pipeline'[0] = seen' /\ Pipeline[0] = seen /\ Pipeline[1] = h
  BY <1>1, <1>5 DEF Size, Pipeline
<1>7. /\ g \in [0 .. Size' -> 0 .. Size]
      /\ \A i, j \in 0 .. Size' : i <= j => g[i] <= g[j]
      /\ \A i \in 0 .. Size' : i < Size + 1 /\ Pipeline'[i] = Pipeline[g[i]]
  <2> HIDE DEF h
  <2>1. CASE h = Error
    <3>1. /\ g = [i \in 0 .. Size' |-> IF i = 0 THEN 0 ELSE i + 1]
          /\ Pipeline'[0] = Pipeline[0]
      BY <1>2, <1>6, <2>1
    <3> HIDE DEF g
    <3> QED BY <1>6, <3>1
  <2>2. CASE h # Error
    <3>1. /\ g = [i \in 0 .. Size' |-> i + 1]
          /\ Pipeline'[0] = Pipeline[1]
      BY <1>2, <1>6, <2>2
    <3> HIDE DEF g
    <3> QED BY <1>6, <3>1
  <2> QED BY <2>1, <2>2
<1> HIDE DEF g
<1>8. InOrder' /\ NotNewer'
  <2>1. Size + 1 \in Nat /\ ver <= ver'
    BY <1>1, <1>2, <1>6
  <2> QED BY <1>4, <1>7, <2>1, Rearranged DEF WatchInv
<1>9. seen' \in seen .. ver
  <2>1. DOMAIN Pipeline = 0 .. Size
    BY PipelineType DEF WatchInv
  <2>2. 0 \in 0 .. Size /\ 1 \in 0 .. Size
    BY <1>6
  <2>3. seen <= ver /\ h <= ver
    BY <1>6, <2>1, <2>2 DEF WatchInv, NotNewer
  <2>4. CASE seen = Error
    BY <1>1, <1>2, <2>3, <2>4 DEF Error
  <2>5. CASE seen # Error /\ h # Error
    <3>1. seen <= h
      BY <1>6, <2>1, <2>2, <2>5 DEF WatchInv, InOrder
    <3> QED BY <1>1, <1>2, <2>3, <2>5, <3>1
  <2>6. CASE h = Error
    BY <1>1, <1>2, <2>3, <2>6
  <2> QED BY <2>4, <2>5, <2>6
<1>10. OpenIsCurrent'
  <2> SUFFICES ASSUME wif = "open" PROVE Pipeline'[Size'] = ver
    BY <1>2 DEF OpenIsCurrent, Size
  <2>1. Pipeline[Size] = ver /\ ver # Error
    BY WatchAssumption DEF WatchInv, TypeOK, OpenIsCurrent, Size, Error
  <2>2. CASE Size' = 0
    BY <1>2, <1>6, <2>1, <2>2
  <2>3. CASE Size' # 0
    BY <1>6, <2>1, <2>3
  <2> QED BY <2>2, <2>3
<1>11. Stopped'
  BY <1>2 DEF WatchInv, Stopped
<1> QED BY <1>4, <1>8, <1>9, <1>10, <1>11 DEF WatchInv

-----------------------------------------------------------------------------
(* The theorems                                                            *)

\* The first stream begins at version 1.
LEMMA WatchInit == Init => WatchInv
<1> SUFFICES ASSUME Init PROVE WatchInv
  OBVIOUS
<1>1. /\ stream \in Seq(0 .. MaxVer) /\ resultC \in Seq(0 .. MaxVer)
      /\ Len(stream) = Objects /\ Len(resultC) = 0 /\ Objects \in Nat \ {0}
      /\ \A i \in 1 .. Objects : stream[i] = 1
      /\ seen = 0 /\ ver = 1
  <2>1. 1 \in 0 .. MaxVer /\ Objects \in Nat \ {0}
    BY WatchAssumption
  <2> QED BY <2>1 DEF Init
<1>2. TypeOK
  <2>1. /\ ver \in 1 .. MaxVer /\ seen \in 0 .. MaxVer /\ closes \in 0 .. MaxCloses
        /\ Len(resultC) <= ChanSize
    BY <1>1, WatchAssumption DEF Init
  <2>2. wif \in {"open", "expired", "nil"} /\ reopenC \in BOOLEAN
    BY DEF Init
  <2> QED BY <1>1, <2>1, <2>2 DEF TypeOK
<1>3. /\ Size = Objects /\ DOMAIN Pipeline = 0 .. Objects
      /\ \A i \in 0 .. Objects : Pipeline[i] = IF i = 0 THEN 0 ELSE 1
  BY <1>1 DEF Size, Pipeline
<1>4. InOrder /\ NotNewer
  <2>1. \A i \in DOMAIN Pipeline : i = 0 \/ Pipeline[i] = 1
    BY <1>3
  <2>2. \A i \in DOMAIN Pipeline : Pipeline[i] \in {0, 1} /\ (Pipeline[i] # 0 => Pipeline[i] = 1)
    BY <1>3
  <2> QED BY <1>1, <2>2 DEF InOrder, NotNewer, Error
<1>5. OpenIsCurrent
  BY <1>1, <1>3 DEF OpenIsCurrent, Size
<1>6. Stopped
  BY DEF Stopped, Init
<1> QED BY <1>2, <1>4, <1>5, <1>6 DEF WatchInv

\* Every step keeps the invariant.
LEMMA WatchStep == WatchInv /\ [Next]_vars => WatchInv'
<1> SUFFICES ASSUME WatchInv, [Next]_vars PROVE WatchInv'
  OBVIOUS
<1>1. CASE Update
  BY <1>1, UpdateKeeps
<1>2. CASE Expire
  BY <1>2, ExpireKeeps
<1>3. CASE ReopenOK
  BY <1>3, ReopenOKKeeps
<1>4. CASE ReopenFails
  BY <1>4, ReopenFailsKeeps
<1>5. CASE Forward
  BY <1>5, ForwardKeeps
<1>6. CASE Overflow
  BY <1>6, OverflowKeeps
<1>7. CASE ForwardError
  BY <1>7, ForwardErrorKeeps
<1>8. CASE Consume
  BY <1>8, ConsumeKeeps
<1>9. CASE UNCHANGED vars
  BY <1>9 DEF WatchInv, TypeOK, InOrder, NotNewer, OpenIsCurrent, Stopped, Pipeline, vars
<1> QED BY <1>1, <1>2, <1>3, <1>4, <1>5, <1>6, <1>7, <1>8, <1>9 DEF Next, Goroutine

\* The invariant of the other theorems.
LEMMA WatchInvariant == Spec => []WatchInv
BY WatchInit, WatchStep, PTL DEF Spec

\* The channel resultC never holds more than its capacity, and every value of
\* the watch keeps its type.
THEOREM WatchTypeOK == Spec => []TypeOK
<1>1. WatchInv => TypeOK
  BY DEF WatchInv
<1> QED BY <1>1, WatchInvariant, PTL

\* No event overtakes another one.
THEOREM WatchInOrder == Spec => []InOrder
<1>1. WatchInv => InOrder
  BY DEF WatchInv
<1> QED BY <1>1, WatchInvariant, PTL

\* While a stream is open its last event, or the reader, has the last version.
THEOREM WatchOpenIsCurrent == Spec => []OpenIsCurrent
<1>1. WatchInv => OpenIsCurrent
  BY DEF WatchInv
<1> QED BY <1>1, WatchInvariant, PTL

\* No channel size, number of objects or sequence of failures ever brings a lost
\* stream back: the timer that would reopen it is never armed.
THEOREM LostIsForever == Spec => LostForGood
<1>1. WatchInv /\ [Next]_vars => [wif = "nil" => wif' = "nil"]_vars
  <2> SUFFICES ASSUME WatchInv, Next, wif = "nil" PROVE wif' = "nil"
    OBVIOUS
  <2>1. ~ReopenDue /\ stream = <<>> /\ wif # "open"
    BY DEF WatchInv, Stopped, ReopenDue
  <2> QED BY <2>1 DEF Next, Goroutine, Update, Expire, ReopenOK, ReopenFails,
                      Forward, Overflow, ForwardError, Dropped, Consume
<1> QED BY <1>1, WatchInvariant, PTL DEF Spec, LostForGood

\* The watch keeps the promise of WatchedStore: the reader sees the versions in
\* order and none that the store has not had.
THEOREM WatchImplements == Spec => ImplementsWatched
<1>1. Init => Watched!Init
  BY DEF Init, Watched!Init
<1>2. WatchInv /\ [Next]_vars => [Watched!Next]_(Watched!watchedVars)
  <2> SUFFICES ASSUME WatchInv, [Next]_vars
               PROVE  [Watched!Next]_(Watched!watchedVars)
    OBVIOUS
  <2>1. CASE Update
    BY <2>1 DEF Update, Watched!Next, Watched!Update
  <2>2. CASE Consume
    BY <2>2, ConsumeKeeps DEF Consume, Watched!Next, Watched!See
  <2>3. CASE UNCHANGED <<ver, seen>>
    BY <2>3 DEF Watched!watchedVars
  <2>4. CASE Expire \/ Goroutine
    BY <2>3, <2>4 DEF Expire, Goroutine, ReopenOK, ReopenFails, Forward, Overflow, ForwardError
  <2>5. CASE UNCHANGED vars
    BY <2>3, <2>5 DEF vars
  <2> QED BY <2>1, <2>2, <2>4, <2>5 DEF Next
<1> QED BY <1>1, <1>2, WatchInvariant, PTL DEF Spec, ImplementsWatched, Watched!Spec
=============================================================================
