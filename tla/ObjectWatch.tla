---------------------------- MODULE ObjectWatch ----------------------------
(***************************************************************************)
(* pkg/agent/watch/object.go: a watch that outlives the API server's       *)
(* streams.  A goroutine moves events from the current stream wif to the   *)
(* channel resultC, which the agent's select loop reads, without ever      *)
(* blocking on it; when the stream expires it opens another one.  A stream *)
(* begins with an event for every watched object, at the store's current   *)
(* version.                                                                *)
(*                                                                         *)
(* Events are abstracted to the store version they carry, 0 being the      *)
(* Error event.  Stop is not modelled: no program calls it.                *)
(***************************************************************************)
EXTENDS Naturals, Sequences

CONSTANTS ChanSize,    \* capacity of resultC (watch.DefaultChanSize)
          Objects,     \* how many objects are watched
          MaxVer,      \* bound: versions of the store
          MaxCloses    \* bound: streams the server expires

ASSUME WatchAssumption == /\ ChanSize \in Nat \ {0}
                          /\ Objects \in Nat \ {0}
                          /\ MaxVer \in Nat \ {0}
                          /\ MaxCloses \in Nat

VARIABLES
    ver,       \* the store's version
    wif,       \* "open", "expired" (its channel is closed once drained), or "nil"
    stream,    \* the events in wif's channel
    resultC,   \* the events in resultC
    reopenC,   \* the reopen timer is armed
    seen,      \* the version the reader saw last
    closes     \* streams expired so far

vars == <<ver, wif, stream, resultC, reopenC, seen, closes>>

Error == 0

TypeOK == /\ ver \in 1 .. MaxVer
          /\ wif \in {"open", "expired", "nil"}
          /\ stream \in Seq(0 .. MaxVer)
          /\ resultC \in Seq(0 .. MaxVer)
          /\ Len(resultC) <= ChanSize
          /\ reopenC \in BOOLEAN
          /\ seen \in 0 .. MaxVer
          /\ closes \in 0 .. MaxCloses

-----------------------------------------------------------------------------
(* The API server                                                          *)

Update == /\ ver < MaxVer
          /\ ver' = ver + 1
          /\ stream' = IF wif = "open" THEN Append(stream, ver + 1) ELSE stream
          /\ UNCHANGED <<wif, resultC, reopenC, seen, closes>>

\* A stream times out, or ends with an Error event.
Expire == /\ wif = "open"
          /\ closes < MaxCloses
          /\ closes' = closes + 1
          /\ wif' = "expired"
          /\ stream' \in {stream, Append(stream, Error)}
          /\ UNCHANGED <<ver, resultC, reopenC, seen>>

-----------------------------------------------------------------------------
(* The goroutine of run                                                    *)

\* resultC is made by Object and is never nil again.
ResultCIsNil == FALSE

\* Mutant: the guard asks whether the timer is armed already.
ScheduleReopenAlways == reopenC' = TRUE

ScheduleReopen == reopenC' = (reopenC \/ ResultCIsNil)

\* open: a new stream begins at the current state of the store.
Opened == /\ wif' = "open"
          /\ stream' = [i \in 1 .. Objects |-> ver]

\* stop: wif is stopped and what its channel held is gone.
Dropped == /\ wif' = "nil"
           /\ stream' = <<>>

\* The stream's channel is closed, or the timer fires: reopen.
ReopenDue == (wif = "expired" /\ stream = <<>>) \/ reopenC

ReopenOK == /\ ReopenDue
            /\ Opened
            /\ reopenC' = FALSE
            /\ UNCHANGED <<ver, resultC, seen, closes>>

ReopenFails == /\ ReopenDue
               /\ Dropped
               /\ ScheduleReopen
               /\ UNCHANGED <<ver, resultC, seen, closes>>

\* Mutant: the event is queued again behind the others.
ForwardLater == /\ stream # <<>>
                /\ Head(stream) # Error
                /\ Len(resultC) < ChanSize
                /\ resultC' = <<Head(stream)>> \o resultC
                /\ stream' = Tail(stream)
                /\ UNCHANGED <<ver, wif, reopenC, seen, closes>>

\* Mutant: the events of a full channel make room for the new one.
ForwardAnyway == /\ stream # <<>>
                 /\ Head(stream) # Error
                 /\ resultC' = Append(resultC, Head(stream))
                 /\ stream' = Tail(stream)
                 /\ UNCHANGED <<ver, wif, reopenC, seen, closes>>

Forward == /\ stream # <<>>
           /\ Head(stream) # Error
           /\ Len(resultC) < ChanSize
           /\ resultC' = Append(resultC, Head(stream))
           /\ stream' = Tail(stream)
           /\ UNCHANGED <<ver, wif, reopenC, seen, closes>>

\* Mutant: the event is dropped and the stream kept.
OverflowKeep == /\ stream # <<>>
                /\ Head(stream) # Error
                /\ Len(resultC) = ChanSize
                /\ stream' = Tail(stream)
                /\ UNCHANGED <<ver, wif, resultC, reopenC, seen, closes>>

\* resultC is full: the event is lost and the stream stopped.
Overflow == /\ stream # <<>>
            /\ Head(stream) # Error
            /\ Len(resultC) = ChanSize
            /\ Dropped
            /\ ScheduleReopen
            /\ UNCHANGED <<ver, resultC, seen, closes>>

\* The stream is stopped and the Error event passed on if there is room.  Only
\* without room is a reopening scheduled.
ForwardError == /\ stream # <<>>
                /\ Head(stream) = Error
                /\ Dropped
                /\ IF Len(resultC) < ChanSize
                     THEN resultC' = Append(resultC, Error) /\ UNCHANGED reopenC
                     ELSE ScheduleReopen /\ UNCHANGED resultC
                /\ UNCHANGED <<ver, seen, closes>>

-----------------------------------------------------------------------------
\* The agent's select loop takes an event; it does nothing with an Error event.
Consume == /\ resultC # <<>>
           /\ resultC' = Tail(resultC)
           /\ seen' = IF Head(resultC) = Error THEN seen ELSE Head(resultC)
           /\ UNCHANGED <<ver, wif, stream, reopenC, closes>>

\* Object opens the first stream, or fails and there is no watch at all.
Init == /\ ver = 1
        /\ wif = "open"
        /\ stream = [i \in 1 .. Objects |-> 1]
        /\ resultC = <<>>
        /\ reopenC = FALSE
        /\ seen = 0
        /\ closes = 0

Goroutine == \/ ReopenOK
             \/ ReopenFails
             \/ Forward
             \/ Overflow
             \/ ForwardError

Next == Update \/ Expire \/ Goroutine \/ Consume

Spec == Init /\ [][Next]_vars

\* The goroutine and the reader keep running, and a reopening that is tried
\* again and again succeeds at last.
FairSpec == /\ Spec
            /\ WF_vars(Goroutine)
            /\ WF_vars(Consume)
            /\ SF_vars(ReopenOK)

-----------------------------------------------------------------------------
(* Properties                                                              *)

\* What the reader saw last, followed by what it will still get
Pipeline == [i \in 0 .. Len(resultC) + Len(stream) |->
                IF i = 0 THEN seen
                ELSE IF i <= Len(resultC) THEN resultC[i]
                ELSE stream[i - Len(resultC)]]

\* No event overtakes another one, not even across a reopening, where the new
\* stream repeats the state of the store (run, open).
InOrder == \A i, j \in DOMAIN Pipeline :
              i <= j /\ Pipeline[i] # Error /\ Pipeline[j] # Error
                 => Pipeline[i] <= Pipeline[j]

\* While a stream is open the store's last version is what the reader has seen
\* or the last event on its way: no loss goes unnoticed by the goroutine.
OpenIsCurrent == wif = "open" => Pipeline[Len(resultC) + Len(stream)] = ver

\* A lost stream never comes back: after an overflow, an Error event or a
\* failed reopening the reader gets nothing new (scheduleReopen).
LostForGood == [][wif = "nil" => wif' = "nil"]_vars

\* As long as no stream is lost the reader sees the last version.
CatchesUp == <>[](seen = ver \/ wif = "nil")

\* The reader sees the store's versions in order.
Watched == INSTANCE WatchedStore
ImplementsWatched == Watched!Spec
=============================================================================
