------------------------------- MODULE TuiProofs -------------------------------
(***************************************************************************)
(* The event loop of the terminal UI uses the probe loop as ProbeRunner    *)
(* allows; its views agree with each other and FINISHED is final, for any  *)
(* number of targets, any channel and any length of the history.           *)
(*                                                                         *)
(* That a result is counted once rests on what ProbeRunnerProofs says of   *)
(* the channel: its head is the next result of its target, so it is none   *)
(* of those counted or cleared before.                                     *)
(***************************************************************************)
EXTENDS Tui, ProbeRunnerProofs, FiniteSetTheorems

\* The handle is held until the process exits, and the two pause flags are one.
Link == /\ rxOpen \in BOOLEAN /\ (rxOpen <=> ui # "exited")
        /\ appPaused = paused
        /\ closed \in BOOLEAN

\* What no step of a task or of the clock touches.
LEMMA ProbingLeaves ==
  ASSUME Probing
  PROVE  UNCHANGED <<controlVars, recvd, ui, appVars, exitCode>>
BY DEF Probing, Task, LoopTop, Wake, ReadPaused, PollAgain, StartProbe,
       FinishProbe, Send, SendFails, Cancelled, Tick, ghostVars

LEMMA LinkStep == Link /\ [TuiNext]_allVars => Link'
<1> SUFFICES ASSUME Link, [TuiNext]_allVars PROVE Link'
  OBVIOUS
<1>1. CASE Probing
  BY <1>1, ProbingLeaves DEF Link, controlVars, appVars
<1>2. CASE Update \/ SeeEmpty \/ NoKey \/ Reset \/ UNCHANGED allVars
  BY <1>2 DEF Update, Receive, SeeEmpty, NoKey, Reset, allVars, tuiVars, appVars,
              vars, controlVars, Link
<1>3. CASE SeeFinished
  BY <1>3 DEF SeeFinished, Link
<1>4. CASE Fail \/ Leave
  BY <1>4 DEF Fail, Leave, DropHandle, appVars, Link
<1>5. CASE Space
  BY <1>5 DEF Space, StorePaused, Link
<1>6. CASE Quit
  BY <1>6 DEF Quit, RequestCancel, appVars, Link
<1> QED
  BY <1>1, <1>2, <1>3, <1>4, <1>5, <1>6 DEF TuiNext, EventLoop

\* Every step of the UI is a step of the probe loop or leaves it alone.
THEOREM TuiUsesRunner == TuiSpec => RunnerSpec
<1>1. TuiInit => Init /\ Link
  BY DEF TuiInit, Init, Link
<1>2. Link /\ [TuiNext]_allVars => [Next]_vars
  <2> SUFFICES ASSUME Link, [TuiNext]_allVars PROVE [Next]_vars
    OBVIOUS
  <2>1. CASE Probing
    BY <2>1 DEF Probing, Next
  <2>2. CASE SeeEmpty \/ NoKey \/ Reset \/ UNCHANGED allVars
    BY <2>2 DEF SeeEmpty, NoKey, Reset, allVars
  <2>3. CASE Update \/ Fail \/ Quit \/ Leave
    BY <2>3 DEF Update, Fail, Quit, Leave, Next, Consumer
  <2>4. CASE SeeFinished
    <3>1. CASE closed
      BY <2>4, <3>1 DEF SeeFinished, Link, vars, controlVars
    <3>2. CASE ~closed
      BY <2>4, <3>2 DEF SeeFinished, Link, ReceiveNone, Next, Consumer
    <3> QED
      BY <3>1, <3>2
  <2>5. CASE Space
    BY <2>5 DEF Space, Link, Next, Consumer
  <2> QED
    BY <2>1, <2>2, <2>3, <2>4, <2>5 DEF TuiNext, EventLoop
<1> QED
  BY <1>1, <1>2, LinkStep, PTL DEF TuiSpec, RunnerSpec, Spec

\* The probe loop's own invariant, inside this mode.
THEOREM TuiRunnerInvariance == TuiSpec => []IndInv
BY TuiUsesRunner, Invariance DEF RunnerSpec

\* The handle and the pause flags, at every moment.
THEOREM TuiLinked == TuiSpec => []Link
<1>1. TuiInit => Link
  BY DEF TuiInit, Init, Link
<1> QED
  BY <1>1, LinkStep, PTL DEF TuiSpec

-----------------------------------------------------------------------------
(* The inductive invariant.                                                *)

InChannel == {chan[i] : i \in 1..Len(chan)}

\* Until the handle is dropped, what was sent is queued, counted or cleared;
\* nothing is counted twice.
Flow == /\ ui # "exited" => produced = InChannel \cup stats \cup cleared
        /\ stats \cap cleared = {}
        /\ \A r \in stats \cup cleared : r.seq < recvd[r.target]

\* The history as a window on the statistics, without the pause flag.
Shown == {history[i] : i \in DOMAIN history}
Window ==
    /\ Shown \subseteq stats
    /\ IsFiniteSet(stats)
    /\ Len(history) = (IF Cardinality(stats) < HistoryCap
                       THEN Cardinality(stats) ELSE HistoryCap)
    /\ \A i, j \in DOMAIN history :
          i < j /\ history[i].target = history[j].target
              => history[i].seq < history[j].seq
    /\ \A r \in stats \ Shown : \A s \in Shown :
          r.target = s.target => r.seq < s.seq

TuiInd == TuiTypeOK /\ Flow /\ Window /\ FinishedIsFinal

LEMMA TuiStarts == TuiInit => TuiInd
<1> SUFFICES ASSUME TuiInit PROVE TuiInd
  OBVIOUS
<1> USE DEF TuiInit
<1>1. TuiTypeOK
  <2>1. history \in Seq(Result) /\ Len(history) = 0
    OBVIOUS
  <2>2. ui \in Steps /\ ui # "exited"
    BY DEF Steps
  <2>3. exitCode \in {NoExit, 0, 1, 3} /\ (exitCode = NoExit <=> ui # "exited")
    BY <2>2
  <2>4. HistoryCap \in Nat /\ 0 <= HistoryCap
    BY TuiAssumption
  <2>5. /\ appPaused \in BOOLEAN /\ finished \in BOOLEAN
        /\ stats \subseteq Result /\ produced \subseteq Result /\ cleared \subseteq Result
    OBVIOUS
  <2> QED
    BY <2>1, <2>2, <2>3, <2>4, <2>5 DEF TuiTypeOK
<1>2. Flow
  BY DEF Flow, InChannel, Init
<1>3. Window
  <2>1. Len(history) = 0 /\ DOMAIN history = {} /\ stats = {}
    OBVIOUS
  <2>2. IsFiniteSet(stats) /\ Cardinality(stats) = 0
    BY <2>1, FS_EmptySet
  <2> QED
    BY <2>1, <2>2, TuiAssumption DEF Window, Shown
<1>4. FinishedIsFinal
  BY DEF FinishedIsFinal
<1> QED
  BY <1>1, <1>2, <1>3, <1>4 DEF TuiInd
-----------------------------------------------------------------------------
(* A result is taken.                                                      *)

\* What Push does, d entries having been given up.
LEMMA PushShifts ==
  ASSUME NEW h \in Seq(Result), NEW r \in Result, Len(h) <= HistoryCap
  PROVE  LET d == IF Len(h) < HistoryCap THEN 0 ELSE 1
             g == Push(h, r)
         IN /\ g \in Seq(Result) /\ Len(g) = Len(h) + 1 - d
            /\ \A i \in 1..(Len(h) - d) : g[i] = h[i + d]
            /\ g[Len(h) + 1 - d] = r
<1>1. CASE Len(h) < HistoryCap
  BY <1>1 DEF Push
<1>2. CASE ~(Len(h) < HistoryCap)
  <2>1. Len(h) = HistoryCap /\ h # <<>> /\ Len(h) \in Nat
    BY <1>2, TuiAssumption
  <2>2. /\ Tail(h) \in Seq(Result) /\ Len(Tail(h)) = Len(h) - 1
        /\ \A i \in 1..(Len(h) - 1) : Tail(h)[i] = h[i + 1]
    BY <2>1
  <2>3. Push(h, r) = Append(Tail(h), r)
    BY <1>2 DEF Push
  <2> QED
    BY <1>2, <2>1, <2>2, <2>3
<1> QED
  BY <1>1, <1>2

\* The result taken is the next of its target, so none that was taken before.
LEMMA TakenIsNew ==
  ASSUME IndInv, TuiInd, Update
  PROVE  /\ chan # <<>> /\ chan \in Seq(Result)
         /\ Head(chan) \in Result /\ Head(chan) \notin stats \cup cleared
         /\ \A q \in stats : q.target = Head(chan).target => q.seq < Head(chan).seq
         /\ \A q \in stats \cup cleared \cup {Head(chan)} : q.seq < recvd'[q.target]
<1> DEFINE r == Head(chan)
<1>1. /\ chan # <<>> /\ chan \in Seq(Result) /\ recvd \in [Targets -> Nat]
      /\ recvd' = [recvd EXCEPT ![r.target] = @ + 1]
      /\ stats \subseteq Result /\ cleared \subseteq Result
  BY ReceiveCounts DEF Update, Receive, IndInv, TypeOK, TuiInd, TuiTypeOK
<1>2. r \in Result /\ r.target \in Targets /\ r.seq \in Nat
  <2>1. r \in Result
    BY <1>1
  <2> QED
    BY <2>1 DEF Result
<1>3. r.seq = recvd[r.target]
  BY <1>1, HeadIsNext DEF IndInv, HeadInOrder
<1>4. \A q \in stats \cup cleared : q.seq < recvd[q.target]
  BY DEF TuiInd, Flow
<1>5. \A q \in stats \cup cleared : q.target \in Targets /\ q.seq \in Nat
  BY <1>1 DEF Result
<1>6. r \notin stats \cup cleared
  BY <1>2, <1>3, <1>4
<1>7. \A q \in stats : q.target = r.target => q.seq < r.seq
  BY <1>3, <1>4
<1>8. ASSUME NEW q \in stats \cup cleared PROVE q.seq < recvd'[q.target]
  <2>1. recvd[q.target] \in Nat /\ recvd'[q.target] \in Nat /\ recvd[q.target] <= recvd'[q.target]
    BY <1>1, <1>2, <1>5
  <2> QED
    BY <2>1, <1>4, <1>5
<1>9. r.seq < recvd'[r.target]
  BY <1>1, <1>2, <1>3
<1> QED
  BY <1>1, <1>2, <1>6, <1>7, <1>8, <1>9

LEMMA UpdateFlow ==
  ASSUME IndInv, Link, TuiInd, Update
  PROVE  Flow'
<1> DEFINE r == Head(chan)
<1>1. /\ chan # <<>> /\ chan \in Seq(Result) /\ r \notin stats \cup cleared
      /\ \A q \in stats \cup cleared \cup {r} : q.seq < recvd'[q.target]
  BY TakenIsNew
<1>2. /\ chan' = Tail(chan) /\ stats' = stats \cup {r} /\ cleared' = cleared
      /\ ui' = ui /\ produced' = produced
  BY DEF Update, Receive
<1>3. InChannel = InChannel' \cup {r}
  <2>1. /\ Len(chan) \in Nat /\ Len(chan) > 0 /\ chan[1] = r
        /\ Len(Tail(chan)) = Len(chan) - 1
        /\ \A i \in 1..(Len(chan) - 1) : Tail(chan)[i] = chan[i + 1]
    BY <1>1
  <2>2. ASSUME NEW i \in 1..Len(chan) PROVE chan[i] \in InChannel' \cup {r}
    <3>1. CASE i = 1
      BY <3>1, <2>1
    <3>2. CASE i # 1
      <4>1. i - 1 \in 1..(Len(chan) - 1)
        BY <3>2, <2>1
      <4>2. chan'[i - 1] = chan[i] /\ i - 1 \in 1..Len(chan')
        BY <4>1, <2>1, <1>2
      <4> QED
        BY <4>2 DEF InChannel
    <3> QED
      BY <3>1, <3>2
  <2>3. ASSUME NEW i \in 1..Len(chan') PROVE chan'[i] \in InChannel
    <3>1. i \in 1..(Len(chan) - 1) /\ i + 1 \in 1..Len(chan)
      BY <2>1, <1>2
    <3>2. chan'[i] = chan[i + 1]
      BY <3>1, <2>1, <1>2
    <3> QED
      BY <3>1, <3>2 DEF InChannel
  <2>4. r \in InChannel
    BY <2>1 DEF InChannel
  <2>5. \A x \in InChannel' : x \in InChannel
    BY <2>3, Zenon DEF InChannel
  <2>6. \A x \in InChannel : x \in InChannel' \cup {r}
    BY <2>2, Zenon DEF InChannel
  <2> QED
    BY <2>4, <2>5, <2>6
<1>4. ui # "exited" => produced = InChannel \cup stats \cup cleared
  BY DEF TuiInd, Flow
<1>5. stats \cap cleared = {}
  BY DEF TuiInd, Flow
<1>6. ui' # "exited" => produced' = InChannel' \cup stats' \cup cleared'
  BY <1>2, <1>3, <1>4
<1>7. stats' \cap cleared' = {}
  BY <1>1, <1>2, <1>5
<1>8. \A q \in stats' \cup cleared' : q.seq < recvd'[q.target]
  BY <1>1, <1>2
<1> QED
  BY <1>6, <1>7, <1>8 DEF Flow

LEMMA UpdateWindow ==
  ASSUME IndInv, TuiInd, Update
  PROVE  Window' /\ history' \in Seq(Result) /\ Len(history') <= HistoryCap
<1> DEFINE r == Head(chan)
           n == Len(history)
           d == IF n < HistoryCap THEN 0 ELSE 1
<1>1. /\ r \in Result /\ r \notin stats
      /\ \A q \in stats : q.target = r.target => q.seq < r.seq
  BY TakenIsNew
<1>2. /\ history \in Seq(Result) /\ n <= HistoryCap /\ n \in Nat
      /\ stats' = stats \cup {r} /\ history' = Push(history, r)
      /\ HistoryCap \in Nat \ {0} /\ stats \subseteq Result
  BY TuiAssumption DEF TuiInd, TuiTypeOK, Update
<1>3. /\ history' \in Seq(Result) /\ Len(history') = n + 1 - d
      /\ \A i \in 1..(n - d) : history'[i] = history[i + d]
      /\ history'[n + 1 - d] = r
  BY <1>1, <1>2, PushShifts
<1>4. /\ d \in {0, 1} /\ n + 1 - d \in 1..HistoryCap /\ DOMAIN history = 1..n
      /\ DOMAIN history' = 1..(n + 1 - d)
  BY <1>2, <1>3
<1>5. /\ Shown \subseteq stats /\ IsFiniteSet(stats)
      /\ n = (IF Cardinality(stats) < HistoryCap THEN Cardinality(stats) ELSE HistoryCap)
      /\ \A i, j \in 1..n : i < j /\ history[i].target = history[j].target
                              => history[i].seq < history[j].seq
      /\ \A q \in stats \ Shown : \A s \in Shown : q.target = s.target => q.seq < s.seq
  BY <1>4 DEF TuiInd, Window
<1>6. \A i \in 1..n : history[i] \in stats
  BY <1>4, <1>5 DEF Shown
<1> HIDE DEF d, n, r
\* An entry is an old one or the new one, in its place.
<1>7. \A i \in DOMAIN history' : \/ i = n + 1 - d /\ history'[i] = r
                                 \/ /\ i \in 1..(n - d) /\ i + d \in 1..n
                                    /\ history'[i] = history[i + d]
  BY <1>2, <1>3, <1>4
<1>8. Shown' \subseteq stats'
  <2>1. \A i \in DOMAIN history' : history'[i] \in stats'
    BY <1>2, <1>6, <1>7
  <2> QED
    BY <2>1 DEF Shown
<1>9. /\ IsFiniteSet(stats')
      /\ Len(history') = (IF Cardinality(stats') < HistoryCap
                          THEN Cardinality(stats') ELSE HistoryCap)
  <2>1. IsFiniteSet(stats') /\ Cardinality(stats') = Cardinality(stats) + 1
    BY <1>1, <1>2, <1>5, FS_AddElement
  <2>2. Cardinality(stats) \in Nat
    BY <1>5, FS_CardinalityType
  <2> QED
    BY <2>1, <2>2, <1>2, <1>3, <1>5 DEF d
<1>10. ASSUME NEW i \in DOMAIN history', NEW j \in DOMAIN history', i < j,
              history'[i].target = history'[j].target
       PROVE  history'[i].seq < history'[j].seq
  <2>1. i \in 1..(n - d) /\ i + d \in 1..n /\ history'[i] = history[i + d]
    BY <1>2, <1>4, <1>7, <1>10
  <2>2. CASE j = n + 1 - d /\ history'[j] = r
    BY <2>1, <2>2, <1>1, <1>6, <1>10
  <2>3. CASE j + d \in 1..n /\ history'[j] = history[j + d]
    <3>1. i + d < j + d
      BY <1>4, <1>10
    <3> QED
      BY <2>1, <2>3, <3>1, <1>5, <1>10
  <2> QED
    BY <2>2, <2>3, <1>7
<1>11. ASSUME NEW q \in stats' \ Shown', NEW s \in Shown', q.target = s.target
       PROVE  q.seq < s.seq
  <2>1. PICK j \in DOMAIN history' : s = history'[j]
    BY DEF Shown
  <2>2. n + 1 - d \in DOMAIN history' /\ r \in Shown'
    BY <1>3, <1>4 DEF Shown
  <2>3. q \in stats /\ q # r
    BY <2>2, <1>2
  <2>4. CASE s = r
    BY <2>3, <2>4, <1>1, <1>11
  <2>5. CASE j \in 1..(n - d) /\ j + d \in 1..n /\ s = history[j + d]
    <3>1. s \in Shown
      BY <2>5, <1>4 DEF Shown
    <3>2. CASE q \notin Shown
      BY <2>3, <3>1, <3>2, <1>5, <1>11
    <3>3. CASE q \in Shown
      <4>1. PICK i \in 1..n : q = history[i]
        BY <3>3, <1>4 DEF Shown
      <4>2. i = 1 /\ d = 1
        <5>1. ASSUME i - d \in 1..(n - d) PROVE FALSE
          <6>1. history'[i - d] = history[(i - d) + d]
            BY <5>1, <1>3
          <6>2. i - d \in DOMAIN history' /\ history'[i - d] = q
            BY <5>1, <6>1, <4>1, <1>2, <1>4
          <6> QED
            BY <6>2 DEF Shown
        <5> QED
          BY <5>1, <1>4, <1>2
      <4>3. i < j + d
        BY <4>2, <2>5
      <4> QED
        BY <4>1, <4>3, <2>5, <1>5, <1>11
    <3> QED
      BY <3>2, <3>3
  <2> QED
    BY <2>1, <2>4, <2>5, <1>7
<1> QED
  BY <1>3, <1>4, <1>8, <1>9, <1>10, <1>11 DEF Window

LEMMA UpdateStep ==
  ASSUME IndInv, Link, TuiInd, Update
  PROVE  TuiInd'
<1>1. Head(chan) \in Result /\ chan # <<>>
  BY TakenIsNew
<1>2. Flow' /\ Window' /\ history' \in Seq(Result) /\ Len(history') <= HistoryCap
  BY UpdateFlow, UpdateWindow
<1>3. TuiTypeOK'
  BY <1>1, <1>2 DEF TuiInd, TuiTypeOK, Update
<1>4. FinishedIsFinal'
  <2>1. ~finished
    BY <1>1 DEF TuiInd, FinishedIsFinal
  <2> QED
    BY <2>1 DEF Update, FinishedIsFinal
<1> QED
  BY <1>2, <1>3, <1>4 DEF TuiInd

-----------------------------------------------------------------------------
(* The other steps.                                                        *)

\* A window is one on whatever it was one on.
LEMMA WindowKept ==
  ASSUME Window, stats' = stats, history' = history
  PROVE  Window'
BY DEF Window, Shown

\* A task that sends puts its result behind the others; nothing else does.
LEMMA ProbingSends ==
  ASSUME IndInv, IndInv', Probing
  PROVE  /\ InChannel \subseteq InChannel'
         /\ produced' = produced \cup InChannel' /\ InChannel' \subseteq Result
         /\ ~rxOpen => InChannel' = {}
         /\ AllDone => chan' = chan /\ AllDone'
<1>1. chan \in Seq(Result) /\ chan' \in Seq(Result)
  BY DEF IndInv, TypeOK
<1>2. produced' = produced \cup InChannel'
  BY DEF Probing, InChannel
<1>3. InChannel' \subseteq Result
  BY <1>1 DEF InChannel
<1>4. InChannel \subseteq InChannel'
  <2>1. CASE chan' = chan
    BY <2>1 DEF InChannel
  <2>2. CASE \E t \in Targets : Send(t)
    <3>1. /\ Len(chan') = Len(chan) + 1 /\ Len(chan) \in Nat
          /\ \A i \in 1..Len(chan) : chan'[i] = chan[i]
      BY <2>2, <1>1 DEF Send
    <3> QED
      BY <3>1 DEF InChannel
  <2> QED
    BY <2>1, <2>2 DEF Probing, Task, LoopTop, Wake, ReadPaused, PollAgain,
                      StartProbe, FinishProbe, SendFails, Cancelled, Tick
<1>5. ~rxOpen => InChannel' = {}
  <2>1. ~rxOpen => ~rxOpen'
    BY ProbingLeaves DEF controlVars
  <2>2. ~rxOpen => chan' = <<>>
    BY <2>1 DEF IndInv, ChannelInv
  <2> QED
    BY <2>2 DEF InChannel
<1>6. AllDone => chan' = chan /\ AllDone'
  <2>1. AllDone => Tick
    BY DEF AllDone, Probing, Task, LoopTop, Wake, ReadPaused, PollAgain,
           StartProbe, FinishProbe, Send, SendFails, Cancelled
  <2> QED
    BY <2>1 DEF Tick, AllDone
<1> QED
  BY <1>2, <1>3, <1>4, <1>5, <1>6

LEMMA ProbingStep ==
  ASSUME IndInv, IndInv', Link, TuiInd, Probing
  PROVE  TuiInd'
<1>1. /\ recvd' = recvd /\ ui' = ui /\ appPaused' = appPaused /\ finished' = finished
      /\ stats' = stats /\ history' = history /\ cleared' = cleared /\ exitCode' = exitCode
  BY ProbingLeaves DEF appVars
<1>2. TuiTypeOK'
  BY <1>1, ProbingSends DEF TuiInd, TuiTypeOK
<1>3. Flow'
  BY <1>1, ProbingSends DEF TuiInd, Flow
<1>4. Window'
  BY <1>1, WindowKept DEF TuiInd
<1>5. FinishedIsFinal'
  <2>1. SUFFICES ASSUME finished PROVE FinishedIsFinal'
    BY <1>1 DEF FinishedIsFinal
  <2>2. AllDone /\ chan = <<>>
    BY <2>1 DEF TuiInd, FinishedIsFinal
  <2>3. AllDone' /\ chan' = <<>> /\ produced' = produced
    <3>1. chan' = <<>> /\ AllDone'
      BY <2>2, ProbingSends
    <3>2. InChannel' = {}
      BY <3>1 DEF InChannel
    <3> QED
      BY <3>1, <3>2, ProbingSends
  <2> QED
    BY <1>1, <2>1, <2>2, <2>3 DEF TuiInd, FinishedIsFinal
<1> QED
  BY <1>2, <1>3, <1>4, <1>5 DEF TuiInd

LEMMA ResetStep ==
  ASSUME IndInv, Link, TuiInd, Reset
  PROVE  TuiInd'
<1>1. /\ recvd' = recvd /\ chan' = chan /\ pc' = pc /\ finished' = finished
      /\ exitCode' = exitCode /\ produced' = produced /\ appPaused' = appPaused
      /\ stats' = {} /\ history' = <<>> /\ cleared' = cleared \cup stats
      /\ ui = "keys" /\ ui' = "drain"
  BY DEF Reset, vars, taskVars, ghostVars
<1>2. TuiTypeOK'
  <2>1. history' \in Seq(Result) /\ Len(history') = 0
    BY <1>1
  <2>2. HistoryCap \in Nat /\ 0 <= HistoryCap
    BY TuiAssumption
  <2>3. ui' \in Steps /\ ui' # "exited" /\ exitCode' = NoExit
    BY <1>1 DEF Steps, TuiInd, TuiTypeOK
  <2> QED
    BY <1>1, <2>1, <2>2, <2>3 DEF TuiInd, TuiTypeOK
<1>3. Flow'
  BY <1>1 DEF TuiInd, Flow, InChannel
<1>4. Window'
  <2>1. Len(history') = 0 /\ DOMAIN history' = {} /\ stats' = {}
    BY <1>1
  <2>2. IsFiniteSet(stats') /\ Cardinality(stats') = 0
    BY <2>1, FS_EmptySet
  <2> QED
    BY <2>1, <2>2, TuiAssumption DEF Window, Shown
<1>5. FinishedIsFinal'
  <2>1. exitCode' = NoExit
    BY <1>1 DEF TuiInd, TuiTypeOK
  <2>2. finished' => AllDone' /\ chan' = <<>>
    BY <1>1 DEF TuiInd, FinishedIsFinal, AllDone
  <2> QED
    BY <2>1, <2>2 DEF FinishedIsFinal, NoExit
<1> QED
  BY <1>2, <1>3, <1>4, <1>5 DEF TuiInd

\* The step that shows FINISHED: all has ended, and there is no exit code yet.
LEMMA SeeFinishedStep ==
  ASSUME IndInv, Link, TuiInd, SeeFinished
  PROVE  TuiInd'
<1>1. /\ recvd' = recvd /\ chan' = chan /\ pc' = pc /\ appPaused' = appPaused
      /\ exitCode' = exitCode /\ produced' = produced /\ cleared' = cleared
      /\ stats' = stats /\ history' = history
      /\ ui = "drain" /\ ui' = "keys" /\ finished' = TRUE /\ AllDone /\ chan = <<>>
  BY DEF SeeFinished, taskVars, ghostVars
<1>2. exitCode' = NoExit
  BY <1>1 DEF TuiInd, TuiTypeOK
<1>3. TuiTypeOK'
  BY <1>1, <1>2 DEF TuiInd, TuiTypeOK, Steps
<1>4. Flow'
  BY <1>1 DEF TuiInd, Flow, InChannel
<1>5. Window'
  BY <1>1, WindowKept DEF TuiInd
<1>6. FinishedIsFinal'
  BY <1>1, <1>2 DEF FinishedIsFinal, AllDone, NoExit
<1> QED
  BY <1>3, <1>4, <1>5, <1>6 DEF TuiInd

\* The exit code of a finished run is that of everything not cleared.
LEMMA LeaveStep ==
  ASSUME IndInv, Link, TuiInd, Fail \/ Leave
  PROVE  TuiInd'
<1>1. /\ recvd' = recvd /\ chan' = <<>> /\ pc' = pc /\ appPaused' = appPaused
      /\ finished' = finished /\ produced' = produced /\ cleared' = cleared
      /\ stats' = stats /\ history' = history
      /\ ui \in {"keys", "leaving"} /\ ui' = "exited" /\ exitCode' \in {1, ExitStatus}
  BY DEF Fail, Leave, DropHandle, appVars, taskVars, ghostVars
<1>2. ExitStatus \in {0, 1, 3}
  BY DEF ExitStatus
<1>3. exitCode' \in {0, 1, 3} /\ exitCode' # NoExit
  BY <1>1, <1>2 DEF NoExit
<1>4. TuiTypeOK'
  BY <1>1, <1>3 DEF TuiInd, TuiTypeOK, Steps
<1>5. Flow'
  BY <1>1 DEF TuiInd, Flow, InChannel
<1>6. Window'
  BY <1>1, WindowKept DEF TuiInd
<1>7. FinishedIsFinal'
  <2>1. SUFFICES ASSUME finished PROVE FinishedIsFinal'
    BY <1>1 DEF FinishedIsFinal
  <2>2. AllDone' /\ chan' = <<>> /\ chan = <<>>
    BY <2>1, <1>1 DEF TuiInd, FinishedIsFinal, AllDone
  <2>3. InChannel = {}
    BY <2>2 DEF InChannel
  <2>4. produced' \ cleared' = stats
    BY <2>3, <1>1 DEF TuiInd, Flow
  <2>5. \A r \in stats : r.outcome \in {Pass, ExpectFail, NetFail}
    BY TuiAssumption DEF TuiInd, TuiTypeOK, Result
  <2> DEFINE counted == {r.outcome : r \in stats}
  <2>6. /\ exitCode' = 0 => counted \subseteq {Pass}
        /\ exitCode' = 3 => ExpectFail \in counted /\ NetFail \notin counted
        /\ NetFail \in counted => exitCode' = 1
    BY <2>5, <1>1 DEF ExitStatus, Counted
  <2> QED
    BY <2>2, <2>4, <2>6 DEF FinishedIsFinal
<1> QED
  BY <1>4, <1>5, <1>6, <1>7 DEF TuiInd

LEMMA QuietStep ==
  ASSUME IndInv, Link, TuiInd, SeeEmpty \/ NoKey \/ Space \/ Quit \/ UNCHANGED allVars
  PROVE  TuiInd'
<1>1. /\ recvd' = recvd /\ chan' = chan /\ pc' = pc /\ appPaused' \in {appPaused, ~appPaused}
      /\ finished' = finished /\ produced' = produced /\ cleared' = cleared
      /\ stats' = stats /\ history' = history /\ exitCode' = exitCode
      /\ ui' = ui \/ (ui # "exited" /\ ui' \in Steps \ {"exited"})
  BY DEF SeeEmpty, NoKey, Space, StorePaused, Quit, RequestCancel, allVars, tuiVars,
         appVars, vars, taskVars, ghostVars, Steps
<1>2. TuiTypeOK'
  BY <1>1 DEF TuiInd, TuiTypeOK
<1>3. Flow'
  BY <1>1 DEF TuiInd, Flow, InChannel
<1>4. Window'
  BY <1>1, WindowKept DEF TuiInd
<1>5. FinishedIsFinal'
  BY <1>1 DEF TuiInd, FinishedIsFinal, AllDone
<1> QED
  BY <1>2, <1>3, <1>4, <1>5 DEF TuiInd

-----------------------------------------------------------------------------
(* The theorems.                                                           *)

\* The strengthened invariant, given that of the probe loop and the link to it.
THEOREM TuiInvariance == TuiSpec => []TuiInd
<1>1. TuiInit => TuiInd
  BY TuiStarts
<1>2. IndInv /\ IndInv' /\ Link /\ TuiInd /\ [TuiNext]_allVars => TuiInd'
  <2> SUFFICES ASSUME IndInv, IndInv', Link, TuiInd, [TuiNext]_allVars PROVE TuiInd'
    OBVIOUS
  <2> QED
    BY UpdateStep, ProbingStep, ResetStep, SeeFinishedStep, LeaveStep, QuietStep
       DEF TuiNext, EventLoop
<1> QED
  BY <1>1, <1>2, TuiRunnerInvariance, TuiLinked, PTL DEF TuiSpec

\* What the UI keeps is of its kind, and the history never grows past its cap.
THEOREM TuiTypeCorrect == TuiSpec => []TuiTypeOK
<1>1. TuiInd => TuiTypeOK
  BY DEF TuiInd
<1> QED
  BY <1>1, TuiInvariance, PTL

\* The chart is the newest part of what the statistics have counted, and the
\* pause that is shown is the one the probe loop obeys.
THEOREM ViewsHold == TuiSpec => []ViewsAgree
<1>1. Link /\ TuiInd => ViewsAgree
  BY DEF Link, TuiInd, Window, Shown, ViewsAgree
<1> QED
  BY <1>1, TuiInvariance, TuiLinked, PTL

\* FINISHED comes when all has been counted, and the exit code is that of all.
THEOREM FinishedHolds == TuiSpec => []FinishedIsFinal
<1>1. TuiInd => FinishedIsFinal
  BY DEF TuiInd
<1> QED
  BY <1>1, TuiInvariance, PTL
=============================================================================
