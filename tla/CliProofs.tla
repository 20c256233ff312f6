------------------------------ MODULE CliProofs ------------------------------
(***************************************************************************)
(* run_cli_mode uses the probe loop as ProbeRunner allows, so that what    *)
(* ProbeRunnerProofs proves of it holds here too, and no result is lost on *)
(* the way from a task to the statistics, Ctrl-C included.                 *)
(*                                                                         *)
(* The results it collects also go to --on-breach.  The second half is     *)
(* about that tracker, for every threshold, cooldown and length of run:    *)
(* debounce, cooldown, the alert a long outage must raise, and one         *)
(* recovery per outage.                                                    *)
(***************************************************************************)
EXTENDS CliMode, BreachAlerts, ProbeRunnerProofs, WellFoundedInduction

\* Every step of the mode is a step of the probe loop or leaves it alone.
THEOREM UsesRunner == CliSpec => RunnerSpec
<1>1. CliInit => Init
  BY DEF CliInit
<1>2. [CliNext]_allVars => [Next]_vars
  <2> SUFFICES ASSUME [CliNext]_allVars PROVE [Next]_vars
    OBVIOUS
  <2>1. CASE Probing
    BY <2>1 DEF Probing, Next
  <2>2. CASE PressCtrlC \/ Handle \/ Finish \/ UNCHANGED allVars
    BY <2>2 DEF PressCtrlC, Handle, Finish, allVars
  <2>3. CASE HearCtrlC \/ Take \/ SeeEnd
    BY <2>3 DEF HearCtrlC, Take, SeeEnd, Next, Consumer
  <2> QED
    BY <2>1, <2>2, <2>3 DEF CliNext, Collector
<1> QED
  BY <1>1, <1>2, PTL DEF CliSpec, RunnerSpec, Spec

\* The probe loop's own invariant, inside this mode.
THEOREM RunnerInvariance == CliSpec => []IndInv
BY UsesRunner, Invariance DEF RunnerSpec

-----------------------------------------------------------------------------
(* The slot of a target exists: the last of those that share its URL.      *)

LEMMA LastOf ==
  ASSUME NEW S, S \subseteq Targets, S # {}
  PROVE  \E i \in S : \A j \in S : j <= i
<1> DEFINE R == {p \in Nat \X Nat : p[1] < p[2]}
           T == {N - i : i \in S}
<1>1. IsWellFoundedOn(R, Nat)
  BY NatLessThanWellFounded, Zenon DEF OpToRel
<1>2. T \subseteq Nat /\ T # {}
  <2>1. \A i \in S : N - i \in Nat
    BY RunnerAssumption DEF Targets
  <2> QED
    BY <2>1
<1>3. PICK m \in T : \A y \in T : <<y, m>> \notin R
  BY <1>1, <1>2, WFMin
<1>4. PICK i \in S : m = N - i
  OBVIOUS
<1>5. ASSUME NEW j \in S PROVE j <= i
  <2>1. N - j \in T /\ <<N - j, m>> \notin R
    BY <1>3
  <2>2. ~(N - j < m)
    BY <2>1, <1>2
  <2> QED
    BY <2>2, <1>4, RunnerAssumption DEF Targets
<1> QED
  BY <1>5

LEMMA SlotOf ==
  ASSUME NEW t \in Targets
  PROVE  Slot(t) \in Targets /\ name[Slot(t)] = name[t]
<1> DEFINE S == {i \in Targets : name[i] = name[t]}
<1>1. PICK i \in S : \A j \in S : j <= i
  BY LastOf
<1>2. \E k \in Targets : name[k] = name[t] /\ \A j \in Targets : name[j] = name[t] => j <= k
  BY <1>1
<1> QED
  BY <1>2 DEF Slot

-----------------------------------------------------------------------------
(* What a step does to the results queued and recorded.                    *)

\* The probe loop only adds to the channel, and nothing once it is closed.
LEMMA ProbingQueues ==
  ASSUME TypeOK, ClosedInv, Probing
  PROVE  /\ Queued \subseteq Queued'
         /\ closed' = closed
         /\ closed => Queued' = Queued
<1>1. ASSUME NEW t \in Targets, Send(t)
      PROVE  Queued \subseteq Queued' /\ closed' = closed /\ ~closed
  <2> DEFINE r == [target |-> t, seq |-> seq[t], outcome |-> pending[t]]
  <2>1. chan' = Append(chan, r) /\ closed' = closed /\ chan \in Seq(Result)
    BY <1>1 DEF Send, controlVars, TypeOK
  <2>2. r \in Result
    <3>1. pending[t] \in Outcomes /\ seq[t] \in Nat
      BY <1>1 DEF Send, TypeOK
    <3> QED
      BY <3>1 DEF Result
  <2>3. Len(chan') = Len(chan) + 1 /\ \A i \in 1..Len(chan) : chan'[i] = chan[i]
    BY <2>1, <2>2
  <2>4. Len(chan) \in Nat
    BY <2>1
  <2>5. Queued \subseteq Queued'
    BY <2>3, <2>4 DEF Queued
  <2>6. ~closed
    BY <1>1 DEF Send, ClosedInv, AllDone
  <2> QED
    BY <2>1, <2>5, <2>6
<1>2. ASSUME NEW t \in Targets, Task(t), ~Send(t)
      PROVE  chan' = chan /\ closed' = closed
  BY <1>2 DEF Task, LoopTop, Wake, ReadPaused, PollAgain, StartProbe, FinishProbe,
              SendFails, Cancelled, controlVars
<1>3. CASE Tick
  BY <1>3 DEF Tick, controlVars, Queued
<1> QED
  BY <1>1, <1>2, <1>3 DEF Probing, Queued

\* Taking a result moves it from the channel into the collector's hand.
LEMMA TakeMoves ==
  ASSUME TypeOK, Take
  PROVE  /\ current' \in Result
         /\ Queued = Queued' \cup {current'}
<1>1. /\ chan \in Seq(Result) /\ chan # <<>>
      /\ chan' = Tail(chan) /\ current' = Head(chan)
  BY DEF Take, Receive, TypeOK
<1> DEFINE n == Len(chan)
<1>2. /\ n \in Nat \ {0} /\ current' = chan[1] /\ chan[1] \in Result
      /\ Len(chan') = n - 1
      /\ \A i \in 1..(n - 1) : chan'[i] = chan[i + 1]
  BY <1>1
<1>3. Queued' = {chan[i] : i \in 2..n}
  <2>1. Queued' = {chan[i + 1] : i \in 1..(n - 1)}
    BY <1>2 DEF Queued
  <2>2. \A i \in 1..(n - 1) : i + 1 \in 2..n
    BY <1>2
  <2>3. \A i \in 2..n : i - 1 \in 1..(n - 1) /\ (i - 1) + 1 = i
    BY <1>2
  <2> QED
    BY <2>1, <2>2, <2>3
<1>4. 1..n = {1} \cup (2..n)
  BY <1>2
<1>5. Queued = {chan[i] : i \in 1..n}
  BY <1>1 DEF Queued
<1> HIDE DEF n
<1> QED
  BY <1>2, <1>3, <1>4, <1>5

\* Handling the result in hand records it in a slot of its own URL.
LEMMA HandleRecords ==
  ASSUME CliIndInv, Handle
  PROVE  /\ current \in Result
         /\ slots' \in [Targets -> SUBSET Result]
         /\ Recorded' = Recorded \cup {current}
         /\ \A i \in Targets : \A r \in slots'[i] : name[r.target] = name[i]
<1> DEFINE s == Slot(current.target)
<1>1. current \in Result /\ slots \in [Targets -> SUBSET Result]
  BY DEF CliIndInv, CliTypeOK, Handle
<1>2. current.target \in Targets
  BY <1>1 DEF Result
<1>3. s \in Targets /\ name[s] = name[current.target]
  BY <1>2, SlotOf
<1>4. slots' = [slots EXCEPT ![s] = slots[s] \cup {current}]
  BY DEF Handle, Consume
<1>5. slots' \in [Targets -> SUBSET Result]
  BY <1>1, <1>3, <1>4
<1>6. \A i \in Targets : slots'[i] = IF i = s THEN slots[i] \cup {current} ELSE slots[i]
  BY <1>1, <1>4
<1>7. Recorded' = Recorded \cup {current}
  <2>1. \A r : (\E i \in Targets : r \in slots'[i])
                 <=> (\E i \in Targets : r \in slots[i]) \/ r = current
    BY <1>3, <1>6
  <2>2. /\ \A r : r \in Recorded <=> \E i \in Targets : r \in slots[i]
        /\ \A r : r \in Recorded' <=> \E i \in Targets : r \in slots'[i]
    BY Zenon DEF Recorded
  <2> QED
    BY <2>1, <2>2
<1>8. \A i \in Targets : \A r \in slots[i] : name[r.target] = name[i]
  BY DEF CliIndInv, AllCounted
<1> QED
  BY <1>1, <1>3, <1>5, <1>6, <1>7, <1>8

\* An export leaves the count of stalls alone, or opens the closed circuit.
LEMMA ExportCircuit ==
  ASSUME circuit \in BOOLEAN, StreamOtlp
  PROVE  /\ circuit' \in BOOLEAN
         /\ \/ stalls' = stalls /\ (circuit => circuit')
            \/ ~circuit /\ stalls' = stalls + 1 /\ circuit'
<1>1. CASE circuit /\ UNCHANGED <<circuit, stalls>>
  BY <1>1
<1>2. ASSUME ~circuit, NEW reached \in BOOLEAN, circuit' = ~reached,
             stalls' = IF reached THEN stalls ELSE stalls + 1
      PROVE  /\ circuit' \in BOOLEAN
             /\ stalls' = stalls \/ (stalls' = stalls + 1 /\ circuit')
  <2>1. CASE reached
    BY <1>2, <2>1
  <2>2. CASE ~reached
    BY <1>2, <2>2
  <2> QED
    BY <2>1, <2>2
<1> QED
  BY <1>1, <1>2, Zenon DEF StreamOtlp

-----------------------------------------------------------------------------
(* The invariant.                                                          *)

LEMMA CliStarts == CliInit => CliIndInv
<1> SUFFICES ASSUME CliInit PROVE CliIndInv
  OBVIOUS
<1>1. CliTypeOK
  BY CliAssumption DEF CliInit, CliTypeOK, Phases, NoExit
<1>2. Queued = {} /\ Recorded = {}
  <2>1. chan = <<>> /\ slots = [i \in Targets |-> {}]
    BY DEF CliInit, Init
  <2> QED
    BY <2>1 DEF Queued, Recorded
<1>3. AllCounted /\ ExitAgrees
  BY <1>2 DEF CliInit, AllCounted, ExitAgrees
<1> QED
  BY <1>1, <1>3 DEF CliIndInv, CliInit

\* The types, one action of the mode at a time.
LEMMA CliTypeStep ==
  ASSUME TypeOK, TypeOK', ClosedInv, CliIndInv, [CliNext]_allVars
  PROVE  CliTypeOK'
<1> USE DEF CliTypeOK, Phases, NoExit
<1>0. CliTypeOK
  BY DEF CliIndInv
<1>1. CASE Probing
  <2>1. Queued' \subseteq Result
    BY DEF TypeOK, Queued
  <2> QED
    BY <1>0, <1>1, <2>1 DEF Probing
<1>2. CASE PressCtrlC
  BY <1>0, <1>2 DEF PressCtrlC
<1>3. CASE HearCtrlC
  BY <1>0, <1>3 DEF HearCtrlC
<1>4. CASE Take
  <2>1. current' \in Result /\ NoResult \notin Result
    BY <1>4, TakeMoves, CliAssumption
  <2> QED
    BY <1>0, <1>4, <2>1 DEF Take
<1>5. CASE Handle
  <2>1. slots' \in [Targets -> SUBSET Result] /\ circuit' \in BOOLEAN /\ stalls' \in Nat
    BY <1>0, <1>5, HandleRecords, ExportCircuit DEF Handle
  <2> QED
    BY <1>0, <1>5, <2>1 DEF Handle
<1>6. CASE SeeEnd
  BY <1>0, <1>6 DEF SeeEnd
<1>7. CASE Finish
  <2>1. exitCode' \in {0, 1, 3} /\ phase' = "exited"
    BY <1>7 DEF Finish, ExitStatus
  <2> QED
    BY <1>0, <1>7, <2>1 DEF Finish
<1>8. CASE UNCHANGED allVars
  BY <1>0, <1>8 DEF allVars, cliVars
<1> QED
  BY <1>1, <1>2, <1>3, <1>4, <1>5, <1>6, <1>7, <1>8 DEF CliNext, Collector

\* The results: none is lost between the channel and the statistics.
LEMMA CountedStep ==
  ASSUME TypeOK, ClosedInv, ClosedInv', CliIndInv, CliTypeOK', [CliNext]_allVars
  PROVE  /\ AllCounted'
         /\ phase' \in {"summary", "exited"} => closed'
<1>0. /\ produced = Queued \cup Recorded \cup ({current} \ {NoResult})
      /\ \A i \in Targets : \A r \in slots[i] : name[r.target] = name[i]
      /\ phase \in {"summary", "exited"} => closed
      /\ current # NoResult <=> phase \in {"busy", "drainBusy"}
  BY DEF CliIndInv, AllCounted, CliTypeOK
<1>1. /\ produced' = Queued' \cup Recorded' \cup ({current'} \ {NoResult})
      /\ \A i \in Targets : \A r \in slots'[i] : name'[r.target] = name'[i]
      /\ phase' \in {"summary", "exited"} => closed'
  <2>1. CASE Probing
    <3>1. Recorded' = Recorded
      BY <2>1 DEF Probing, Recorded
    <3> QED
      BY <1>0, <2>1, <3>1, ProbingQueues DEF Probing
  <2>2. CASE PressCtrlC \/ HearCtrlC \/ UNCHANGED allVars
    <3>1. /\ Queued' = Queued /\ Recorded' = Recorded
          /\ UNCHANGED <<produced, current, name, slots, closed>>
          /\ phase' # phase => phase' = "drain"
      BY <2>2 DEF PressCtrlC, HearCtrlC, RequestCancel, allVars, cliVars, vars,
                  controlVars, Queued, Recorded
    <3> QED
      BY <1>0, <3>1
  <2>3. CASE Take
    <3>1. /\ UNCHANGED <<produced, name, slots>> /\ Recorded' = Recorded
          /\ phase' \in {"busy", "drainBusy"} /\ current = NoResult
      BY <1>0, <2>3 DEF Take, Recorded
    <3>2. Queued = Queued' \cup {current'} /\ current' # NoResult
      BY <2>3, TakeMoves, CliAssumption
    <3> QED
      BY <1>0, <3>1, <3>2
  <2>4. CASE Handle
    <3>1. /\ UNCHANGED <<produced, name>> /\ Queued' = Queued
          /\ phase' \in {"select", "drain"} /\ current' = NoResult
          /\ current # NoResult
      BY <1>0, <2>4 DEF Handle, vars, Queued
    <3> QED
      BY <1>0, <2>4, <3>1, HandleRecords
  <2>5. CASE SeeEnd
    <3>1. /\ UNCHANGED <<produced, name, slots, current>> /\ closed'
          /\ Queued' = Queued /\ Recorded' = Recorded
      BY <2>5 DEF SeeEnd, ReceiveNone, Queued, Recorded
    <3> QED
      BY <1>0, <3>1
  <2>6. CASE Finish
    <3>1. /\ UNCHANGED <<produced, name, slots, current, closed>>
          /\ Queued' = Queued /\ Recorded' = Recorded /\ phase = "summary"
      BY <2>6 DEF Finish, vars, controlVars, Queued, Recorded
    <3> QED
      BY <1>0, <3>1
  <2> QED
    BY <2>1, <2>2, <2>3, <2>4, <2>5, <2>6 DEF CliNext, Collector
<1>2. phase' \in {"summary", "exited"} => produced' = Recorded'
  <2> SUFFICES ASSUME phase' \in {"summary", "exited"} PROVE produced' = Recorded'
    OBVIOUS
  <2>1. Queued' = {}
    BY <1>1 DEF ClosedInv, Queued
  <2>2. current' = NoResult
    BY DEF CliTypeOK
  <2> QED
    BY <1>1, <2>1, <2>2
<1> QED
  BY <1>1, <1>2 DEF AllCounted

\* The exit code: computed once, from everything that was produced.
LEMMA ExitStep ==
  ASSUME CliIndInv, AllCounted', [CliNext]_allVars, CliTypeOK'
  PROVE  ExitAgrees'
<1> SUFFICES ASSUME phase' = "exited" PROVE ExitAgrees'
  BY DEF ExitAgrees
<1>1. produced' = Recorded'
  BY DEF AllCounted
<1>2. CASE phase = "exited"
  <2>1. Recorded' = Recorded /\ exitCode' = exitCode
    BY <1>2 DEF CliNext, Probing, PressCtrlC, Collector, HearCtrlC, Take, Handle,
                SeeEnd, Finish, allVars, cliVars, Recorded
  <2>2. produced = Recorded /\ ExitAgrees
    BY <1>2 DEF CliIndInv, AllCounted
  <2> QED
    BY <1>1, <1>2, <2>1, <2>2 DEF ExitAgrees
<1>3. CASE phase # "exited"
  <2>1. Finish
    BY <1>3 DEF CliNext, Probing, PressCtrlC, Collector, HearCtrlC, Take, Handle,
                SeeEnd, allVars, cliVars
  <2>2. produced = Recorded /\ produced' = produced
    BY <2>1 DEF CliIndInv, AllCounted, Finish
  <2>3. exitCode' = 1 \/ \E changed \in BOOLEAN : exitCode' = ExitStatus(changed)
    BY <2>1 DEF Finish
  <2>4. produced \subseteq Result /\ \A r \in produced : r.outcome \in {Pass, ExpectFail, NetFail}
    BY CliAssumption DEF CliIndInv, CliTypeOK, Result
  <2>5. /\ exitCode' = 0 => ~Reported(NetFail) /\ ~Reported(ExpectFail)
        /\ exitCode' = 3 => ~Reported(NetFail) /\ Reported(ExpectFail)
        /\ Reported(NetFail) => exitCode' = 1
    BY <2>3 DEF ExitStatus
  <2> QED
    BY <2>2, <2>4, <2>5 DEF ExitAgrees, Reported
<1> QED
  BY <1>2, <1>3

LEMMA StallStep ==
  ASSUME CliIndInv, [CliNext]_allVars
  PROVE  stalls' = 0 \/ (stalls' = 1 /\ circuit')
<1>1. circuit \in BOOLEAN /\ (stalls = 0 \/ (stalls = 1 /\ circuit))
  BY DEF CliIndInv, CliTypeOK
<1>2. CASE Handle
  BY <1>1, <1>2, ExportCircuit DEF Handle
<1>3. CASE ~Handle
  BY <1>1, <1>3 DEF CliNext, Probing, PressCtrlC, Collector, HearCtrlC, Take, SeeEnd,
                    Finish, allVars, cliVars
<1> QED
  BY <1>2, <1>3

\* The mode keeps its strengthened invariant.
THEOREM CliInvariance == CliSpec => []CliIndInv
<1>1. IndInv /\ IndInv' /\ CliIndInv /\ [CliNext]_allVars => CliIndInv'
  <2> SUFFICES ASSUME IndInv, IndInv', CliIndInv, [CliNext]_allVars PROVE CliIndInv'
    OBVIOUS
  <2>1. TypeOK /\ TypeOK' /\ ClosedInv /\ ClosedInv'
    BY DEF IndInv
  <2>2. CliTypeOK'
    BY <2>1, CliTypeStep
  <2>3. AllCounted' /\ (phase' \in {"summary", "exited"} => closed')
    BY <2>1, <2>2, CountedStep
  <2>4. ExitAgrees'
    BY <2>2, <2>3, ExitStep
  <2> QED
    BY <2>2, <2>3, <2>4, StallStep DEF CliIndInv
<1> QED
  BY CliStarts, RunnerInvariance, <1>1, PTL DEF CliSpec

\* No result a task sent is lost, and each is filed under its own URL, for any
\* number of targets, any channel capacity and any sharing of URLs.
THEOREM ResultsCounted == CliSpec => []AllCounted
BY CliInvariance, PTL DEF CliIndInv

\* Exit code 0, 1 or 3 says what everything that was probed says.
THEOREM ExitCodeTrue == CliSpec => []ExitAgrees
BY CliInvariance, PTL DEF CliIndInv

\* A collector that cannot be reached stalls the run once.
THEOREM CircuitHolds == CliSpec => []OneStall
<1>1. CliIndInv => OneStall
  BY DEF CliIndInv, OneStall
<1> QED
  BY <1>1, CliInvariance, PTL

-----------------------------------------------------------------------------
(* The alerts of --on-breach, each target by itself.                       *)

Event == [id : Nat, event : {"breach", "recover"}, at : Nat]

\* Alerts name results that have been evaluated.
AtInv == \A i \in DOMAIN fired : fired[i].at \in 1..Len(results)

AlertInv == AlertTypeOK /\ AtInv /\ Debounced /\ OneRecoverPerOutage

-----------------------------------------------------------------------------
(* Sequences.                                                              *)

\* An alert adds one entry and leaves the others as they are.
LEMMA AppendFacts ==
    ASSUME NEW S, NEW s \in Seq(S), NEW e \in S
    PROVE  /\ Append(s, e) \in Seq(S)
           /\ Len(s) \in Nat
           /\ Len(Append(s, e)) = Len(s) + 1
           /\ DOMAIN s = 1..Len(s)
           /\ DOMAIN Append(s, e) = 1..(Len(s) + 1)
           /\ \A i \in 1..Len(s) : Append(s, e)[i] = s[i]
           /\ Append(s, e)[Len(s) + 1] = e
  OBVIOUS

\* A row of breaches stays one when a result is added behind it.
LEMMA RowKept ==
    ASSUME NEW s \in Seq(BOOLEAN), NEW b \in BOOLEAN, NEW n \in Nat,
           NEW k \in 0..Len(s), Row(s, k, n)
    PROVE  Row(Append(s, b), k, n)
<1>1. SUFFICES ASSUME NEW j \in (k - n + 1)..k PROVE Append(s, b)[j]
    BY DEF Row
<1>2. j \in 1..Len(s) /\ s[j]
    BY DEF Row
<1> QED
    BY <1>2, AppendFacts

\* One more breach lengthens the row by one.
LEMMA RowGrows ==
    ASSUME NEW s \in Seq(BOOLEAN), NEW n \in Nat, Row(s, Len(s), n)
    PROVE  Row(Append(s, TRUE), Len(s) + 1, n + 1)
<1>0. Len(s) \in Nat
    OBVIOUS
<1>1. SUFFICES ASSUME NEW j \in (Len(s) - n + 1)..(Len(s) + 1)
               PROVE  Append(s, TRUE)[j]
    BY <1>0 DEF Row
<1>2. CASE j = Len(s) + 1
    BY <1>2, AppendFacts
<1>3. CASE j # Len(s) + 1
  <2>1. j \in (Len(s) - n + 1)..Len(s) /\ j \in 1..Len(s)
      BY <1>0, <1>3 DEF Row
  <2>2. s[j]
      BY <2>1 DEF Row
  <2> QED
      BY <2>1, <2>2, AppendFacts
<1> QED
    BY <1>2, <1>3

\* The end of a row is a row.
LEMMA RowSuffix ==
    ASSUME NEW s, NEW k \in Nat, NEW n \in Nat, NEW m \in Nat, m <= n,
           Row(s, k, n)
    PROVE  Row(s, k, m)
  BY DEF Row

-----------------------------------------------------------------------------
(* The invariant.                                                          *)

LEMMA AlertStarts == AlertInit => AlertInv
<1> SUFFICES ASSUME AlertInit PROVE AlertInv
    OBVIOUS
<1>1. DOMAIN fired = {} /\ Len(results) = 0 /\ Len(fired) = 0
    BY DEF AlertInit
<1>2. AlertTypeOK
  <2>1. results \in Seq(BOOLEAN) /\ fired \in Seq(Event)
      BY DEF AlertInit
  <2>2. Row(results, Len(results), consecutive)
      BY <1>1 DEF AlertInit, Row
  <2>3. breaching \in BOOLEAN /\ ~breaching
      BY Zenon DEF AlertInit
  <2>4. consecutive = 0 /\ consecutive \in Nat /\ ~(consecutive > 0)
      BY SMT DEF AlertInit
  <2>5. consecutive < Len(results) => ~results[Len(results) - consecutive]
      BY <1>1, <2>4
  <2>6. quiet \in 0..Cooldown /\ (age = Never /\ quiet = Cooldown)
      BY AlertAssumption, SMT DEF AlertInit
  <2>7. posts = {} /\ posted \cup warned = {}
      BY DEF AlertInit
  <2> QED
      BY <1>1, <2>1, <2>2, <2>3, <2>4, <2>5, <2>6, <2>7, Zenon DEF AlertTypeOK, Event
<1>3. AtInv /\ Debounced
    BY <1>1 DEF AtInv, Debounced, Breaches
<1>4. OneRecoverPerOutage
    BY <1>1 DEF OneRecoverPerOutage, Recovers
<1> QED
    BY <1>2, <1>3, <1>4 DEF AlertInv

\* What Fire does to the list of alerts.
LEMMA FireFacts ==
    ASSUME AlertTypeOK, NEW e \in {"breach", "recover"}, Fire(e)
    PROVE  LET n == Len(fired) + 1
               k == Len(results) + 1 IN
           /\ n \in Nat \ {0} /\ k \in Nat \ {0}
           /\ fired' \in Seq(Event)
           /\ DOMAIN fired = 1..Len(fired)
           /\ DOMAIN fired' = 1..n
           /\ \A i \in DOMAIN fired : fired'[i] = fired[i]
           /\ fired'[n].id = n /\ fired'[n].event = e /\ fired'[n].at = k
           /\ posts' \subseteq {fired'[i] : i \in DOMAIN fired'}
           /\ quiet' = IF e = "breach" THEN 0 ELSE quiet
<1> DEFINE a == [id |-> Len(fired) + 1, event |-> e, at |-> Len(results) + 1]
<1>1. fired \in Seq(Event) /\ results \in Seq(BOOLEAN)
    BY DEF AlertTypeOK, Event
<1>2. Len(fired) \in Nat /\ Len(results) \in Nat
    BY <1>1
<1>3. a \in Event /\ a.id = Len(fired) + 1 /\ a.event = e /\ a.at = Len(results) + 1
    BY <1>2 DEF Event
<1>4. fired' = Append(fired, a) /\ posts' = posts \cup {a}
    BY DEF Fire
<1> HIDE DEF a
<1>5. /\ fired' \in Seq(Event)
      /\ DOMAIN fired = 1..Len(fired)
      /\ DOMAIN fired' = 1..(Len(fired) + 1)
      /\ \A i \in 1..Len(fired) : fired'[i] = fired[i]
      /\ fired'[Len(fired) + 1] = a
    BY <1>1, <1>3, <1>4, AppendFacts
<1>6. posts' \subseteq {fired'[i] : i \in DOMAIN fired'}
  <2>1. \A p \in posts : \E i \in DOMAIN fired : p = fired[i]
      BY DEF AlertTypeOK
  <2>2. \A p \in posts : \E i \in DOMAIN fired' : p = fired'[i]
      BY <2>1, <1>5, <1>2
  <2>3. \E i \in DOMAIN fired' : a = fired'[i]
      BY <1>5, <1>2
  <2> QED
      BY <2>2, <2>3, <1>4
<1> QED
    BY <1>2, <1>3, <1>5, <1>6 DEF Fire

\* What every result does to the run.
LEMMA EvaluateFacts ==
    ASSUME AlertTypeOK, NEW b \in BOOLEAN, Evaluate(b)
    PROVE  /\ results \in Seq(BOOLEAN) /\ results' \in Seq(BOOLEAN)
           /\ Len(results) \in Nat /\ Len(results') = Len(results) + 1
           /\ DOMAIN results = 1..Len(results)
           /\ DOMAIN results' = 1..(Len(results) + 1)
           /\ \A j \in 1..Len(results) : results'[j] = results[j]
           /\ results'[Len(results) + 1] = b
           /\ \A k \in 0..Len(results), n \in Nat :
                 Row(results, k, n) => Row(results', k, n)
<1>1. results \in Seq(BOOLEAN) /\ results' = Append(results, b)
    BY DEF AlertTypeOK, Evaluate
<1>2. \A k \in 0..Len(results), n \in Nat :
         Row(results, k, n) => Row(results', k, n)
    BY <1>1, RowKept
<1> QED
    BY <1>1, <1>2, AppendFacts

\* A breach lengthens the outage.
LEMMA OutageGrows ==
    ASSUME AlertTypeOK, Evaluate(TRUE)
    PROVE  Row(results', Len(results) + 1, consecutive + 1)
<1>1. results \in Seq(BOOLEAN) /\ consecutive \in Nat
      /\ Row(results, Len(results), consecutive) /\ results' = Append(results, TRUE)
    BY DEF AlertTypeOK, Evaluate
<1> QED
    BY <1>1, RowGrows

LEMMA ThresholdType == Threshold \in Nat /\ Threshold >= 1 /\ Threshold >= BreachAfter
  BY AlertAssumption DEF Threshold

-----------------------------------------------------------------------------
(* The tracker agrees with the past.                                       *)

LEMMA EvaluateType ==
    ASSUME AlertTypeOK, NEW b \in BOOLEAN, Evaluate(b)
    PROVE  AlertTypeOK'
<1> USE EvaluateFacts
<1>1. /\ fired' \in Seq(Event)
      /\ posts' \subseteq {fired'[i] : i \in DOMAIN fired'}
      /\ DOMAIN fired \subseteq DOMAIN fired'
      /\ \A i \in DOMAIN fired' : fired'[i].id = i
  <2>1. CASE NoFire
      BY <2>1 DEF NoFire, AlertTypeOK, Event
  <2>2. CASE \E e \in {"breach", "recover"} : Fire(e)
    <3>1. PICK e \in {"breach", "recover"} : Fire(e)
        BY <2>2
    <3>2. \A i \in DOMAIN fired' : i \in DOMAIN fired \/ i = Len(fired) + 1
        BY <3>1, FireFacts
    <3>3. \A i \in DOMAIN fired' : fired'[i].id = i
        BY <3>1, <3>2, FireFacts DEF AlertTypeOK
    <3> QED
        BY <3>1, <3>3, FireFacts
  <2> QED
      BY <2>1, <2>2 DEF Evaluate, Breached, Passed
<1>2. posted' \cup warned' \subseteq DOMAIN fired'
    BY <1>1 DEF AlertTypeOK, Evaluate
<1>3. CASE b
  <2>0. b = TRUE /\ Breached
      BY <1>3 DEF Evaluate
  <2>1. consecutive' = consecutive + 1 /\ consecutive \in Nat
      BY <2>0 DEF Breached, AlertTypeOK
  <2>2. Row(results', Len(results'), consecutive')
      BY <2>0, <2>1, OutageGrows
  <2>3. consecutive' < Len(results') => ~results'[Len(results') - consecutive']
    <3>1. SUFFICES ASSUME consecutive < Len(results)
                   PROVE  ~results'[Len(results) - consecutive]
        BY <2>1
    <3>2. ~results[Len(results) - consecutive]
        BY <3>1 DEF AlertTypeOK
    <3>3. Len(results) - consecutive \in 1..Len(results)
        BY <3>1, <2>1
    <3> QED
        BY <3>2, <3>3
  <2>4. breaching' \in BOOLEAN /\ (breaching' <=> consecutive' > 0)
      BY <2>0, <2>1 DEF Breached
  <2>5. /\ age' = quiet' \/ (age' = Never /\ quiet' = Cooldown)
        /\ quiet' \in 0..Cooldown
    <3>1. CASE Fire("breach") /\ age' = 0
        BY <3>1, AlertAssumption DEF Fire
    <3>2. CASE NoFire /\ UNCHANGED age
        BY <3>2 DEF NoFire, AlertTypeOK
    <3> QED
        BY <3>1, <3>2, <2>0 DEF Breached
  <2> QED
      BY <1>1, <1>2, <2>1, <2>2, <2>3, <2>4, <2>5 DEF AlertTypeOK, Event
<1>4. CASE ~b
  <2>0. b = FALSE /\ Passed
      BY <1>4 DEF Evaluate
  <2>1. consecutive' = 0 /\ breaching' = FALSE /\ age' = age
      BY <2>0 DEF Passed
  <2>2. Row(results', Len(results'), consecutive')
      BY <2>1 DEF Row
  <2>3. ~results'[Len(results') - consecutive']
      BY <2>0, <2>1
  <2>4. quiet' = quiet
      BY <2>0 DEF Passed, Fire, NoFire
  <2>5. breaching' \in BOOLEAN /\ (breaching' <=> consecutive' > 0)
    <3>1. breaching' \in BOOLEAN /\ ~breaching'
        BY <2>1, Zenon
    <3>2. ~(consecutive' > 0)
        BY <2>1, SMT
    <3> QED
        BY <3>1, <3>2, Zenon
  <2> QED
      BY <1>1, <1>2, <2>1, <2>2, <2>3, <2>4, <2>5 DEF AlertTypeOK, Event
<1> QED
    BY <1>3, <1>4

\* Neither a POST that ends nor time touches the tracker's view of the past.
LEMMA OtherType == AlertTypeOK /\ (Post \/ AlertTick \/ UNCHANGED alertVars) => AlertTypeOK'
<1> SUFFICES ASSUME AlertTypeOK PROVE (Post \/ AlertTick \/ UNCHANGED alertVars) => AlertTypeOK'
    OBVIOUS
<1>1. CASE Post
  <2>1. PICK a \in posts : /\ posts' = posts \ {a}
                           /\ \/ posted' = posted \cup {a.id} /\ UNCHANGED warned
                              \/ warned' = warned \cup {a.id} /\ UNCHANGED posted
                           /\ UNCHANGED <<consecutive, breaching, age,
                                          fired, results, quiet>>
      BY <1>1 DEF Post
  <2>2. a.id \in DOMAIN fired
      BY DEF AlertTypeOK
  <2> QED
      BY <2>1, <2>2, SMTT(30) DEF AlertTypeOK
<1>2. CASE AlertTick
    BY <1>2, AlertAssumption DEF AlertTick, AlertTypeOK, Never
<1>3. CASE UNCHANGED alertVars
    BY <1>3 DEF alertVars, AlertTypeOK
<1> QED
    BY <1>1, <1>2, <1>3
-----------------------------------------------------------------------------
(* Debounce and recovery.                                                  *)

\* A result leaves the earlier alerts alone; the new one, if any, is of that
\* result.
LEMMA EvaluateAlerts ==
    ASSUME AlertTypeOK, NEW b \in BOOLEAN, Evaluate(b)
    PROVE  LET n == Len(fired) + 1
               k == Len(results) + 1 IN
           \/ fired' = fired
           \/ /\ n \notin DOMAIN fired
              /\ DOMAIN fired' = DOMAIN fired \cup {n}
              /\ \A i \in DOMAIN fired : fired'[i] = fired[i]
              /\ fired'[n].at = k
              /\ IF b THEN fired'[n].event = "breach" /\ Breached
                      ELSE fired'[n].event = "recover" /\ Passed
<1>1. CASE NoFire
    BY <1>1 DEF NoFire
<1>2. CASE b /\ Fire("breach")
    BY <1>2, FireFacts DEF Evaluate
<1>3. CASE ~b /\ Fire("recover")
    BY <1>3, FireFacts DEF Evaluate
<1> QED
    BY <1>1, <1>2, <1>3 DEF Evaluate, Breached, Passed

\* The alert of a result is of a result evaluated.
LEMMA EvaluateAt ==
    ASSUME AlertTypeOK, AtInv, NEW b \in BOOLEAN, Evaluate(b)
    PROVE  AtInv'
  BY EvaluateFacts, EvaluateAlerts DEF AtInv

\* A breach alert is raised only behind Threshold breaches in a row, and later
\* results do not undo that row.
LEMMA EvaluateDebounced ==
    ASSUME AlertTypeOK, AtInv, Debounced, NEW b \in BOOLEAN, Evaluate(b)
    PROVE  Debounced'
<1> DEFINE n == Len(fired) + 1
           k == Len(results) + 1
<1>1. SUFFICES ASSUME NEW i \in DOMAIN fired', fired'[i].event = "breach"
               PROVE  Row(results', fired'[i].at, BreachAfter)
    BY DEF Debounced, Breaches
<1>2. CASE i \in DOMAIN fired /\ fired'[i] = fired[i]
  <2>1. Row(results, fired[i].at, BreachAfter)
      BY <1>1, <1>2 DEF Debounced, Breaches
  <2>2. fired[i].at \in 0..Len(results)
      BY <1>2, EvaluateFacts DEF AtInv
  <2> QED
      BY <1>2, <2>1, <2>2, EvaluateFacts, AlertAssumption
<1>3. CASE i = n /\ fired'[n].at = k /\ b /\ Breached /\ fired' # fired
  <2>1. consecutive + 1 >= Threshold /\ consecutive \in Nat
      BY <1>3 DEF Breached, NoFire, AlertTypeOK
  <2>2. b = TRUE
      BY <1>3
  <2>3. Row(results', k, consecutive + 1)
      BY <2>2, OutageGrows
  <2>4. k \in Nat /\ BreachAfter \in Nat /\ BreachAfter <= consecutive + 1
      BY <2>1, ThresholdType, AlertAssumption, EvaluateFacts
  <2>5. Row(results', k, BreachAfter)
      BY <2>1, <2>3, <2>4, RowSuffix
  <2> QED
      BY <1>3, <2>5
<1> QED
    BY <1>1, <1>2, <1>3, EvaluateAlerts

\* Recoveries and the results that end an outage stay in step.
LEMMA EvaluateRecover ==
    ASSUME AlertTypeOK, AtInv, OneRecoverPerOutage, NEW b \in BOOLEAN, Evaluate(b)
    PROVE  OneRecoverPerOutage'
<1> DEFINE n == Len(fired) + 1
           k == Len(results) + 1
           Ends == {j \in 2..Len(results) : results[j - 1] /\ ~results[j]}
           At == {fired[i].at : i \in Recovers}
<1>1. SUFFICES ASSUME OnRecover PROVE At' = Ends'
    BY DEF OneRecoverPerOutage
<1>2. At = Ends
    BY <1>1 DEF OneRecoverPerOutage
<1>3. k \in Nat \ {0}
    BY EvaluateFacts
<1>4. breaching <=> Len(results) > 0 /\ results[Len(results)]
  <2>1. CASE consecutive > 0
      BY <2>1, EvaluateFacts DEF AlertTypeOK, Row
  <2>2. CASE consecutive = 0
      BY <2>2, EvaluateFacts DEF AlertTypeOK
  <2> QED
      BY <2>1, <2>2 DEF AlertTypeOK
<1>5. Ends' = IF ~b /\ breaching THEN Ends \cup {k} ELSE Ends
  <2>1. \A j \in 2..Len(results) : results'[j] = results[j] /\ results'[j - 1] = results[j - 1]
      BY EvaluateFacts
  <2>2. Ends' = {j \in 2..k : results'[j - 1] /\ ~results'[j]}
      BY EvaluateFacts
  <2>3. \A j : j \in 2..k <=> j \in 2..Len(results) \/ (j = k /\ Len(results) > 0)
      BY EvaluateFacts
  <2>4. k \in 2..k /\ results'[k - 1] /\ ~results'[k] <=> ~b /\ breaching
      BY <1>4, EvaluateFacts
  <2>5. k \notin 2..Len(results)
      BY EvaluateFacts
  <2> QED
      BY <2>1, <2>2, <2>3, <2>4, <2>5
<1>6. At' = IF ~b /\ breaching THEN At \cup {k} ELSE At
  <2>1. CASE ~b /\ breaching
    <3>1. Fire("recover")
        BY <1>1, <2>1 DEF Evaluate, Passed
    <3>2. /\ n \notin DOMAIN fired /\ DOMAIN fired' = DOMAIN fired \cup {n}
          /\ \A i \in DOMAIN fired : fired'[i] = fired[i]
          /\ fired'[n].at = k /\ fired'[n].event = "recover"
        BY <3>1, FireFacts
    <3>3. Recovers' = Recovers \cup {n}
        BY <3>2 DEF Recovers
    <3>4. \A i \in Recovers : fired'[i].at = fired[i].at
        BY <3>2 DEF Recovers
    <3> QED
        BY <2>1, <3>2, <3>3, <3>4
  <2>2. CASE b
    <3>1. Recovers' = Recovers
        BY <2>2, EvaluateAlerts DEF Recovers
    <3>2. \A i \in Recovers : fired'[i].at = fired[i].at
        BY EvaluateAlerts DEF Recovers
    <3> QED
        BY <2>2, <3>1, <3>2
  <2>3. CASE ~b /\ ~breaching
      BY <2>3 DEF Evaluate, Passed, NoFire, Recovers
  <2> QED
      BY <2>1, <2>2, <2>3
<1> QED
    BY <1>2, <1>5, <1>6
-----------------------------------------------------------------------------
(* The theorems.                                                           *)

\* Steps that evaluate no result leave the invariant alone.
LEMMA OtherInd == AlertInv /\ (Post \/ AlertTick \/ UNCHANGED alertVars) => AlertInv'
<1> SUFFICES ASSUME AlertInv, Post \/ AlertTick \/ UNCHANGED alertVars PROVE AlertInv'
    OBVIOUS
<1>1. AlertTypeOK'
    BY OtherType DEF AlertInv
<1>2. UNCHANGED <<fired, results>>
    BY DEF Post, AlertTick, alertVars
<1>3. AtInv' /\ Debounced' /\ OneRecoverPerOutage'
    BY <1>2 DEF AlertInv, AtInv, Debounced, OneRecoverPerOutage, Breaches, Recovers
<1> QED
    BY <1>1, <1>3 DEF AlertInv

LEMMA StepInd == AlertInv /\ [AlertNext]_alertVars => AlertInv'
<1> SUFFICES ASSUME AlertInv, [AlertNext]_alertVars PROVE AlertInv'
    OBVIOUS
<1>1. CASE \E b \in BOOLEAN : Evaluate(b)
  <2>1. PICK b \in BOOLEAN : Evaluate(b)
      BY <1>1
  <2> QED
      BY <2>1, EvaluateType, EvaluateAt, EvaluateDebounced, EvaluateRecover DEF AlertInv
<1>2. CASE Post \/ AlertTick \/ UNCHANGED alertVars
    BY <1>2, OtherInd
<1> QED
    BY <1>1, <1>2 DEF AlertNext

\* The strengthened invariant behind the theorems below.
THEOREM AlertInvariance == AlertSpec => []AlertInv
<1>1. AlertInit => AlertInv
    BY AlertStarts
<1>2. AlertInv /\ [AlertNext]_alertVars => AlertInv'
    BY StepInd
<1> QED
    BY <1>1, <1>2, PTL DEF AlertSpec

\* BreachTracker's three fields always tell the truth about the results so far.
THEOREM AlertTypeCorrect == AlertSpec => []AlertTypeOK
<1>1. AlertInv => AlertTypeOK
    BY DEF AlertInv
<1> QED
    BY <1>1, AlertInvariance, PTL

\* No alert without --breach-after breaches in a row, for every value of it.
THEOREM DebounceHolds == AlertSpec => []Debounced
<1>1. AlertInv => Debounced
    BY DEF AlertInv
<1> QED
    BY <1>1, AlertInvariance, PTL

\* With --on-recover exactly the results that end an outage raise a recovery.
THEOREM RecoverHolds == AlertSpec => []OneRecoverPerOutage
<1>1. AlertInv => OneRecoverPerOutage
    BY DEF AlertInv
<1> QED
    BY <1>1, AlertInvariance, PTL

\* So no alert comes without its outage, be it a breach or a recovery.
THEOREM AlertsAreEarned == AlertSpec => []AlertsEarned
BY DebounceHolds, RecoverHolds, PTL DEF AlertsEarned

\* A step that evaluates no result raises no alert and adds no result.
LEMMA OtherQuiet ==
    ASSUME Post \/ AlertTick \/ UNCHANGED alertVars
    PROVE  DOMAIN fired' = DOMAIN fired /\ DOMAIN results' = DOMAIN results
  BY DEF Post, AlertTick, alertVars

\* Breach alerts keep a cooldown's distance, for every value of --cooldown.
THEOREM CooldownHolds == AlertSpec => CooldownKept
<1> DEFINE Kept == \A i \in DOMAIN fired' \ DOMAIN fired :
                     fired'[i].event = "breach" => quiet >= Cooldown
<1>1. AlertInv /\ [AlertNext]_alertVars => [Kept]_alertVars
  <2> SUFFICES ASSUME AlertInv, AlertNext PROVE Kept
      OBVIOUS
  <2>1. CASE \E b \in BOOLEAN : Evaluate(b)
    <3>1. PICK b \in BOOLEAN : Evaluate(b)
        BY <2>1
    <3>2. SUFFICES ASSUME NEW i \in DOMAIN fired' \ DOMAIN fired,
                          fired'[i].event = "breach"
                   PROVE  quiet >= Cooldown
        OBVIOUS
    <3>3. Breached /\ fired' # fired
        BY <3>1, <3>2, EvaluateAlerts DEF AlertInv
    <3>4. Cooled
        BY <3>3 DEF Breached, NoFire
    <3> QED
        BY <3>4, AlertAssumption DEF Cooled, AlertInv, AlertTypeOK, Never
  <2>2. CASE Post \/ AlertTick
      BY <2>2, OtherQuiet
  <2> QED
      BY <2>1, <2>2 DEF AlertNext
<1> QED
    BY <1>1, AlertInvariance, PTL DEF AlertSpec, CooldownKept

\* An outage past the debounce, with the cooldown over, is alerted at once.
THEOREM LongOutageHolds == AlertSpec => LongOutageAlerts
<1> DEFINE Alerted ==
        \A k \in DOMAIN results' \ DOMAIN results :
            Row(results', k, Threshold) /\ quiet >= Cooldown
                => \E i \in DOMAIN fired' :
                      fired'[i].event = "breach" /\ fired'[i].at = k
<1>1. AlertInv /\ [AlertNext]_alertVars => [Alerted]_alertVars
  <2> SUFFICES ASSUME AlertInv, AlertNext PROVE Alerted
      OBVIOUS
  <2>1. CASE \E b \in BOOLEAN : Evaluate(b)
    <3>1. PICK b \in BOOLEAN : Evaluate(b)
        BY <2>1
    <3>2. SUFFICES ASSUME NEW k \in DOMAIN results' \ DOMAIN results,
                          Row(results', k, Threshold), quiet >= Cooldown
                   PROVE  \E i \in DOMAIN fired' :
                              fired'[i].event = "breach" /\ fired'[i].at = k
        OBVIOUS
    <3>3. AlertTypeOK
        BY DEF AlertInv
    <3>4. k = Len(results) + 1
        BY <3>1, <3>2, <3>3, EvaluateFacts
    <3>5. Threshold \in Nat /\ Threshold >= 1
        BY ThresholdType
    <3>6. b /\ Breached
      <4>1. k \in (k - Threshold + 1)..k
          BY <3>1, <3>3, <3>4, <3>5, EvaluateFacts
      <4>2. results'[k]
          BY <3>2, <4>1 DEF Row
      <4> QED
          BY <3>1, <3>3, <3>4, <4>2, EvaluateFacts DEF Evaluate
    <3>7. consecutive + 1 >= Threshold
      <4>1. SUFFICES ASSUME consecutive + 1 < Threshold PROVE FALSE
          BY <3>3, <3>5 DEF AlertTypeOK
      <4>2. Threshold <= k /\ consecutive \in Nat /\ Len(results) \in Nat
          BY <3>1, <3>2, <3>3, EvaluateFacts DEF AlertTypeOK, Row
      <4>3. consecutive < Len(results)
          BY <3>4, <4>1, <4>2, <3>5
      <4>4. /\ Len(results) - consecutive \in 1..Len(results)
            /\ Len(results) - consecutive \in (k - Threshold + 1)..k
          BY <3>4, <4>1, <4>2, <4>3, <3>5
      <4>5. results'[Len(results) - consecutive]
          BY <3>2, <4>4 DEF Row
      <4>6. ~results[Len(results) - consecutive]
          BY <3>3, <4>3 DEF AlertTypeOK
      <4> QED
          BY <3>1, <3>3, <4>4, <4>5, <4>6, EvaluateFacts
    <3>8. Cooled
        BY <3>2, <3>3, AlertAssumption DEF Cooled, AlertTypeOK
    <3>9. Fire("breach")
        BY <3>6, <3>7, <3>8 DEF Breached
    <3> QED
        BY <3>3, <3>4, <3>9, FireFacts
  <2>2. CASE Post \/ AlertTick
      BY <2>2, OtherQuiet
  <2> QED
      BY <2>1, <2>2 DEF AlertNext
<1> QED
    BY <1>1, AlertInvariance, PTL DEF AlertSpec, LongOutageAlerts
=============================================================================
