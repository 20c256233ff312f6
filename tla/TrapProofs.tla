------------------------------ MODULE TrapProofs ------------------------------
(***************************************************************************)
(* run_trap_mode uses the probe loop as ProbeRunner allows, and the        *)
(* session it saves is whole, for any number of targets and any capacity   *)
(* of the channel.  As long as the trap waits, what it has captured is     *)
(* what has been received; once it has sprung, nothing is added.           *)
(***************************************************************************)
EXTENDS TrapMode, ProbeRunnerProofs

\* Every step of the mode is a step of the probe loop or leaves it alone.
THEOREM TrapUsesRunner == TrapSpec => RunnerSpec
<1>1. TrapInit => Init
  BY DEF TrapInit
<1>2. [TrapNext]_allVars => [Next]_vars
  <2> SUFFICES ASSUME [TrapNext]_allVars PROVE [Next]_vars
    OBVIOUS
  <2>1. CASE Probing
    BY <2>1 DEF Probing, Next
  <2>2. CASE PressCtrlC \/ Save \/ UNCHANGED allVars
    BY <2>2 DEF PressCtrlC, Save, allVars
  <2>3. CASE TakePass \/ Spring \/ Stop \/ Discard \/ SeeEnd
    BY <2>3 DEF TakePass, Spring, Stop, Discard, SeeEnd, Next, Consumer
  <2> QED
    BY <2>1, <2>2, <2>3 DEF TrapNext, Collector
<1> QED
  BY <1>1, <1>2, PTL DEF TrapSpec, RunnerSpec, Spec

\* The probe loop's own invariant, inside this mode.
THEOREM TrapRunnerInvariance == TrapSpec => []IndInv
BY TrapUsesRunner, Invariance DEF RunnerSpec

-----------------------------------------------------------------------------
(* The inductive invariant.                                                *)

\* While the trap waits: passes only, of each target exactly those received.
Waiting ==
    /\ failing = NoResult
    /\ \A i \in DOMAIN captured : /\ captured[i].outcome = Pass
                                  /\ captured[i].seq < recvd[captured[i].target]
    /\ \A t \in Targets : \A s \in Nat : s < recvd[t] =>
          \E i \in DOMAIN captured : captured[i].target = t /\ captured[i].seq = s

\* The results of a target are there without a gap, up to the i-th of all.
Gapless(s, i) ==
    LET before == {j \in 1..(i - 1) : s[j].target = s[i].target}
    IN \A n \in 0..s[i].seq : (\E j \in before : s[j].seq = n) <=> n < s[i].seq

TrapInd == /\ TrapTypeOK
           /\ phase # "exited" => session = NoResult
           /\ phase = "select" => Waiting
           /\ SessionIsWhole

LEMMA TrapStarts == TrapInit => TrapInd
<1> SUFFICES ASSUME TrapInit PROVE TrapInd
  OBVIOUS
<1>1. TrapTypeOK
  <2>1. captured \in Seq(Result)
    BY DEF TrapInit
  <2>2. phase \in Phases /\ phase \notin {"drain", "saving", "exited"}
    BY DEF TrapInit, Phases
  <2> QED
    BY <2>1, <2>2 DEF TrapInit, TrapTypeOK
<1>2. Waiting
  <2>1. \A t \in Targets : recvd[t] = 0
    BY DEF TrapInit, Init
  <2>2. captured = <<>> /\ failing = NoResult /\ DOMAIN captured = {}
    BY DEF TrapInit
  <2> QED
    BY <2>1, <2>2 DEF Waiting
<1>3. SessionIsWhole
  BY DEF TrapInit, SessionIsWhole
<1> QED
  BY <1>1, <1>2, <1>3 DEF TrapInd, TrapInit

-----------------------------------------------------------------------------
(* Steps.                                                                  *)

\* The head of the channel is the next result of its target.
LEMMA HeadReceived ==
  ASSUME TypeOK, ChannelInv, chan # <<>>, Receive
  PROVE  /\ Head(chan) \in Result
         /\ Head(chan).seq = recvd[Head(chan).target]
         /\ recvd \in [Targets -> Nat]
         /\ recvd' = [recvd EXCEPT ![Head(chan).target] = @ + 1]
<1>1. HeadInOrder
  BY HeadIsNext
<1> QED
  BY <1>1, ReceiveCounts DEF HeadInOrder, TypeOK

\* Adding the next result of a target leaves no gap.
LEMMA AppendGapless ==
  ASSUME TypeOK, ChannelInv, chan # <<>>, Receive,
         captured \in Seq(Result), Waiting, SessionIsWhole,
         captured' = Append(captured, Head(chan))
  PROVE  \A i \in DOMAIN captured' : Gapless(captured', i)
<1> DEFINE r == Head(chan)
           n == Len(captured)
<1>1. /\ r \in Result /\ r.seq = recvd[r.target] /\ recvd \in [Targets -> Nat]
      /\ r.target \in Targets /\ r.seq \in Nat
  BY HeadReceived DEF Result
<1>2. /\ DOMAIN captured = 1..n /\ n \in Nat /\ DOMAIN captured' = 1..(n + 1)
      /\ \A i \in 1..n : captured'[i] = captured[i] /\ captured[i] \in Result
      /\ captured'[n + 1] = r
  OBVIOUS
<1>3. ASSUME NEW i \in 1..n PROVE Gapless(captured', i)
  <2>1. Gapless(captured, i)
    BY <1>2 DEF SessionIsWhole, Gapless
  <2>2. \A j \in 1..(i - 1) : captured'[j] = captured[j]
    BY <1>2
  <2>3. captured'[i] = captured[i]
    BY <1>2
  <2> QED
    BY <2>1, <2>2, <2>3 DEF Gapless
<1>4. Gapless(captured', n + 1)
  <2> SUFFICES ASSUME NEW s \in 0..r.seq
               PROVE  (\E j \in {j \in 1..n : captured'[j].target = r.target} :
                          captured'[j].seq = s) <=> s < r.seq
    BY <1>2 DEF Gapless
  <2>1. ASSUME s < r.seq
        PROVE  \E j \in 1..n : captured[j].target = r.target /\ captured[j].seq = s
    <3>1. s \in Nat /\ s < recvd[r.target]
      BY <2>1, <1>1
    <3>2. \A t \in Targets : \A q \in Nat : q < recvd[t] =>
              \E i \in DOMAIN captured : captured[i].target = t /\ captured[i].seq = q
      BY Zenon DEF Waiting
    <3>3. DOMAIN captured = 1..n /\ r.target \in Targets
      BY <1>1, <1>2
    <3> HIDE DEF n, r
    <3>4. PICK i \in DOMAIN captured : captured[i].target = r.target /\ captured[i].seq = s
      BY <3>1, <3>2, <3>3
    <3>5. i \in 1..n
      BY <3>3, <3>4
    <3> QED
      BY <3>4, <3>5
  <2>2. ASSUME NEW j \in 1..n, captured[j].target = r.target, captured[j].seq = s
        PROVE  s < r.seq
    BY <2>2, <1>1, <1>2 DEF Waiting
  <2> QED
    BY <2>1, <2>2, <1>2
<1> QED
  BY <1>2, <1>3, <1>4

\* A pass is added: the trap still knows all it has received.
LEMMA TakeKeepsAll ==
  ASSUME TypeOK, ChannelInv, TrapInd, TakePass
  PROVE  TrapInd'
<1> DEFINE r == Head(chan)
           n == Len(captured)
<1> USE DEF TakePass
<1>1. /\ chan # <<>> /\ Waiting /\ SessionIsWhole /\ captured \in Seq(Result)
      /\ TrapTypeOK
  BY DEF TrapInd, TrapTypeOK, Receive
<1>2. /\ r \in Result /\ r.seq = recvd[r.target] /\ recvd \in [Targets -> Nat]
      /\ r.target \in Targets /\ r.seq \in Nat
      /\ recvd' = [recvd EXCEPT ![r.target] = @ + 1]
  BY <1>1, HeadReceived DEF Result
<1>3. /\ DOMAIN captured = 1..n /\ n \in Nat /\ DOMAIN captured' = 1..(n + 1)
      /\ \A i \in 1..n : captured'[i] = captured[i] /\ captured[i] \in Result
      /\ captured'[n + 1] = r /\ captured' \in Seq(Result) /\ Len(captured') = n + 1
  BY <1>1, <1>2
<1>4. TrapTypeOK'
  BY <1>1, <1>3 DEF TrapTypeOK, TrapInd, Phases, NoExit
<1>5. Waiting'
  <2>1. ASSUME NEW i \in 1..(n + 1)
        PROVE  /\ captured'[i].outcome = Pass
               /\ captured'[i].seq < recvd'[captured'[i].target]
    <3>1. CASE i = n + 1
      BY <3>1, <1>2, <1>3
    <3>2. CASE i \in 1..n
      <4>1. captured[i].seq < recvd[captured[i].target]
        BY <3>2, <1>1, <1>3 DEF Waiting
      <4>2. captured[i].target \in Targets /\ captured[i].seq \in Nat
        BY <3>2, <1>3 DEF Result
      <4>3. recvd[captured[i].target] <= recvd'[captured[i].target]
        BY <4>2, <1>2
      <4>4. recvd[captured[i].target] \in Nat /\ recvd'[captured[i].target] \in Nat
        BY <4>2, <1>2
      <4>5. captured[i].outcome = Pass
        BY <3>2, <1>1, <1>3 DEF Waiting
      <4>6. captured'[i] = captured[i]
        BY <3>2, <1>3
      <4> QED
        BY <4>1, <4>2, <4>3, <4>4, <4>5, <4>6
    <3> QED
      BY <3>1, <3>2, <1>3
  <2>2. ASSUME NEW t \in Targets, NEW s \in Nat, s < recvd'[t]
        PROVE  \E i \in 1..(n + 1) : captured'[i].target = t /\ captured'[i].seq = s
    <3>1. CASE t = r.target /\ s = r.seq
      BY <3>1, <1>3
    <3>2. CASE ~(t = r.target /\ s = r.seq)
      <4>1. s < recvd[t]
        BY <3>2, <2>2, <1>2
      <4>2. PICK i \in 1..n : captured[i].target = t /\ captured[i].seq = s
        BY <4>1, <1>1, <1>3 DEF Waiting
      <4> QED
        BY <4>2, <1>3
    <3> QED
      BY <3>1, <3>2
  <2>3. failing' = NoResult
    BY <1>1 DEF Waiting
  <2> QED
    BY <2>1, <2>2, <2>3, <1>3 DEF Waiting
<1>6. SessionIsWhole'
  <2>1. \A i \in DOMAIN captured' : Gapless(captured', i)
    BY <1>1, AppendGapless
  <2>2. \A i \in DOMAIN captured' : captured'[i].outcome = Pass /\ captured'[i] # NoResult
    BY <1>5, <1>3, <1>2, TrapAssumption DEF Waiting
  <2>3. failing' = NoResult
    BY <1>5 DEF Waiting
  <2> QED
    BY <2>1, <2>2, <2>3 DEF SessionIsWhole, Gapless
<1> QED
  BY <1>4, <1>5, <1>6 DEF TrapInd

\* The failure is the last result captured.
LEMMA SpringIsLast ==
  ASSUME TypeOK, ChannelInv, TrapInd, Spring
  PROVE  TrapInd'
<1> DEFINE r == Head(chan)
           n == Len(captured)
<1> USE DEF Spring
<1>1. /\ chan # <<>> /\ Waiting /\ SessionIsWhole /\ captured \in Seq(Result)
      /\ TrapTypeOK
  BY DEF TrapInd, TrapTypeOK, Receive
<1>2. r \in Result
  BY <1>1, HeadReceived
<1>3. /\ DOMAIN captured = 1..n /\ n \in Nat /\ DOMAIN captured' = 1..(n + 1)
      /\ \A i \in 1..n : captured'[i] = captured[i] /\ captured[i] \in Result
      /\ captured'[n + 1] = r /\ captured' \in Seq(Result) /\ Len(captured') = n + 1
  BY <1>1, <1>2
<1>4. TrapTypeOK'
  BY <1>1, <1>2, <1>3 DEF TrapTypeOK, TrapInd, Phases, NoExit
<1>5. SessionIsWhole'
  <2>1. \A i \in DOMAIN captured' : Gapless(captured', i)
    BY <1>1, AppendGapless
  <2>2. \A i \in 1..n : captured'[i].outcome = Pass
    BY <1>1, <1>3 DEF Waiting
  <2>3. \A i \in DOMAIN captured' :
            captured'[i].outcome # Pass <=> i = Len(captured') /\ failing' = captured'[i]
    BY <2>2, <1>3
  <2> QED
    BY <2>1, <2>3, <1>3 DEF SessionIsWhole, Gapless
<1> QED
  BY <1>4, <1>5 DEF TrapInd

\* Nothing else touches what is captured.
LEMMA OthersKeep ==
  ASSUME TypeOK, CountInv, TrapInd,
         Probing \/ PressCtrlC \/ Stop \/ Discard \/ SeeEnd \/ Save \/ UNCHANGED allVars
  PROVE  TrapInd'
<1>1. captured' = captured /\ failing' = failing
  BY DEF Probing, PressCtrlC, Stop, Discard, SeeEnd, Save, trapVars, allVars
<1>2. SessionIsWhole'
  BY <1>1 DEF TrapInd, SessionIsWhole
<1>3. CASE Probing
  <2>1. recvd' = recvd /\ cancel' = cancel
    BY <1>3 DEF Probing, Task, LoopTop, Wake, ReadPaused, PollAgain, StartProbe,
                FinishProbe, Send, SendFails, Cancelled, Tick, ghostVars, controlVars
  <2> QED
    BY <2>1, <1>2, <1>3 DEF Probing, trapVars, TrapInd, TrapTypeOK, Waiting
<1>4. CASE PressCtrlC \/ UNCHANGED allVars
  <2>1. /\ recvd' = recvd /\ cancel' = cancel /\ phase' = phase /\ sig' \in {sig, TRUE}
        /\ session' = session /\ exitCode' = exitCode
    BY <1>4 DEF PressCtrlC, allVars, trapVars, vars, controlVars, ghostVars
  <2>2. Waiting => Waiting'
    BY <2>1, <1>1 DEF Waiting
  <2>3. TrapTypeOK'
    BY <2>1, <1>1 DEF TrapInd, TrapTypeOK
  <2> QED
    BY <2>1, <2>2, <2>3, <1>2 DEF TrapInd
<1>5. CASE Stop
  BY <1>2, <1>5 DEF Stop, RequestCancel, TrapInd, TrapTypeOK, Phases
<1>6. CASE Discard
  BY <1>2, <1>6 DEF Discard, Receive, trapVars, controlVars, TrapInd, TrapTypeOK
<1>7. CASE SeeEnd
  <2>1. cancel
    BY <1>7, TrapAssumption, RunnerAssumption
       DEF SeeEnd, ReceiveNone, AllDone, CountInv, Targets
  <2> QED
    BY <2>1, <1>2, <1>7 DEF SeeEnd, ReceiveNone, TrapInd, TrapTypeOK, Phases
<1>8. CASE Save
  BY <1>2, <1>8 DEF Save, vars, controlVars, TrapInd, TrapTypeOK, Phases, NoExit
<1> QED
  BY <1>3, <1>4, <1>5, <1>6, <1>7, <1>8

-----------------------------------------------------------------------------
(* The theorems.                                                           *)

\* The strengthened invariant, given that of the probe loop.
THEOREM TrapInvariance == TrapSpec => []TrapInd
<1>1. TrapInit => TrapInd
  BY TrapStarts
<1>2. IndInv /\ TrapInd /\ [TrapNext]_allVars => TrapInd'
  BY TakeKeepsAll, SpringIsLast, OthersKeep
     DEF IndInv, TrapNext, Collector
<1> QED
  BY <1>1, <1>2, TrapRunnerInvariance, PTL DEF TrapSpec

\* What the mode keeps is of its kind, and it only stops having cancelled.
THEOREM TrapTypeCorrect == TrapSpec => []TrapTypeOK
<1>1. TrapInd => TrapTypeOK
  BY DEF TrapInd
<1> QED
  BY <1>1, TrapInvariance, PTL

\* The session is whole: every result of each target up to the failure, no gap,
\* nothing after it.
THEOREM SessionWhole == TrapSpec => []SessionIsWhole
<1>1. TrapInd => SessionIsWhole
  BY DEF TrapInd
<1> QED
  BY <1>1, TrapInvariance, PTL
=============================================================================
