-------------------------- MODULE ProbeRunnerProofs --------------------------
(***************************************************************************)
(* Proofs about ProbeRunner, for every number of targets, count, channel   *)
(* capacity, interval and set of outcomes.                                 *)
(***************************************************************************)
EXTENDS ProbeRunner, TLAPS

USE RunnerAssumption DEF Targets

-----------------------------------------------------------------------------
(* The initial state.                                                      *)

\* The start offset of a target is at most one interval.
LEMMA OffsetInRange == \A t \in Targets : StartOffset(t) \in 0..Interval
<1> SUFFICES ASSUME NEW t \in Targets PROVE StartOffset(t) \in 0..Interval
  OBVIOUS
<1> DEFINE k == t - 1
<1>1. k \in Nat /\ k <= N
  OBVIOUS
<1>2. Interval * k \in Nat
  BY <1>1
<1>3. Interval * k <= Interval * N
  BY <1>1
<1>4. (Interval * k) \div N \in 0..Interval
  BY <1>2, <1>3, SMTT(30)
<1> QED
  BY <1>4 DEF StartOffset

\* The strengthened invariant holds when the loop is spawned.
LEMMA InitInd == Init => IndInv
<1> SUFFICES ASSUME Init PROVE IndInv
  OBVIOUS
<1>1. TypeOK
  <2>1. pc \in [Targets -> PCs] /\ seq \in [Targets -> Nat]
    BY DEF Init, PCs
  <2>2. wait \in [Targets -> 0..Interval] /\ since \in [Targets -> 0..Interval]
    BY OffsetInRange DEF Init
  <2>3. /\ pending \in [Targets -> Outcomes \cup {NoOutcome}]
        /\ \A t \in Targets : pending[t] # NoOutcome <=> pc[t] = "sending"
    BY DEF Init
  <2>4. chan \in Seq(Result) /\ Len(chan) <= Capacity
    BY DEF Init
  <2>5. /\ recvd \in [Targets -> Nat] /\ slips \in [Targets -> Nat]
        /\ rxOpen \in BOOLEAN /\ closed \in BOOLEAN
        /\ cancel \in BOOLEAN /\ paused \in BOOLEAN
    BY DEF Init
  <2> QED
    BY <2>1, <2>2, <2>3, <2>4, <2>5 DEF TypeOK
<1>2. ChannelInv
  BY DEF Init, ChannelInv
<1>3. PaceInv
  BY OffsetInRange DEF Init, PaceInv
<1>4. SlipInv /\ CountInv /\ ClosedInv
  BY DEF Init, SlipInv, CountInv, ClosedInv
<1> QED
  BY <1>1, <1>2, <1>3, <1>4 DEF IndInv

-----------------------------------------------------------------------------
(* Every step preserves the types.                                         *)

\* Counting one up keeps a per-target counter a counter.
LEMMA CountUp ==
  ASSUME NEW f \in [Targets -> Nat], NEW t \in Targets
  PROVE  [f EXCEPT ![t] = @ + 1] \in [Targets -> Nat]
<1>1. f[t] + 1 \in Nat
  OBVIOUS
<1> QED
  BY <1>1

\* A step of a task keeps every variable in its type.
LEMMA TaskType ==
  ASSUME TypeOK, NEW t \in Targets, Task(t) PROVE TypeOK'
<1> USE DEF TypeOK
<1>1. CASE LoopTop(t)
  BY <1>1 DEF LoopTop, controlVars, ghostVars, PCs
<1>2. CASE Wake(t)
  BY <1>2 DEF Wake, controlVars, ghostVars, PCs
<1>3. CASE ReadPaused(t)
  BY <1>3 DEF ReadPaused, controlVars, ghostVars, PCs
<1>4. CASE PollAgain(t)
  BY <1>4 DEF PollAgain, controlVars, ghostVars, PCs
<1>5. CASE StartProbe(t)
  <2>1. 0 \in 0..Interval /\ Interval \in 0..Interval
    OBVIOUS
  <2>2. pc' \in [Targets -> PCs]
    BY <1>5 DEF StartProbe, PCs
  <2>5. slips' \in [Targets -> Nat]
    BY <1>5, CountUp DEF StartProbe
  <2>3. wait' \in [Targets -> 0..Interval] /\ since' \in [Targets -> 0..Interval]
    BY <1>5, <2>1 DEF StartProbe
  <2>4. \A u \in Targets : pending'[u] # NoOutcome <=> pc'[u] = "sending"
    BY <1>5 DEF StartProbe
  <2> QED
    BY <1>5, <2>2, <2>3, <2>4, <2>5 DEF StartProbe, controlVars
<1>6. CASE FinishProbe(t)
  BY <1>6 DEF FinishProbe, controlVars, ghostVars, PCs
<1>7. CASE Send(t)
  <2> DEFINE r == [target |-> t, seq |-> seq[t], outcome |-> pending[t]]
  <2>1. r \in Result
    BY <1>7 DEF Send, Result
  <2>2. chan' \in Seq(Result) /\ Len(chan') <= Capacity
    BY <1>7, <2>1 DEF Send
  <2>3. pc' \in [Targets -> PCs]
    BY <1>7 DEF Send, PCs
  <2>5. seq' \in [Targets -> Nat]
    BY <1>7, CountUp DEF Send
  <2>4. /\ pending' \in [Targets -> Outcomes \cup {NoOutcome}]
        /\ \A u \in Targets : pending'[u] # NoOutcome <=> pc'[u] = "sending"
    BY <1>7 DEF Send
  <2> QED
    BY <1>7, <2>2, <2>3, <2>4, <2>5 DEF Send, controlVars, ghostVars
<1>8. CASE SendFails(t)
  BY <1>8 DEF SendFails, controlVars, ghostVars, PCs
<1>9. CASE Cancelled(t)
  BY <1>9 DEF Cancelled, controlVars, ghostVars, PCs
<1> QED
  BY <1>1, <1>2, <1>3, <1>4, <1>5, <1>6, <1>7, <1>8, <1>9 DEF Task

\* So do the passing of time and the consumer.
LEMMA TickType == TypeOK /\ Tick => TypeOK'
<1> SUFFICES ASSUME TypeOK, Tick PROVE TypeOK'
  OBVIOUS
<1>1. \A t \in Targets : wait[t] \in 0..Interval /\ since[t] \in 0..Interval
  BY DEF TypeOK
<1>2. wait' \in [Targets -> 0..Interval]
  BY <1>1 DEF Tick
<1>3. since' \in [Targets -> 0..Interval]
  BY <1>1 DEF Tick
<1> QED
  BY <1>2, <1>3 DEF TypeOK, Tick, controlVars

LEMMA ConsumerType == TypeOK /\ Consumer => TypeOK'
<1> SUFFICES ASSUME TypeOK, Consumer PROVE TypeOK'
  OBVIOUS
<1> USE DEF TypeOK
<1>1. CASE Receive
  <2>1. /\ Head(chan) \in Result /\ Tail(chan) \in Seq(Result)
        /\ Len(Tail(chan)) <= Capacity
    BY <1>1 DEF Receive
  <2>2. PICK t \in Targets, s \in Nat : t = Head(chan).target /\ s = Head(chan).seq
    BY <2>1 DEF Result
  <2>3. recvd' \in [Targets -> Nat]
    <3>1. s + 1 \in Nat
      OBVIOUS
    <3>2. recvd' = [recvd EXCEPT ![t] = s + 1]
      BY <1>1, <2>2 DEF Receive
    <3> QED
      BY <3>1, <3>2
  <2> QED
    BY <1>1, <2>1, <2>3 DEF Receive, taskVars, controlVars
<1>2. CASE ReceiveNone
  BY <1>2 DEF ReceiveNone, taskVars, ghostVars
<1>3. CASE RequestCancel
  BY <1>3 DEF RequestCancel, taskVars, ghostVars
<1>4. CASE DropHandle
  <2>1. chan' \in Seq(Result) /\ Len(chan') <= Capacity
    BY <1>4 DEF DropHandle
  <2> QED
    BY <1>4, <2>1 DEF DropHandle, taskVars, ghostVars
<1>5. CASE StorePaused(~paused)
  BY <1>5 DEF StorePaused, taskVars
<1> QED
  BY <1>1, <1>2, <1>3, <1>4, <1>5 DEF Consumer

-----------------------------------------------------------------------------
(* The channel.                                                            *)

\* Nothing sent is missing and nothing is out of order, so the head of the
\* channel is its target's next result.
LEMMA HeadIsNext == TypeOK /\ ChannelInv => HeadInOrder
<1> SUFFICES ASSUME TypeOK, ChannelInv, chan # <<>>
             PROVE  Head(chan).seq = recvd[Head(chan).target]
  BY DEF HeadInOrder
<1> DEFINE h == chan[1]
<1>1. Head(chan) = h /\ 1 \in 1..Len(chan) /\ h \in Result
  BY DEF TypeOK
<1>2. h.target \in Targets /\ h.seq \in Nat
  BY <1>1 DEF Result
<1>3. recvd[h.target] <= h.seq /\ h.seq < seq[h.target]
  BY <1>1 DEF ChannelInv
<1>4. recvd[h.target] \in Nat /\ seq[h.target] \in Nat
  BY <1>2 DEF TypeOK
<1>5. recvd[h.target] \in recvd[h.target]..(seq[h.target] - 1)
  BY <1>2, <1>3, <1>4
<1>6. PICK i \in 1..Len(chan) : chan[i].target = h.target /\ chan[i].seq = recvd[h.target]
  BY <1>2, <1>5 DEF ChannelInv
<1>7. i # 1 => h.seq < chan[i].seq
  BY <1>1, <1>6 DEF ChannelInv
<1> QED
  BY <1>1, <1>2, <1>3, <1>4, <1>6, <1>7

\* Sending appends the target's next number.
LEMMA SendChannel ==
  ASSUME TypeOK, ChannelInv, NEW t \in Targets, Send(t) PROVE ChannelInv'
<1> DEFINE r == [target |-> t, seq |-> seq[t], outcome |-> pending[t]]
           n == Len(chan)
<1>1. /\ chan' = Append(chan, r) /\ recvd' = recvd /\ rxOpen /\ rxOpen'
      /\ seq' = [seq EXCEPT ![t] = @ + 1]
  BY DEF Send, controlVars, ghostVars
<1>0. chan \in Seq(Result)
  BY DEF TypeOK
<1>2. n \in Nat /\ Len(chan') = n + 1 /\ chan'[n + 1] = r
  BY <1>0, <1>1
<1>3. \A i \in 1..n : chan'[i] = chan[i] /\ chan[i] \in Result
  BY <1>0, <1>1
<1>4. \A u \in Targets : /\ seq[u] \in Nat /\ recvd[u] \in Nat
                         /\ seq'[u] = IF u = t THEN seq[u] + 1 ELSE seq[u]
                         /\ recvd[u] <= seq[u]
  BY <1>1 DEF TypeOK, ChannelInv
<1>5. \A i \in 1..n : chan[i].target \in Targets /\ chan[i].seq \in Nat
  BY <1>3 DEF Result
<1>6. \A i \in 1..n : /\ recvd[chan[i].target] <= chan[i].seq
                      /\ chan[i].seq < seq[chan[i].target]
  BY DEF ChannelInv
<1>7. \A i \in 1..Len(chan') : /\ recvd'[chan'[i].target] <= chan'[i].seq
                               /\ chan'[i].seq < seq'[chan'[i].target]
  <2> SUFFICES ASSUME NEW i \in 1..(n + 1)
               PROVE  /\ recvd[chan'[i].target] <= chan'[i].seq
                      /\ chan'[i].seq < seq'[chan'[i].target]
    BY <1>1, <1>2
  <2>1. CASE i = n + 1
    BY <2>1, <1>2, <1>4
  <2>2. CASE i \in 1..n
    <3> DEFINE u == chan[i].target
    <3>1. chan'[i] = chan[i] /\ u \in Targets /\ chan[i].seq \in Nat
      BY <2>2, <1>3, <1>5
    <3>2. recvd[u] <= chan[i].seq /\ chan[i].seq < seq[u]
      BY <2>2, <1>6
    <3>3. seq[u] \in Nat /\ seq'[u] \in {seq[u], seq[u] + 1}
      BY <3>1, <1>4
    <3> HIDE DEF u
    <3>4. chan[i].seq < seq'[u]
      BY <3>1, <3>2, <3>3
    <3> QED
      BY <3>1, <3>2, <3>4 DEF u
  <2> QED
    BY <2>1, <2>2, <1>2
<1>8. \A i, j \in 1..Len(chan') :
         i < j /\ chan'[i].target = chan'[j].target => chan'[i].seq < chan'[j].seq
  <2> SUFFICES ASSUME NEW i \in 1..(n + 1), NEW j \in 1..(n + 1),
                      i < j, chan'[i].target = chan'[j].target
               PROVE  chan'[i].seq < chan'[j].seq
    BY <1>2
  <2>1. i \in 1..n
    BY <1>2
  <2>2. CASE j = n + 1
    BY <2>1, <2>2, <1>2, <1>3, <1>6
  <2>3. CASE j \in 1..n
    BY <2>1, <2>3, <1>3 DEF ChannelInv
  <2> QED
    BY <2>2, <2>3, <1>2
<1>9. \A u \in Targets : \A s \in recvd'[u]..(seq'[u] - 1) :
         \E i \in 1..Len(chan') : chan'[i].target = u /\ chan'[i].seq = s
  <2> SUFFICES ASSUME NEW u \in Targets, NEW s \in recvd[u]..(seq'[u] - 1)
               PROVE  \E i \in 1..(n + 1) : chan'[i].target = u /\ chan'[i].seq = s
    BY <1>1, <1>2
  <2>1. CASE s \in recvd[u]..(seq[u] - 1)
    <3>1. PICK i \in 1..n : chan[i].target = u /\ chan[i].seq = s
      BY <2>1, <1>1 DEF ChannelInv
    <3> QED
      BY <3>1, <1>2, <1>3
  <2>2. CASE u = t /\ s = seq[t]
    BY <2>2, <1>2
  <2>3. s \in recvd[u]..(seq[u] - 1) \/ (u = t /\ s = seq[t])
    <3>1. seq[u] \in Nat /\ recvd[u] \in Nat /\ seq'[u] \in Nat
      BY <1>4
    <3>2. seq'[u] = IF u = t THEN seq[u] + 1 ELSE seq[u]
      BY <1>4
    <3> QED
      BY <3>1, <3>2
  <2> QED
    BY <2>1, <2>2, <2>3
<1>10. \A u \in Targets : recvd'[u] <= seq'[u]
  <2> SUFFICES ASSUME NEW u \in Targets PROVE recvd[u] <= seq'[u]
    BY <1>1
  <2>1. /\ seq[u] \in Nat /\ recvd[u] \in Nat /\ recvd[u] <= seq[u]
        /\ seq'[u] \in {seq[u], seq[u] + 1}
    BY <1>4
  <2> QED
    BY <2>1
<1> QED
  BY <1>1, <1>7, <1>8, <1>9, <1>10 DEF ChannelInv

\* So what the consumer has seen of a target grows by one result at a time.
LEMMA ReceiveCounts ==
  ASSUME TypeOK, ChannelInv, Receive
  PROVE  recvd' = [recvd EXCEPT ![Head(chan).target] = @ + 1]
<1>1. chan # <<>> /\ Head(chan).seq = recvd[Head(chan).target]
  BY HeadIsNext DEF HeadInOrder, Receive
<1> QED
  BY <1>1 DEF Receive

\* Receiving takes the head, which is its target's next number.
LEMMA ReceiveChannel == TypeOK /\ ChannelInv /\ Receive => ChannelInv'
<1> SUFFICES ASSUME TypeOK, ChannelInv, Receive PROVE ChannelInv'
  OBVIOUS
<1> DEFINE h == Head(chan)
           n == Len(chan)
<1>1. /\ chan' = Tail(chan) /\ seq' = seq /\ rxOpen /\ rxOpen' /\ chan # <<>>
      /\ recvd' = [recvd EXCEPT ![h.target] = @ + 1]
  BY ReceiveCounts DEF Receive, taskVars, controlVars
<1>2. /\ n \in Nat \ {0} /\ Len(chan') = n - 1 /\ h = chan[1]
      /\ \A i \in 1..(n - 1) : chan'[i] = chan[i + 1]
  BY <1>1 DEF TypeOK
<1>0. chan \in Seq(Result)
  BY DEF TypeOK
<1>3. \A i \in 1..n : chan[i].target \in Targets /\ chan[i].seq \in Nat
  <2> SUFFICES ASSUME NEW i \in 1..n PROVE chan[i].target \in Targets /\ chan[i].seq \in Nat
    OBVIOUS
  <2>1. chan[i] \in Result
    BY <1>0
  <2> QED
    BY <2>1 DEF Result
<1>4. h.target \in Targets /\ h.seq = recvd[h.target] /\ h.seq < seq[h.target]
  BY <1>1, <1>2, <1>3, HeadIsNext DEF ChannelInv, HeadInOrder
<1>5. \A u \in Targets : /\ seq[u] \in Nat /\ recvd[u] \in Nat
                         /\ recvd[u] <= seq[u]
                         /\ recvd'[u] = IF u = h.target THEN recvd[u] + 1 ELSE recvd[u]
  BY <1>1 DEF TypeOK, ChannelInv
<1>6. \A i \in 1..n : /\ recvd[chan[i].target] <= chan[i].seq
                      /\ chan[i].seq < seq[chan[i].target]
                      /\ i > 1 /\ chan[i].target = h.target => h.seq < chan[i].seq
  BY <1>2 DEF ChannelInv
<1>7. \A i \in 1..Len(chan') : /\ recvd'[chan'[i].target] <= chan'[i].seq
                               /\ chan'[i].seq < seq'[chan'[i].target]
  <2> SUFFICES ASSUME NEW i \in 1..(n - 1)
               PROVE  /\ recvd'[chan[i + 1].target] <= chan[i + 1].seq
                      /\ chan[i + 1].seq < seq[chan[i + 1].target]
    BY <1>1, <1>2
  <2>1. i + 1 \in 1..n /\ i + 1 > 1
    BY <1>2
  <2> QED
    BY <2>1, <1>3, <1>4, <1>5, <1>6
<1>8. \A i, j \in 1..Len(chan') :
         i < j /\ chan'[i].target = chan'[j].target => chan'[i].seq < chan'[j].seq
  <2> SUFFICES ASSUME NEW i \in 1..(n - 1), NEW j \in 1..(n - 1), i < j,
                      chan[i + 1].target = chan[j + 1].target
               PROVE  chan[i + 1].seq < chan[j + 1].seq
    BY <1>2
  <2>1. i + 1 \in 1..n /\ j + 1 \in 1..n /\ i + 1 < j + 1
    BY <1>2
  <2> QED
    BY <2>1 DEF ChannelInv
<1>9. \A u \in Targets : \A s \in recvd'[u]..(seq'[u] - 1) :
         \E i \in 1..Len(chan') : chan'[i].target = u /\ chan'[i].seq = s
  <2> SUFFICES ASSUME NEW u \in Targets, NEW s \in recvd'[u]..(seq[u] - 1)
               PROVE  \E i \in 1..(n - 1) : chan[i + 1].target = u /\ chan[i + 1].seq = s
    BY <1>1, <1>2
  <2>1. s \in recvd[u]..(seq[u] - 1) /\ (u = h.target => s # h.seq)
    BY <1>4, <1>5
  <2>2. PICK i \in 1..n : chan[i].target = u /\ chan[i].seq = s
    BY <2>1, <1>1 DEF ChannelInv
  <2>3. i # 1
    BY <2>1, <2>2, <1>2
  <2>4. i - 1 \in 1..(n - 1) /\ (i - 1) + 1 = i
    BY <2>3, <1>2
  <2> QED
    BY <2>2, <2>4
<1>10. \A u \in Targets : recvd'[u] <= seq'[u]
  BY <1>1, <1>4, <1>5
<1> QED
  BY <1>1, <1>7, <1>8, <1>9, <1>10 DEF ChannelInv

\* Every step keeps the channel's contents and the counters in agreement.
LEMMA ChannelStep == TypeOK /\ ChannelInv /\ [Next]_vars => ChannelInv'
<1> SUFFICES ASSUME TypeOK, ChannelInv, [Next]_vars PROVE ChannelInv'
  OBVIOUS
<1>1. ASSUME NEW t \in Targets, Send(t) PROVE ChannelInv'
  BY <1>1, SendChannel
<1>2. CASE Receive
  BY <1>2, ReceiveChannel
<1>3. CASE DropHandle
  BY <1>3 DEF DropHandle, ChannelInv, taskVars, ghostVars
<1>4. CASE UNCHANGED <<chan, seq, recvd, rxOpen>>
  BY <1>4 DEF ChannelInv
<1>5. ASSUME NEW t \in Targets, Task(t) PROVE Send(t) \/ UNCHANGED <<chan, seq, recvd, rxOpen>>
  BY <1>5 DEF Task, LoopTop, Wake, ReadPaused, PollAgain, StartProbe, FinishProbe,
              SendFails, Cancelled, controlVars, ghostVars
<1>6. Tick \/ UNCHANGED vars => UNCHANGED <<chan, seq, recvd, rxOpen>>
  BY DEF Tick, vars, taskVars, controlVars, ghostVars
<1>7. Consumer => Receive \/ DropHandle \/ UNCHANGED <<chan, seq, recvd, rxOpen>>
  BY DEF Consumer, ReceiveNone, RequestCancel, StorePaused, taskVars, controlVars, ghostVars
<1> QED
  BY <1>1, <1>2, <1>3, <1>4, <1>5, <1>6, <1>7 DEF Next

-----------------------------------------------------------------------------
(* Pacing, pausing, counting and the end of the stream.                    *)

\* What a target has waited and still has to wait adds up to an interval.
LEMMA PaceStep == TypeOK /\ PaceInv /\ [Next]_vars => PaceInv'
<1> SUFFICES ASSUME TypeOK, PaceInv, [Next]_vars PROVE PaceInv'
  OBVIOUS
<1>0. /\ pc \in [Targets -> PCs] /\ wait \in [Targets -> 0..Interval]
      /\ since \in [Targets -> 0..Interval]
  BY DEF TypeOK
<1>1. ASSUME NEW t \in Targets, LoopTop(t) \/ SendFails(t) \/ Cancelled(t)
                                 \/ FinishProbe(t) \/ Send(t) \/ Wake(t)
                                 \/ ReadPaused(t) \/ PollAgain(t)
      PROVE  PaceInv'
  <2>1. UNCHANGED <<wait, since>>
    BY <1>1 DEF LoopTop, SendFails, Cancelled, FinishProbe, Send, Wake, ReadPaused,
                PollAgain, ghostVars
  <2>2. \A u \in Targets :
           pc'[u] \in {"gate", "polling", "ready"} => wait[u] = 0
    <3>1. \A u \in Targets \ {t} : pc'[u] = pc[u]
      BY <1>1, <1>0 DEF LoopTop, SendFails, Cancelled, FinishProbe, Send, Wake,
                        ReadPaused, PollAgain
    <3>2. pc'[t] \in {"gate", "polling", "ready"} =>
             wait[t] = 0 \/ pc[t] \in {"gate", "polling"}
      BY <1>1, <1>0 DEF LoopTop, SendFails, Cancelled, FinishProbe, Send, Wake,
                        ReadPaused, PollAgain
    <3> QED
      BY <3>1, <3>2 DEF PaceInv
  <2> QED
    BY <2>1, <2>2 DEF PaceInv
<1>2. ASSUME NEW t \in Targets, StartProbe(t) PROVE PaceInv'
  <2> SUFFICES ASSUME NEW u \in Targets
               PROVE  /\ since'[u] + wait'[u] >= Interval
                      /\ pc'[u] \in {"gate", "polling", "ready"} => wait'[u] = 0
    BY DEF PaceInv
  <2>1. CASE u = t
    BY <1>2, <2>1, <1>0 DEF StartProbe
  <2>2. CASE u # t
    BY <1>2, <2>2, <1>0 DEF StartProbe, PaceInv
  <2> QED
    BY <2>1, <2>2
<1>3. CASE Tick
  <2> SUFFICES ASSUME NEW u \in Targets
               PROVE  /\ since'[u] + wait'[u] >= Interval
                      /\ pc'[u] \in {"gate", "polling", "ready"} => wait'[u] = 0
    BY DEF PaceInv
  <2>1. /\ wait[u] \in Nat /\ since[u] \in Nat /\ since[u] <= Interval
        /\ since[u] + wait[u] >= Interval
        /\ pc[u] \in {"gate", "polling", "ready"} => wait[u] = 0
    BY <1>0 DEF PaceInv
  <2>2. /\ wait'[u] = IF wait[u] > 0 THEN wait[u] - 1 ELSE 0
        /\ since'[u] = IF since[u] < Interval THEN since[u] + 1 ELSE Interval
        /\ pc'[u] = pc[u]
    BY <1>3 DEF Tick
  <2>3. since'[u] + wait'[u] >= Interval
    BY <2>1, <2>2
  <2>4. pc'[u] \in {"gate", "polling", "ready"} => wait'[u] = 0
    BY <2>1, <2>2
  <2> QED
    BY <2>3, <2>4
<1>4. CASE Consumer \/ UNCHANGED vars
  <2>1. UNCHANGED <<pc, wait, since>>
    BY <1>4 DEF Consumer, Receive, ReceiveNone, RequestCancel, StorePaused, DropHandle,
                vars, taskVars, ghostVars
  <2> QED
    BY <2>1 DEF PaceInv
<1> QED
  BY <1>1, <1>2, <1>3, <1>4 DEF Next, Task

\* A pause lets each target start at most the probe it was about to start.
LEMMA SlipStep == TypeOK /\ SlipInv /\ [Next]_vars => SlipInv'
<1> SUFFICES ASSUME TypeOK, SlipInv, [Next]_vars, paused',
                    NEW u \in Targets
             PROVE  slips'[u] = 0 \/ (slips'[u] = 1 /\ pc'[u] # "ready")
  BY DEF SlipInv
<1>0. /\ pc \in [Targets -> PCs] /\ slips \in [Targets -> Nat]
      /\ paused \in BOOLEAN
  BY DEF TypeOK
<1>1. paused => slips[u] = 0 \/ (slips[u] = 1 /\ pc[u] # "ready")
  BY DEF SlipInv
<1>2. ASSUME NEW t \in Targets, StartProbe(t)
      PROVE  slips'[u] = 0 \/ (slips'[u] = 1 /\ pc'[u] # "ready")
  <2>1. CASE u = t
    BY <1>0, <1>1, <1>2, <2>1 DEF StartProbe, controlVars
  <2>2. CASE u # t
    BY <1>0, <1>1, <1>2, <2>2 DEF StartProbe, controlVars
  <2> QED
    BY <2>1, <2>2
<1>3. ASSUME NEW t \in Targets, LoopTop(t) \/ SendFails(t) \/ Cancelled(t)
                                 \/ FinishProbe(t) \/ Send(t) \/ Wake(t)
                                 \/ ReadPaused(t) \/ PollAgain(t)
      PROVE  slips'[u] = 0 \/ (slips'[u] = 1 /\ pc'[u] # "ready")
  <2>1. UNCHANGED <<paused, slips>>
    BY <1>3 DEF LoopTop, SendFails, Cancelled, FinishProbe, Send, Wake, ReadPaused,
                PollAgain, controlVars, ghostVars
  <2>2. pc'[u] = "ready" => pc[u] = "ready" \/ ~paused
    BY <1>0, <1>3 DEF LoopTop, SendFails, Cancelled, FinishProbe, Send, Wake,
                      ReadPaused, PollAgain
  <2> QED
    BY <1>1, <2>1, <2>2
<1>4. CASE StorePaused(~paused)
  BY <1>4 DEF StorePaused
<1>5. CASE Tick \/ Receive \/ ReceiveNone \/ RequestCancel \/ DropHandle \/ UNCHANGED vars
  <2>1. UNCHANGED <<pc, paused, slips>>
    BY <1>5 DEF Tick, Receive, ReceiveNone, RequestCancel, DropHandle,
                vars, taskVars, controlVars, ghostVars
  <2> QED
    BY <1>1, <2>1
<1> QED
  BY <1>2, <1>3, <1>4, <1>5 DEF Next, Task, Consumer

\* A target never starts a probe beyond its count, and a task that returned
\* was stopped or had delivered its count.
LEMMA CountStep == TypeOK /\ CountInv /\ [Next]_vars => CountInv'
<1> DEFINE Counted(t) ==
      /\ Count # 0 => seq[t] <= Count
      /\ Count # 0 /\ pc[t] \notin {"top", "done"} => seq[t] < Count
      /\ pc[t] = "done" => cancel \/ ~rxOpen \/ (Count # 0 /\ seq[t] = Count)
<1> SUFFICES ASSUME TypeOK, CountInv, [Next]_vars, NEW u \in Targets
             PROVE  Counted(u)'
  BY DEF CountInv
<1>0. pc \in [Targets -> PCs] /\ seq \in [Targets -> Nat]
  BY DEF TypeOK
<1>1. Counted(u) /\ seq[u] \in Nat
  BY <1>0 DEF CountInv
<1>2. ASSUME NEW t \in Targets, Task(t) PROVE Counted(u)'
  <2>1. UNCHANGED <<cancel, rxOpen>>
    BY <1>2 DEF Task, LoopTop, Wake, ReadPaused, PollAgain, StartProbe, FinishProbe,
                Send, SendFails, Cancelled, controlVars
  <2>2. CASE u # t
    <3>1. pc'[u] = pc[u] /\ seq'[u] = seq[u]
      BY <1>0, <1>2, <2>2 DEF Task, LoopTop, Wake, ReadPaused, PollAgain, StartProbe,
                              FinishProbe, Send, SendFails, Cancelled
    <3> QED
      BY <1>1, <2>1, <3>1
  <2>3. CASE u = t
    <3>1. CASE LoopTop(t)
      BY <1>0, <1>1, <2>1, <2>3, <3>1 DEF LoopTop, CountReached
    <3>2. CASE Wake(t) \/ ReadPaused(t) \/ PollAgain(t) \/ StartProbe(t) \/ FinishProbe(t)
      <4>1. /\ pc[t] \notin {"top", "done"} /\ pc'[t] \notin {"top", "done"}
            /\ seq'[t] = seq[t]
        BY <1>0, <3>2 DEF Wake, ReadPaused, PollAgain, StartProbe, FinishProbe
      <4> QED
        BY <1>1, <2>3, <4>1
    <3>3. CASE Send(t)
      <4>1. pc[t] = "sending" /\ pc'[t] = "top" /\ seq'[t] = seq[t] + 1
        BY <1>0, <3>3 DEF Send
      <4> QED
        BY <1>1, <2>3, <4>1
    <3>4. CASE SendFails(t) \/ Cancelled(t)
      <4>1. /\ pc'[t] = "done" /\ seq'[t] = seq[t]
            /\ cancel \/ ~rxOpen
        BY <1>0, <3>4 DEF SendFails, Cancelled
      <4> QED
        BY <1>1, <2>1, <2>3, <4>1
    <3> QED
      BY <1>2, <3>1, <3>2, <3>3, <3>4 DEF Task
  <2> QED
    BY <2>2, <2>3
<1>3. CASE Tick \/ Consumer \/ UNCHANGED vars
  <2>1. UNCHANGED <<pc, seq>> /\ (cancel => cancel') /\ (~rxOpen => ~rxOpen')
    BY <1>3 DEF Tick, Consumer, Receive, ReceiveNone, RequestCancel, StorePaused,
                DropHandle, vars, taskVars, controlVars
  <2> QED
    BY <1>1, <2>1
<1> QED
  BY <1>2, <1>3 DEF Next

\* Once the consumer has seen the end, no task is left to send anything.
LEMMA ClosedStep == TypeOK /\ ClosedInv /\ [Next]_vars => ClosedInv'
<1> SUFFICES ASSUME TypeOK, ClosedInv, [Next]_vars, closed'
             PROVE  AllDone' /\ chan' = <<>>
  BY DEF ClosedInv
<1>1. ASSUME NEW t \in Targets, Task(t) PROVE FALSE
  <2>1. closed /\ pc[t] # "done"
    BY <1>1 DEF Task, LoopTop, Wake, ReadPaused, PollAgain, StartProbe, FinishProbe,
                Send, SendFails, Cancelled, controlVars
  <2> QED
    BY <2>1 DEF ClosedInv, AllDone
<1>2. CASE Receive
  BY <1>2 DEF Receive, ClosedInv, controlVars
<1>3. CASE ReceiveNone
  BY <1>3 DEF ReceiveNone, AllDone, taskVars
<1>4. CASE Tick \/ RequestCancel \/ StorePaused(~paused) \/ UNCHANGED vars
  BY <1>4 DEF Tick, RequestCancel, StorePaused, ClosedInv, AllDone, vars, taskVars,
              controlVars
<1>5. CASE DropHandle
  BY <1>5 DEF DropHandle, ClosedInv, AllDone, taskVars
<1> QED
  BY <1>1, <1>2, <1>3, <1>4, <1>5 DEF Next, Consumer

-----------------------------------------------------------------------------
(* The theorems.                                                           *)

\* Types are preserved by every step.
LEMMA TypeStep == TypeOK /\ [Next]_vars => TypeOK'
<1>1. TypeOK /\ UNCHANGED vars => TypeOK'
  BY DEF TypeOK, vars, taskVars, controlVars, ghostVars
<1> QED
  BY <1>1, TaskType, TickType, ConsumerType DEF Next

\* The probe loop keeps its strengthened invariant: channel, pacing, pause,
\* count and end-of-stream bookkeeping agree in every reachable state.
THEOREM Invariance == Spec => []IndInv
<1>1. IndInv /\ [Next]_vars => IndInv'
  BY TypeStep, ChannelStep, PaceStep, SlipStep, CountStep, ClosedStep DEF IndInv
<1> QED
  BY InitInd, <1>1, PTL DEF Spec

\* Every variable of the probe loop keeps its type.
THEOREM TypeCorrect == Spec => []TypeOK
BY Invariance, PTL DEF IndInv

\* The consumer takes each target's results in order, none missing and none
\* twice, for any number of targets and any channel capacity.
THEOREM InOrder == Spec => []HeadInOrder
<1>1. IndInv => HeadInOrder
  BY HeadIsNext DEF IndInv
<1> QED
  BY <1>1, Invariance, PTL

\* A pause is overtaken by at most one probe per target.
THEOREM PauseHolds == Spec => []PauseSlip
<1>1. IndInv => PauseSlip
  BY DEF IndInv, SlipInv, PauseSlip
<1> QED
  BY <1>1, Invariance, PTL

\* Two starts of one target are never less than an interval apart.
THEOREM Paced == Spec => NoBurst
<1> DEFINE Step == \A t \in Targets :
                      pc[t] = "ready" /\ pc'[t] = "probing" => since[t] >= Interval
<1>1. IndInv => Step
  <2> SUFFICES ASSUME IndInv, NEW t \in Targets, pc[t] = "ready"
               PROVE  since[t] >= Interval
    OBVIOUS
  <2>1. since[t] \in Nat /\ wait[t] = 0 /\ since[t] + wait[t] >= Interval
    BY DEF IndInv, TypeOK, PaceInv
  <2> QED
    BY <2>1
<1>2. IndInv /\ [Next]_vars => [Step]_vars
  BY <1>1
<1> QED
  BY <1>2, Invariance, PTL DEF Spec, NoBurst

\* The probe loop implements the stream it promises (ProbeStream).
THEOREM Refinement == Spec => StreamSpec
<1> DEFINE finished == [t \in Targets |-> Finished(t)]
<1>1. Init => Stream!Init
  BY DEF Init, Finished, Stream!Init, Stream!Targets, Targets
<1>2. IndInv /\ [Next]_vars => [Stream!Next]_(Stream!vars)
  <2> SUFFICES ASSUME IndInv, [Next]_vars
               PROVE  Stream!Next \/ UNCHANGED Stream!vars
    OBVIOUS
  <2>1. CASE Receive
    <3> DEFINE h == Head(chan).target
    <3>1. /\ h \in Targets /\ Head(chan).seq \in Nat
          /\ recvd[h] = Head(chan).seq /\ Head(chan).seq < seq[h]
      <4>1. Head(chan) = chan[1] /\ 1 \in 1..Len(chan) /\ Head(chan) \in Result
        BY <2>1 DEF Receive, IndInv, TypeOK
      <4>2. Head(chan).seq < seq[h]
        BY <4>1 DEF IndInv, ChannelInv
      <4> QED
        BY <4>1, <4>2, <2>1, HeadIsNext DEF IndInv, HeadInOrder, Receive, Result
    <3>2. ~closed
      BY <2>1 DEF IndInv, ClosedInv, Receive
    <3>3. seq[h] \in Nat /\ rxOpen
      BY <2>1, <3>1 DEF IndInv, TypeOK, Receive
    <3>4. recvd[h] < finished[h]
      BY <3>1, <3>3 DEF Finished
    <3>5. finished' = finished
      BY <2>1 DEF Receive, Finished, taskVars, controlVars
    <3>6. recvd' = [recvd EXCEPT ![h] = @ + 1]
      BY <2>1, ReceiveCounts DEF IndInv
    <3>7. Stream!Deliver(h)
      BY <2>1, <3>2, <3>4, <3>5, <3>6 DEF Receive, Stream!Deliver, controlVars
    <3> QED
      BY <3>1, <3>7 DEF Stream!Next, Stream!Targets, Targets
  <2>2. CASE ReceiveNone
    <3>1. \A t \in Targets : recvd[t] = seq[t]
      <4> SUFFICES ASSUME NEW t \in Targets PROVE recvd[t] = seq[t]
        OBVIOUS
      <4>1. recvd[t] \in Nat /\ seq[t] \in Nat /\ recvd[t] <= seq[t]
        BY DEF IndInv, TypeOK, ChannelInv
      <4>2. \A s \in recvd[t]..(seq[t] - 1) : FALSE
        BY <2>2 DEF ReceiveNone, IndInv, ChannelInv
      <4> QED
        BY <4>1, <4>2
    <3>2. finished = recvd
      <4>1. \A t \in Targets : Finished(t) = recvd[t]
        BY <2>2, <3>1 DEF ReceiveNone, AllDone, Finished, IndInv, TypeOK
      <4> QED
        BY <4>1 DEF IndInv, TypeOK
    <3>3. finished' = finished
      BY <2>2 DEF ReceiveNone, Finished, taskVars, ghostVars
    <3>4. ASSUME ~cancel, rxOpen, NEW t \in Targets
          PROVE  Count # 0 /\ recvd[t] = Count
      BY <2>2, <3>1, <3>4 DEF ReceiveNone, AllDone, IndInv, CountInv
    <3>5. 1 \in Targets
      BY DEF Targets
    <3>6. Stream!End
      BY <2>2, <3>2, <3>3, <3>4, <3>5
      DEF ReceiveNone, Stream!End, Stream!Complete, Stream!Targets, Targets, ghostVars
    <3> QED
      BY <3>6 DEF Stream!Next
  <2>3. CASE RequestCancel
    <3>1. finished' = finished
      BY <2>3 DEF RequestCancel, Finished, taskVars, ghostVars
    <3> QED
      BY <2>3, <3>1 DEF RequestCancel, Stream!Next, Stream!Stop, ghostVars
  <2>4. CASE DropHandle
    <3>1. finished' = recvd
      <4>1. finished' = [t \in Targets |-> recvd[t]]
        BY <2>4 DEF DropHandle, Finished, ghostVars
      <4> QED
        BY <4>1 DEF IndInv, TypeOK
    <3> QED
      BY <2>4, <3>1 DEF DropHandle, Stream!Next, Stream!Abandon, ghostVars
  <2>5. ASSUME NEW t \in Targets, FinishProbe(t)
        PROVE  Stream!Next \/ UNCHANGED Stream!vars
    <3>1. UNCHANGED <<recvd, cancel, rxOpen, closed, seq>>
      BY <2>5 DEF FinishProbe, controlVars, ghostVars
    <3>2. CASE ~rxOpen
      <4>1. finished' = finished
        BY <3>1, <3>2 DEF Finished
      <4> QED
        BY <3>1, <4>1 DEF Stream!vars
    <3>3. CASE rxOpen
      <4>1. /\ finished[t] = seq[t] /\ finished'[t] = seq[t] + 1
            /\ \A u \in Targets \ {t} : finished'[u] = finished[u]
        BY <2>5, <3>1, <3>3 DEF FinishProbe, Finished, IndInv, TypeOK
      <4>2. finished' = [finished EXCEPT ![t] = @ + 1]
        BY <4>1
      <4>3. Count # 0 => finished[t] < Count
        BY <2>5, <4>1 DEF FinishProbe, IndInv, CountInv
      <4>4. ~closed
        BY <2>5 DEF FinishProbe, IndInv, ClosedInv, AllDone
      <4>5. Stream!Finish(t)
        BY <3>1, <4>2, <4>3, <4>4 DEF Stream!Finish
      <4> QED
        BY <4>5 DEF Stream!Next, Stream!Targets, Targets
    <3> QED
      BY <3>2, <3>3
  <2>6. ASSUME NEW t \in Targets, Task(t), ~FinishProbe(t)
        PROVE  UNCHANGED Stream!vars
    <3>1. UNCHANGED <<recvd, cancel, rxOpen, closed>>
      BY <2>6 DEF Task, LoopTop, Wake, ReadPaused, PollAgain, StartProbe,
                  Send, SendFails, Cancelled, controlVars, ghostVars
    <3>2. ASSUME NEW u \in Targets PROVE Finished(u)' = Finished(u)
      <4>1. seq[u] \in Nat /\ pc \in [Targets -> PCs] /\ seq \in [Targets -> Nat]
        BY DEF IndInv, TypeOK
      <4>2. CASE Send(t)
        BY <3>1, <4>1, <4>2 DEF Send, Finished
      <4>3. CASE SendFails(t)
        BY <3>1, <4>3 DEF SendFails, Finished
      <4>4. CASE LoopTop(t) \/ Wake(t) \/ ReadPaused(t) \/ PollAgain(t) \/ StartProbe(t)
                 \/ Cancelled(t)
        BY <3>1, <4>1, <4>4 DEF LoopTop, Wake, ReadPaused, PollAgain, StartProbe,
                                Cancelled, Finished
      <4> QED
        BY <2>6, <4>2, <4>3, <4>4 DEF Task
    <3> QED
      BY <3>1, <3>2 DEF Stream!vars
  <2>7. CASE Tick \/ StorePaused(~paused) \/ UNCHANGED vars
    <3>1. UNCHANGED <<recvd, cancel, rxOpen, closed, seq, pc>>
      BY <2>7 DEF Tick, StorePaused, vars, taskVars, controlVars, ghostVars
    <3> QED
      BY <3>1 DEF Stream!vars, Finished
  <2> QED
    BY <2>1, <2>2, <2>3, <2>4, <2>5, <2>6, <2>7 DEF Next, Consumer
<1> QED
  BY <1>1, <1>2, Invariance, PTL DEF Spec, StreamSpec, Stream!Spec
=============================================================================
