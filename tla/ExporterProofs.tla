--------------------------- MODULE ExporterProofs ---------------------------
(***************************************************************************)
(* Proofs about Exporter, for every number of targets and scrapers, every  *)
(* sharing of URLs, every limit and every bound: what a scraper is shown   *)
(* holds together and never goes back, Ctrl-C loses no result, no more     *)
(* connections are served than there are permits, and the exporter asks of *)
(* the probe loop only what ProbeStream allows.                            *)
(***************************************************************************)
EXTENDS Exporter, FiniteSetTheorems, TLAPS

Slot == [sent : Nat, failed : Nat, lastOk : Result \cup {None},
         verdict : Result \cup {None}, attempt : Nat, success : Nat]

ExpTypeOK ==
    /\ finished \in [Targets -> 0..MaxSeq] /\ delivered \in [Targets -> 0..MaxSeq]
    /\ \A t \in Targets : delivered[t] <= finished[t]
    /\ name \in Namings
    /\ hand \in Result \cup {None}
    /\ slots \in [Targets -> Slot]
    /\ conn \in [Conns -> States]
    /\ body \in [Conns -> {None} \cup [slots : [Targets -> Slot], requests : Nat]]
    /\ scraped \in {None} \cup [Targets -> Slot]
    /\ requests \in Nat

\* A slot alone: more results than failures, and what Coherent says of it.
SlotCoherent(s) ==
    /\ s.failed <= s.sent
    /\ s.sent = 0 <=> s.verdict = None
    /\ s.lastOk = None <=> s.sent = s.failed
    /\ s.success <= s.attempt
    /\ s.success = 0 <=> s.lastOk = None
    /\ s.verdict # None => (s.verdict.ok => s.lastOk = s.verdict)

SlotsCoherent == \A t \in Targets : SlotCoherent(slots[t])

\* No field that counts or dates goes back from s to r.
Behind(s, r) == /\ s.sent <= r.sent /\ s.failed <= r.failed
                /\ s.attempt <= r.attempt /\ s.success <= r.success

ScrapeBehind == scraped # None => \A t \in Targets : Behind(scraped[t], slots[t])

InHand(t) == IF hand # None /\ name[hand.target] = t THEN 1 ELSE 0

\* The results that have been taken from the loop for the URL of t.
DeliveredTo(t) == {r \in Targets \X (0..MaxSeq) :
                     name[r[1]] = t /\ r[2] < delivered[r[1]]}

\* Every result delivered is in its slot or in the hand of the update task.
NoneLost == \A t \in Targets :
               name[t] = t => slots[t].sent + InHand(t) = Cardinality(DeliveredTo(t))

Ending == /\ ended => hand = None /\ finished = delivered
          /\ phase = "exited" => ended

PermitsHeld == Cardinality(Active) <= MaxConnections

ExpInv == /\ ExpTypeOK /\ SlotsCoherent /\ BodiesCoherent /\ ScrapeBehind
          /\ NoneLost /\ Ending /\ PermitsHeld

-----------------------------------------------------------------------------
(* The probe loop.                                                         *)

\* exporter.rs takes results, sees the end and cancels, nothing else: every
\* step is one that ProbeStream allows its consumer, or leaves the loop alone.
THEOREM ExporterUsesStream == ExpSpec => Spec
<1>1. ExpInit => Init
    BY DEF ExpInit
<1>2. [Running]_allVars => [Next]_vars
  <2> SUFFICES ASSUME [Running]_allVars PROVE [Next]_vars
      OBVIOUS
  <2>1. ASSUME NEW t \in Targets, Probed(t) \/ RecvSome(t) PROVE Next
      BY <2>1 DEF Probed, RecvSome, Next
  <2>2. RecvNone \/ Shutdown => Next
      BY DEF RecvNone, Shutdown, Next
  <2>3. Record \/ AcceptError \/ BackoffOver \/ PressCtrlC \/ Exit => UNCHANGED vars
      BY DEF Record, AcceptError, BackoffOver, PressCtrlC, Exit, streamVars, vars
  <2>4. ASSUME NEW c \in Conns,
               \/ Connect(c) \/ Accept(c) \/ ReadMetrics(c)
               \/ ReadOther(c) \/ Return(c) \/ Timeout(c)
        PROVE  UNCHANGED vars
      BY <2>4 DEF Connect, Accept, ReadMetrics, ReadOther, Return, Timeout,
                  streamVars, vars
  <2>5. UNCHANGED allVars => UNCHANGED vars
      BY DEF allVars, streamVars, vars
  <2> QED
      BY <2>1, <2>2, <2>3, <2>4, <2>5 DEF Running, Update
<1> QED
    BY <1>1, <1>2, PTL DEF ExpSpec, Spec

-----------------------------------------------------------------------------
(* The slots.                                                              *)

\* Recording a result, at whatever the wall clock shows, keeps a slot coherent
\* and takes no field back.
LEMMA RecordedSlot ==
    ASSUME NEW s \in Slot, SlotCoherent(s), NEW r \in Result, NEW now \in 1..MaxTime
    PROVE  /\ Recorded(s, r, now) \in Slot
           /\ SlotCoherent(Recorded(s, r, now))
           /\ Behind(s, Recorded(s, r, now))
           /\ Recorded(s, r, now).sent = s.sent + 1
<1>1. r # None /\ r.ok \in BOOLEAN /\ now \in Nat /\ now > 0
    BY ExporterAssumption DEF Result
<1>2. /\ Later(s.attempt, now) \in Nat /\ Later(s.attempt, now) >= s.attempt
      /\ Later(s.attempt, now) >= now
      /\ Later(s.success, now) \in Nat /\ Later(s.success, now) >= s.success
      /\ Later(s.success, now) > 0
      /\ Later(s.success, now) <= Later(s.attempt, now)
    BY <1>1 DEF Later, Slot, SlotCoherent
<1>3. CASE r.ok
    BY <1>1, <1>2, <1>3 DEF Recorded, Slot, SlotCoherent, Behind
<1>4. CASE ~r.ok
    BY <1>1, <1>2, <1>4 DEF Recorded, Slot, SlotCoherent, Behind
<1> QED
    BY <1>1, <1>3, <1>4

LEMMA NewSlotCoherent == NewSlot \in Slot /\ SlotCoherent(NewSlot)
  BY DEF NewSlot, Slot, SlotCoherent

-----------------------------------------------------------------------------
(* The results delivered, counted.                                         *)

LEMMA DeliveredFinite ==
    \A t : IsFiniteSet(DeliveredTo(t)) /\ Cardinality(DeliveredTo(t)) \in Nat
<1>1. IsFiniteSet(Targets) /\ IsFiniteSet(0..MaxSeq)
    BY FS_Interval, ExporterAssumption DEF Targets
<1>2. IsFiniteSet(Targets \X (0..MaxSeq))
    BY <1>1, FS_Product
<1> QED
    BY <1>2, FS_Subset, FS_CardinalityType DEF DeliveredTo

\* A delivery adds one result under its URL and none elsewhere.
LEMMA DeliveryCounts ==
    ASSUME ExpTypeOK, NEW u \in Targets, RecvSome(u), NEW t \in Targets
    PROVE  Cardinality(DeliveredTo(t))'
             = Cardinality(DeliveredTo(t)) + (IF name[u] = t THEN 1 ELSE 0)
<1>1. /\ name' = name
      /\ delivered' = [delivered EXCEPT ![u] = @ + 1]
      /\ delivered \in [Targets -> 0..MaxSeq] /\ delivered[u] < MaxSeq
      /\ MaxSeq \in Nat
    BY ExporterAssumption DEF RecvSome, Deliver, ExpTypeOK
<1>2. CASE name[u] = t
  <2> DEFINE new == <<u, delivered[u]>>
  <2>1. new \notin DeliveredTo(t)
      BY <1>1 DEF DeliveredTo
  <2>2. DeliveredTo(t)' = DeliveredTo(t) \cup {new}
    <3>1. ASSUME NEW r \in Targets \X (0..MaxSeq)
          PROVE  (name[r[1]] = t /\ r[2] < delivered'[r[1]])
                 <=> ((name[r[1]] = t /\ r[2] < delivered[r[1]]) \/ r = new)
      <4>1. CASE r[1] = u
          BY <1>1, <1>2, <4>1
      <4>2. CASE r[1] # u
          BY <1>1, <4>2
      <4> QED
          BY <4>1, <4>2
    <3>2. new \in Targets \X (0..MaxSeq)
        BY <1>1
    <3> QED
        BY <1>1, <3>1, <3>2 DEF DeliveredTo
  <2> QED
      BY <1>2, <2>1, <2>2, DeliveredFinite, FS_AddElement
<1>3. CASE name[u] # t
  <2>1. ASSUME NEW r \in Targets \X (0..MaxSeq), name[r[1]] = t
        PROVE  delivered'[r[1]] = delivered[r[1]]
      BY <1>1, <1>3, <2>1
  <2>2. DeliveredTo(t)' = DeliveredTo(t)
      BY <1>1, <2>1 DEF DeliveredTo
  <2> QED
      BY <1>3, <2>2, DeliveredFinite
<1> QED
    BY <1>2, <1>3

-----------------------------------------------------------------------------
(* The connections.                                                        *)

LEMMA ActiveFinite == IsFiniteSet(Active) /\ Cardinality(Active) \in Nat
  BY ExporterAssumption, FS_Subset, FS_CardinalityType DEF Active

\* A connection that is not accepted takes no permit.
LEMMA ConnStep ==
    ASSUME ExpTypeOK, PermitsHeld, NEW c \in Conns,
           \/ Connect(c) \/ Accept(c) \/ ReadMetrics(c)
           \/ ReadOther(c) \/ Return(c) \/ Timeout(c)
    PROVE  conn' \in [Conns -> States] /\ PermitsHeld'
<1>1. conn' \in [Conns -> States]
    BY DEF ExpTypeOK, Connect, Accept, ReadMetrics, ReadOther, Return, Timeout, States
<1>2. CASE Accept(c) /\ Permits > 0
  <2>1. Active' = Active \cup {c} /\ c \notin Active
      BY <1>2 DEF ExpTypeOK, Accept, Active
  <2>2. Cardinality(Active') = Cardinality(Active) + 1
      BY <2>1, ActiveFinite, FS_AddElement
  <2> QED
      BY <1>1, <1>2, <2>2, ActiveFinite, ExporterAssumption DEF Permits, PermitsHeld
<1>3. CASE ~(Accept(c) /\ Permits > 0)
  <2>1. Active' \subseteq Active
      BY <1>3 DEF ExpTypeOK, Connect, Accept, ReadMetrics, ReadOther, Return, Timeout, Active
  <2>2. Cardinality(Active') <= Cardinality(Active) /\ Cardinality(Active') \in Nat
      BY <2>1, ActiveFinite, FS_Subset, FS_CardinalityType
  <2> QED
      BY <1>1, <2>2, ActiveFinite, ExporterAssumption DEF PermitsHeld
<1> QED
    BY <1>2, <1>3

-----------------------------------------------------------------------------
(* The invariant.                                                          *)

LEMMA ExpStarts == ExpInit => ExpInv
<1> SUFFICES ASSUME ExpInit PROVE ExpInv
    OBVIOUS
<1> USE ExporterAssumption DEF ExpInit, Init
<1>1. ExpTypeOK
    BY NewSlotCoherent DEF ExpTypeOK, States
<1>2. SlotsCoherent /\ BodiesCoherent /\ ScrapeBehind /\ Ending
    BY NewSlotCoherent DEF SlotsCoherent, BodiesCoherent, ScrapeBehind, Ending
<1>3. NoneLost
  <2>1. ASSUME NEW t \in Targets PROVE DeliveredTo(t) = {}
      BY DEF DeliveredTo
  <2> QED
      BY <2>1, FS_EmptySet DEF NoneLost, InHand, NewSlot
<1>4. PermitsHeld
  <2>1. Active = {}
      BY DEF Active
  <2> QED
      BY <2>1, FS_EmptySet DEF PermitsHeld
<1> QED
    BY <1>1, <1>2, <1>3, <1>4 DEF ExpInv

\* What the steps that touch neither loop, slots nor connections keep.
LEMMA QuietKeeps ==
    ASSUME ExpInv, UNCHANGED <<streamVars, name, stateVars, connVars>>, Ending'
    PROVE  ExpInv'
<1>1. /\ finished' = finished /\ delivered' = delivered /\ name' = name /\ hand' = hand
      /\ slots' = slots /\ requests' = requests /\ conn' = conn /\ body' = body /\ scraped' = scraped
    BY DEF streamVars, vars, stateVars, connVars
<1> QED
    BY <1>1 DEF ExpInv, ExpTypeOK, SlotsCoherent, BodiesCoherent, ScrapeBehind, NoneLost,
                InHand, DeliveredTo, PermitsHeld, Active

\* A probe that ends is nobody's yet.
LEMMA ProbedStep ==
    ASSUME ExpInv, NEW u \in Targets, Probed(u)
    PROVE  ExpInv'
<1>1. /\ ~ended /\ finished[u] < MaxSeq
      /\ finished' = [finished EXCEPT ![u] = @ + 1]
      /\ delivered' = delivered /\ ended' = ended /\ name' = name /\ hand' = hand
      /\ slots' = slots /\ requests' = requests /\ phase' = phase
      /\ conn' = conn /\ body' = body /\ scraped' = scraped
      /\ MaxSeq \in Nat /\ finished \in [Targets -> 0..MaxSeq]
      /\ delivered \in [Targets -> 0..MaxSeq]
    BY ExporterAssumption DEF Probed, Finish, stateVars, connVars, ExpInv, ExpTypeOK
<1>2. /\ finished' \in [Targets -> 0..MaxSeq]
      /\ \A t \in Targets : delivered'[t] <= finished'[t]
    BY <1>1 DEF ExpInv, ExpTypeOK
<1>3. ExpTypeOK'
    BY <1>1, <1>2 DEF ExpInv, ExpTypeOK
<1> QED
    BY <1>1, <1>3 DEF ExpInv, SlotsCoherent, BodiesCoherent, ScrapeBehind, NoneLost,
                      InHand, DeliveredTo, Ending, PermitsHeld, Active

LEMMA ReceiveStep ==
    ASSUME ExpInv, NEW u \in Targets, RecvSome(u)
    PROVE  ExpInv'
<1>1. /\ hand = None /\ ~ended /\ delivered[u] < MaxSeq
      /\ delivered[u] < finished[u] /\ finished' = finished
      /\ delivered' = [delivered EXCEPT ![u] = @ + 1] /\ ended' = ended
      /\ name' = name /\ slots' = slots /\ requests' = requests /\ phase' = phase
      /\ conn' = conn /\ body' = body /\ scraped' = scraped
      /\ MaxSeq \in Nat /\ delivered \in [Targets -> 0..MaxSeq]
      /\ finished \in [Targets -> 0..MaxSeq]
    BY ExporterAssumption DEF RecvSome, Deliver, connVars, ExpInv, ExpTypeOK
<1>2. PICK ok \in BOOLEAN : hand' = [target |-> u, ok |-> ok, seq |-> delivered[u]]
    BY DEF RecvSome
<1>3. hand' \in Result /\ hand' # None /\ hand'.target = u
    BY <1>1, <1>2, ExporterAssumption DEF Result
<1>4. ExpTypeOK'
    BY <1>1, <1>3 DEF ExpInv, ExpTypeOK
<1>5. NoneLost'
  <2> SUFFICES ASSUME NEW t \in Targets, name[t] = t
               PROVE  slots[t].sent + InHand(t)' = Cardinality(DeliveredTo(t))'
      BY <1>1 DEF NoneLost
  <2>1. /\ slots[t].sent + 0 = Cardinality(DeliveredTo(t)) /\ slots[t].sent \in Nat
      BY <1>1 DEF ExpInv, NoneLost, InHand, ExpTypeOK, Slot
  <2>2. InHand(t)' = IF name[u] = t THEN 1 ELSE 0
      BY <1>1, <1>3 DEF InHand
  <2> QED
      BY <2>1, <2>2, DeliveryCounts DEF ExpInv
<1>6. SlotsCoherent' /\ BodiesCoherent' /\ ScrapeBehind' /\ Ending' /\ PermitsHeld'
    BY <1>1 DEF ExpInv, SlotsCoherent, BodiesCoherent, ScrapeBehind, Ending, PermitsHeld,
                Active
<1> QED
    BY <1>4, <1>5, <1>6 DEF ExpInv

LEMMA RecordStep ==
    ASSUME ExpInv, Record
    PROVE  ExpInv'
<1>1. /\ hand # None /\ hand \in Result /\ hand' = None
      /\ finished' = finished /\ delivered' = delivered /\ ended' = ended
      /\ name' = name /\ requests' = requests /\ phase' = phase
      /\ conn' = conn /\ body' = body /\ scraped' = scraped
      /\ slots \in [Targets -> Slot]
    BY DEF Record, streamVars, vars, connVars, ExpInv, ExpTypeOK
<1> DEFINE h == name[hand.target]
<1>2. h \in Targets /\ name[h] = h
    BY <1>1 DEF ExpInv, ExpTypeOK, Namings, Result
<1>3. PICK now \in 1..MaxTime : slots' = [slots EXCEPT ![h] = Recorded(@, hand, now)]
    BY DEF Record
<1>4. /\ slots'[h] \in Slot /\ SlotCoherent(slots'[h])
      /\ Behind(slots[h], slots'[h]) /\ slots'[h].sent = slots[h].sent + 1
    BY <1>1, <1>2, <1>3, RecordedSlot DEF ExpInv, SlotsCoherent
<1>5. \A t \in Targets : t # h => slots'[t] = slots[t]
    BY <1>1, <1>3
<1>6. slots' \in [Targets -> Slot]
    BY <1>1, <1>3, <1>4, <1>5
<1>7. ExpTypeOK'
    BY <1>1, <1>6 DEF ExpInv, ExpTypeOK
<1>8. SlotsCoherent'
    BY <1>4, <1>5 DEF ExpInv, SlotsCoherent
<1>9. ScrapeBehind'
  <2> SUFFICES ASSUME scraped # None, NEW t \in Targets
               PROVE  Behind(scraped[t], slots'[t])
      BY <1>1 DEF ScrapeBehind
  <2>1. Behind(scraped[t], slots[t]) /\ scraped[t] \in Slot /\ slots[t] \in Slot
      BY <1>1 DEF ExpInv, ScrapeBehind, ExpTypeOK
  <2>2. CASE t = h
      BY <1>4, <2>1, <2>2 DEF Behind, Slot
  <2> QED
      BY <1>5, <2>1, <2>2
<1>10. NoneLost'
  <2> SUFFICES ASSUME NEW t \in Targets, name[t] = t
               PROVE  slots'[t].sent + 0 = Cardinality(DeliveredTo(t))
      BY <1>1 DEF NoneLost, InHand, DeliveredTo
  <2>1. slots[t].sent + InHand(t) = Cardinality(DeliveredTo(t)) /\ slots[t].sent \in Nat
      BY <1>1 DEF ExpInv, NoneLost, Slot
  <2>2. InHand(t) = IF t = h THEN 1 ELSE 0
      BY <1>1 DEF InHand
  <2> QED
      BY <1>4, <1>5, <2>1, <2>2
<1>11. BodiesCoherent' /\ Ending' /\ PermitsHeld'
    BY <1>1 DEF ExpInv, BodiesCoherent, Ending, PermitsHeld, Active
<1> QED
    BY <1>7, <1>8, <1>9, <1>10, <1>11 DEF ExpInv

\* A scraper comes, is served or goes; only ReadMetrics shows it anything.
LEMMA ConnKeeps ==
    ASSUME ExpInv, NEW c \in Conns,
           \/ Connect(c) \/ Accept(c) \/ ReadMetrics(c)
           \/ ReadOther(c) \/ Return(c) \/ Timeout(c)
    PROVE  ExpInv'
<1>1. /\ finished' = finished /\ delivered' = delivered /\ ended' = ended
      /\ name' = name /\ hand' = hand /\ slots' = slots /\ phase' = phase
    BY DEF Connect, Accept, ReadMetrics, ReadOther, Return, Timeout, streamVars, vars,
           stateVars
<1>2. conn' \in [Conns -> States] /\ PermitsHeld'
    BY ConnStep DEF ExpInv
<1>3. SlotsCoherent' /\ NoneLost' /\ Ending'
    BY <1>1 DEF ExpInv, SlotsCoherent, NoneLost, InHand, DeliveredTo, Ending
<1>4. CASE ReadMetrics(c)
  <2>1. /\ slots \in [Targets -> Slot] /\ SlotsCoherent /\ requests \in Nat
        /\ body \in [Conns -> {None} \cup [slots : [Targets -> Slot], requests : Nat]]
      BY DEF ExpInv, ExpTypeOK
  <2>2. /\ requests' = requests + 1 /\ scraped' = slots
        /\ body' = [body EXCEPT ![c] = [slots |-> slots, requests |-> requests + 1]]
      BY <1>4 DEF ReadMetrics
  <2>3. ExpTypeOK'
      BY <1>1, <1>2, <2>1, <2>2 DEF ExpInv, ExpTypeOK
  <2>4. Coherent(slots)
      BY <2>1 DEF SlotsCoherent, SlotCoherent, Coherent
  <2>5. BodiesCoherent'
    <3> SUFFICES ASSUME NEW d \in Conns, body'[d] # None PROVE Coherent(body'[d].slots)
        BY DEF BodiesCoherent
    <3>1. CASE d = c
        BY <2>1, <2>2, <2>4, <3>1
    <3>2. CASE d # c
      <4>1. body'[d] = body[d]
          BY <2>1, <2>2, <3>2
      <4> QED
          BY <4>1 DEF ExpInv, BodiesCoherent
    <3> QED
        BY <3>1, <3>2
  <2>6. ScrapeBehind'
      BY <1>1, <2>1, <2>2 DEF ScrapeBehind, Behind, Slot
  <2> QED
      BY <1>2, <1>3, <2>3, <2>5, <2>6 DEF ExpInv
<1>5. CASE \/ Connect(c) \/ Accept(c) \/ ReadOther(c) \/ Return(c) \/ Timeout(c)
  <2>1. /\ requests' = requests /\ scraped' = scraped
        /\ body' = body \/ body' = [body EXCEPT ![c] = None]
      BY <1>5 DEF Connect, Accept, ReadOther, Return, Timeout, stateVars
  <2>2. ExpTypeOK'
      BY <1>1, <1>2, <2>1 DEF ExpInv, ExpTypeOK
  <2>3. \A d \in Conns : body'[d] \in {body[d], None}
      BY <2>1 DEF ExpInv, ExpTypeOK
  <2>4. BodiesCoherent'
    <3> SUFFICES ASSUME NEW d \in Conns, body'[d] # None PROVE Coherent(body'[d].slots)
        BY DEF BodiesCoherent
    <3>1. body'[d] = body[d]
        BY <2>3
    <3> QED
        BY <3>1 DEF ExpInv, BodiesCoherent
  <2>5. ScrapeBehind'
      BY <1>1, <2>1 DEF ExpInv, ScrapeBehind
  <2> QED
      BY <1>2, <1>3, <2>2, <2>4, <2>5 DEF ExpInv
<1> QED
    BY <1>4, <1>5

\* The update task ends; the accept loop pauses, goes on, shuts down, returns.
LEMMA LoopKeeps ==
    ASSUME ExpInv,
           RecvNone \/ AcceptError \/ BackoffOver \/ PressCtrlC \/ Shutdown \/ Exit
    PROVE  ExpInv'
<1>1. CASE RecvNone \/ Shutdown
  <2>1. /\ finished' = finished /\ delivered' = delivered
        /\ name' = name /\ hand' = hand /\ slots' = slots
        /\ requests' = requests /\ conn' = conn /\ body' = body /\ scraped' = scraped
      BY <1>1 DEF RecvNone, Shutdown, Stop, End, stateVars, connVars
  <2>2. Ending'
      BY <1>1 DEF RecvNone, Shutdown, Stop, End, stateVars, ExpInv, Ending
  <2> QED
      BY <2>1, <2>2 DEF ExpInv, ExpTypeOK, SlotsCoherent, BodiesCoherent, ScrapeBehind,
                        NoneLost, InHand, DeliveredTo, PermitsHeld, Active
<1>2. CASE AcceptError \/ BackoffOver \/ PressCtrlC \/ Exit
  <2>1. UNCHANGED <<streamVars, name, stateVars, connVars>>
      BY <1>2 DEF AcceptError, BackoffOver, PressCtrlC, Exit
  <2>2. Ending'
      BY <1>2, <2>1 DEF AcceptError, BackoffOver, PressCtrlC, Exit, ExpInv, Ending,
                        streamVars, vars, stateVars
  <2> QED
      BY <2>1, <2>2, QuietKeeps
<1> QED
    BY <1>1, <1>2

LEMMA ExpKept == ExpInv /\ [Running]_allVars => ExpInv'
<1> SUFFICES ASSUME ExpInv, [Running]_allVars PROVE ExpInv'
    OBVIOUS
<1>1. CASE UNCHANGED allVars
  <2>1. UNCHANGED <<streamVars, name, stateVars, connVars>> /\ Ending'
      BY <1>1 DEF allVars, ExpInv, Ending, streamVars, vars, stateVars
  <2> QED
      BY <2>1, QuietKeeps
<1> QED
    BY <1>1, ProbedStep, ReceiveStep, RecordStep, ConnKeeps, LoopKeeps DEF Running, Update

\* Whatever the exporter keeps holds together at every moment.
THEOREM ExpInvariance == ExpSpec => []ExpInv
  BY ExpStarts, ExpKept, PTL DEF ExpSpec

\* Whatever a scraper is sent was true at one instant, for any number of targets
\* that share any URLs and any setting back of the clock.
THEOREM BodiesHold == ExpSpec => []BodiesCoherent
<1>1. ExpInv => BodiesCoherent
    BY DEF ExpInv
<1> QED
    BY <1>1, ExpInvariance, PTL

\* The exporter ends with the result of every probe in the slot of its URL.
THEOREM DrainHolds == ExpSpec => []ShutdownDrains
<1>1. ExpInv => ShutdownDrains
  <2> SUFFICES ASSUME ExpInv, phase = "exited", NEW t \in Targets, name[t] = t
               PROVE  slots[t].sent = Cardinality(ProbesOf(t))
      BY DEF ShutdownDrains
  <2>1. InHand(t) = 0 /\ slots[t].sent \in Nat
      BY DEF ExpInv, Ending, InHand, ExpTypeOK, Slot
  <2>2. ProbesOf(t) = DeliveredTo(t)
      BY DEF ExpInv, Ending, ProbesOf, DeliveredTo
  <2> QED
      BY <2>1, <2>2 DEF ExpInv, NoneLost
<1> QED
    BY <1>1, ExpInvariance, PTL

\* No more connections are served at once than MAX_CONNECTIONS allows.
THEOREM PermitsBounded == ExpSpec => [](Permits \in 0..MaxConnections)
<1>1. ExpInv => Permits \in 0..MaxConnections
    BY ActiveFinite, ExporterAssumption DEF ExpInv, PermitsHeld, Permits
<1> QED
    BY <1>1, ExpInvariance, PTL

\* From one scrape to the next nothing that counts or dates goes back.
THEOREM ScrapesHold == ExpSpec => ScrapesAdvance
<1> DEFINE Advance == scraped' # scraped /\ scraped # None =>
              \A t \in Targets : /\ scraped'[t].sent >= scraped[t].sent
                                 /\ scraped'[t].failed >= scraped[t].failed
                                 /\ scraped'[t].attempt >= scraped[t].attempt
                                 /\ scraped'[t].success >= scraped[t].success
<1>1. ExpInv /\ [Running]_allVars => [Advance]_allVars
  <2> SUFFICES ASSUME ExpInv, Running, scraped' # scraped, scraped # None,
                      NEW t \in Targets
               PROVE  /\ scraped'[t].sent >= scraped[t].sent
                      /\ scraped'[t].failed >= scraped[t].failed
                      /\ scraped'[t].attempt >= scraped[t].attempt
                      /\ scraped'[t].success >= scraped[t].success
      OBVIOUS
  <2>1. scraped' = slots
      BY DEF Running, Connect, Accept, ReadMetrics, ReadOther, Return, Timeout, Update,
             Probed, RecvSome, Record, RecvNone, AcceptError, BackoffOver, PressCtrlC, Shutdown,
             Exit, connVars
  <2>2. Behind(scraped[t], slots[t]) /\ scraped[t] \in Slot /\ slots[t] \in Slot
      BY DEF ExpInv, ScrapeBehind, ExpTypeOK
  <2> QED
      BY <2>1, <2>2 DEF Behind, Slot
<1>2. ScrapesAdvance <=> [][Advance]_allVars
    BY DEF ScrapesAdvance
<1> QED
    BY <1>1, <1>2, ExpInvariance, PTL DEF ExpSpec
=============================================================================
