-------------------------- MODULE SubcommandProofs --------------------------
(***************************************************************************)
(* The two subcommands that keep state of their own: "httprove serve" and  *)
(* "httprove update".                                                      *)
(*                                                                         *)
(* The mock server keeps every request it has answered, for any number of  *)
(* clients, any --keep and any --max-body, and accounts for its permits.   *)
(* The tasks take their numbers and store them in two steps, so that the   *)
(* store is not in the order of the numbers; what holds is that it is the  *)
(* end of the order of storing, and that a number is stored before its     *)
(* response is sent, once.                                                 *)
(*                                                                         *)
(* Wherever "httprove update" fails or is killed, and however often it is  *)
(* run again over what an earlier run left: the installed command stays a  *)
(* whole binary of a verified release, success is not claimed falsely, and *)
(* nothing is downgraded unasked; for any number of releases and runs.     *)
(* The argument follows the program counter: what a run has already made   *)
(* sure of at each of its steps, whatever it found on the disk.            *)
(***************************************************************************)
EXTENDS Serve, SelfUpdate, FiniteSetTheorems, SequenceTheorems, TLAPS

-----------------------------------------------------------------------------
(* httprove serve.                                                         *)

ConnStates == {"closed", "backlog", "handshake", "idle", "body", "numbered", "delay"}
Bodies == [sent : Nat, taken : Nat, truncated : BOOLEAN]

ServeTypeOK ==
    /\ permits \in Int
    /\ conn \in [Clients -> ConnStates]
    /\ body \in [Clients -> Bodies]
    /\ seq \in Nat \ {0}
    /\ number \in [Clients -> Nat]
    /\ store \in Seq(Nat) /\ pushes \in Seq(Nat)

\* No more is taken of a body than there is, nor than fits.
BodyInv == \A c \in Clients :
    /\ body[c].taken <= MaxBody /\ body[c].taken <= body[c].sent
    /\ body[c].truncated => body[c].taken = MaxBody /\ body[c].sent > MaxBody

\* A number belongs to one request: the one that is handled under it.
NumberInv ==
    /\ \A c \in Clients : number[c] < seq
    /\ \A c \in Clients : conn[c] \in {"numbered", "delay"} => number[c] # 0
    /\ \A c, d \in Clients : number[c] = number[d] /\ number[c] # 0 => c = d

\* Every number is stored at most once, before its response is sent.
PushInv ==
    /\ \A i \in 1..Len(pushes) : pushes[i] < seq
    /\ \A i, j \in 1..Len(pushes) : pushes[i] = pushes[j] => i = j
    /\ \A c \in Clients : conn[c] = "numbered" =>
          \A i \in 1..Len(pushes) : pushes[i] # number[c]
    /\ \A c \in Clients : conn[c] = "delay" =>
          \E i \in 1..Len(pushes) : pushes[i] = number[c]
    /\ \A n \in answered : \E i \in 1..Len(pushes) : pushes[i] = n

\* The store is the end of the order of storing.
StoreInv ==
    /\ Len(store) = IF Len(pushes) > Keep THEN Keep ELSE Len(pushes)
    /\ \A i \in 1..Len(store) : store[i] = pushes[Len(pushes) - Len(store) + i]

ServeInv == ServeTypeOK /\ BodyInv /\ NumberInv /\ PushInv /\ StoreInv

-----------------------------------------------------------------------------
\* What Ring leaves of a sequence that has outgrown the store by one.
LEMMA RingIsTheEnd ==
  ASSUME NEW s \in Seq(Nat), Len(s) <= Keep + 1, Keep \in Nat
  PROVE  /\ Ring(s) \in Seq(Nat)
         /\ Len(Ring(s)) = IF Len(s) > Keep THEN Keep ELSE Len(s)
         /\ \A i \in 1..Len(Ring(s)) : Ring(s)[i] = s[Len(s) - Len(Ring(s)) + i]
<1>1. CASE Len(s) <= Keep
  <2>1. Ring(s) = s /\ Len(s) \in Nat
    BY <1>1 DEF Ring
  <2>2. \A i \in 1..Len(s) : Len(s) - Len(s) + i = i
    BY <2>1
  <2> QED
    BY <1>1, <2>1, <2>2
<1>2. CASE Len(s) > Keep
  <2>1. Len(s) = Keep + 1 /\ Ring(s) = SubSeq(s, 2, Keep + 1)
    BY <1>2 DEF Ring
  <2>2. /\ Ring(s) \in Seq(Nat)
        /\ Len(Ring(s)) = Keep
        /\ \A i \in 1..Keep : Ring(s)[i] = s[i + 1]
    <3>1. /\ 2 \in Int /\ Keep + 1 \in Int
          /\ \A i \in 2..(Keep + 1) : s[i] \in Nat
      BY <2>1
    <3>2. /\ SubSeq(s, 2, Keep + 1) \in Seq(Nat)
          /\ Len(SubSeq(s, 2, Keep + 1)) = IF 2 <= Keep + 1 THEN (Keep + 1) - 2 + 1 ELSE 0
          /\ \A i \in 1..((Keep + 1) - 2 + 1) : SubSeq(s, 2, Keep + 1)[i] = s[2 + i - 1]
      BY <3>1, SubSeqProperties
    <3> QED
      BY <2>1, <3>2
  <2>3. \A i \in 1..Keep : Len(s) - Keep + i = i + 1
    BY <2>1
  <2> QED
    BY <1>2, <2>2, <2>3
<1> QED
  BY <1>1, <1>2

\* The constants, one by one.
LEMMA Numbers == Limit \in Nat /\ Keep \in Nat /\ MaxBody \in Nat
BY ServeAssumption

LEMMA ServeStarts == Init => ServeInv
<1> SUFFICES ASSUME Init PROVE ServeInv
  OBVIOUS
<1> USE Numbers DEF Init, NoBody
<1>1. ServeTypeOK
  BY DEF ServeTypeOK, ConnStates, Bodies
<1>2. BodyInv
  BY DEF BodyInv
<1>3. NumberInv
  BY DEF NumberInv
<1>4. PushInv /\ StoreInv
  BY DEF PushInv, StoreInv
<1> QED
  BY <1>1, <1>2, <1>3, <1>4 DEF ServeInv

\* What the accept loop and the kernel leave alone.
Kept == UNCHANGED <<body, seq, number, store, pushes, answered>>

\* A connection that handles no request goes where it handles none either.
LEMMA Elsewhere ==
  ASSUME ServeInv, Kept, permits' \in Int,
         NEW c \in Clients, NEW st \in ConnStates \ {"numbered", "delay"},
         conn' = [conn EXCEPT ![c] = st]
  PROVE  ServeInv'
<1>1. ServeTypeOK'
  BY DEF ServeInv, ServeTypeOK, Kept
<1>2. BodyInv' /\ StoreInv'
  BY DEF ServeInv, BodyInv, StoreInv, Kept
<1>3. NumberInv' /\ PushInv'
  BY DEF ServeInv, ServeTypeOK, NumberInv, PushInv, Kept
<1> QED
  BY <1>1, <1>2, <1>3 DEF ServeInv

LEMMA TakeChunkBounded ==
  ASSUME NEW b \in Bodies, NEW n \in Nat, MaxBody \in Nat, b.taken <= MaxBody,
         b.taken + n <= b.sent, ~b.truncated
  PROVE  LET t == TakeChunk(b, n) IN
         /\ t \in Bodies
         /\ t.taken <= MaxBody /\ t.taken <= t.sent
         /\ t.truncated => t.taken = MaxBody /\ t.sent > MaxBody
<1>1. CASE b.taken + n > MaxBody
  <2>1. TakeChunk(b, n) = [sent |-> b.sent, taken |-> MaxBody, truncated |-> TRUE]
    BY <1>1 DEF Bodies, TakeChunk
  <2> QED
    BY <1>1, <2>1 DEF Bodies
<1>2. CASE ~(b.taken + n > MaxBody)
  <2>1. TakeChunk(b, n) = [sent |-> b.sent, taken |-> b.taken + n, truncated |-> FALSE]
    BY <1>2 DEF Bodies, TakeChunk
  <2> QED
    BY <1>2, <2>1 DEF Bodies
<1> QED
  BY <1>1, <1>2

LEMMA TaskKeeps ==
  ASSUME ServeInv, NEW c \in Clients, Task(c)
  PROVE  ServeInv'
<1> USE Numbers
<1>1. CASE Handshake(c)
  BY <1>1, Elsewhere DEF Handshake, Kept, ConnStates, ServeInv, ServeTypeOK
<1>2. CASE Close(c)
  <2> USE <1>2 DEF Close, NoBody
  <2>1. ServeTypeOK'
    BY DEF ServeInv, ServeTypeOK, ConnStates, Bodies
  <2>2. BodyInv' /\ StoreInv'
    <3>1. \A d \in Clients : body'[d] = IF d = c THEN NoBody ELSE body[d]
      BY DEF ServeInv, ServeTypeOK
    <3>2. BodyInv'
      BY <3>1 DEF ServeInv, BodyInv
    <3> QED
      BY <3>2 DEF ServeInv, StoreInv
  <2>3. \A d \in Clients : d # c => conn'[d] = conn[d] /\ number'[d] = number[d]
    BY DEF ServeInv, ServeTypeOK
  <2>4. number'[c] = 0 /\ conn'[c] = "closed"
    BY DEF ServeInv, ServeTypeOK
  <2>5. NumberInv'
    BY <2>3, <2>4 DEF ServeInv, ServeTypeOK, NumberInv
  <2>6. PushInv'
    BY <2>3, <2>4, SMTT(30) DEF ServeInv, ServeTypeOK, PushInv
  <2> QED
    BY <2>1, <2>2, <2>5, <2>6 DEF ServeInv
<1>3. CASE \E n \in 0..(MaxBody + 1) : Request(c, n)
  <2>1. PICK n \in 0..(MaxBody + 1) : Request(c, n)
    BY <1>3
  <2> USE <2>1 DEF Request, NoBody
  <2> DEFINE b == [NoBody EXCEPT !.sent = n]
  <2>0. b \in Bodies /\ b.taken = 0 /\ ~b.truncated
    <3>1. NoBody \in Bodies /\ NoBody.taken = 0 /\ ~NoBody.truncated /\ n \in Nat
      BY DEF Bodies
    <3> QED
      BY <3>1 DEF Bodies
  <2>a. body' = [body EXCEPT ![c] = b]
    OBVIOUS
  <2>2. ServeTypeOK'
    BY <2>0, <2>a DEF ServeInv, ServeTypeOK, ConnStates
  <2>3. BodyInv' /\ StoreInv'
    <3>1. \A d \in Clients : body'[d] = IF d = c THEN b ELSE body[d]
      BY <2>a DEF ServeInv, ServeTypeOK
    <3>2. BodyInv'
      BY <2>0, <3>1 DEF ServeInv, BodyInv, Bodies
    <3> QED
      BY <3>2 DEF ServeInv, StoreInv
  <2>4. NumberInv' /\ PushInv'
    BY DEF ServeInv, ServeTypeOK, NumberInv, PushInv
  <2> QED
    BY <2>2, <2>3, <2>4 DEF ServeInv
<1>4. CASE Frame(c)
  <2>1. PICK n \in 1..(body[c].sent - body[c].taken) :
               body' = [body EXCEPT ![c] = TakeChunk(body[c], n)]
    BY <1>4 DEF Frame
  <2>2. /\ body[c] \in Bodies /\ body[c].taken <= MaxBody /\ ~body[c].truncated
        /\ n \in Nat /\ body[c].taken + n <= body[c].sent
    BY <1>4, <2>1 DEF Frame, ServeInv, ServeTypeOK, BodyInv, Bodies
  <2>3. LET t == TakeChunk(body[c], n) IN
        /\ t \in Bodies
        /\ t.taken <= MaxBody /\ t.taken <= t.sent
        /\ t.truncated => t.taken = MaxBody /\ t.sent > MaxBody
    BY <2>2, TakeChunkBounded
  <2>4. ServeTypeOK'
    BY <1>4, <2>1, <2>3 DEF Frame, ServeInv, ServeTypeOK
  <2>5. BodyInv'
    BY <2>1, <2>3 DEF ServeInv, ServeTypeOK, BodyInv
  <2>6. StoreInv' /\ NumberInv'
    BY <1>4 DEF Frame, ServeInv, StoreInv, NumberInv
  <2>7. PushInv'
    BY <1>4 DEF Frame, ServeInv, PushInv
  <2> QED
    BY <2>4, <2>5, <2>6, <2>7 DEF ServeInv
<1>5. CASE Number(c)
  <2> USE <1>5 DEF Number
  <2>1. ServeTypeOK'
    BY DEF ServeInv, ServeTypeOK, ConnStates
  <2>2. BodyInv' /\ StoreInv'
    BY DEF ServeInv, BodyInv, StoreInv
  <2>3. \A d \in Clients : d # c => conn'[d] = conn[d] /\ number'[d] = number[d]
    BY DEF ServeInv, ServeTypeOK
  <2>4. /\ number'[c] = seq /\ conn'[c] = "numbered" /\ seq' = seq + 1
        /\ seq \in Nat \ {0} /\ \A d \in Clients : number[d] \in Nat
    BY DEF ServeInv, ServeTypeOK
  <2>5. NumberInv'
    BY <2>3, <2>4 DEF ServeInv, NumberInv
  <2>6. PushInv'
    <3>1. Len(pushes) \in Nat /\ \A i \in 1..Len(pushes) : pushes[i] \in Nat /\ pushes[i] < seq
      BY DEF ServeInv, ServeTypeOK, PushInv
    <3>2. \A i \in 1..Len(pushes) : pushes[i] < seq' /\ pushes[i] # seq
      BY <2>4, <3>1
    <3>3. pushes' = pushes /\ answered' = answered
      OBVIOUS
    <3> QED
      BY <2>3, <2>4, <3>2, <3>3 DEF ServeInv, PushInv
  <2> QED
    BY <2>1, <2>2, <2>5, <2>6 DEF ServeInv
<1>6. CASE Store(c)
  <2> DEFINE m == number[c]
             k == Len(pushes)
             grown == Append(store, m)
  <2>1. /\ conn[c] = "numbered" /\ conn' = [conn EXCEPT ![c] = "delay"]
        /\ store' = Ring(grown) /\ pushes' = Append(pushes, m)
        /\ UNCHANGED <<permits, body, seq, number, answered>>
    BY <1>6 DEF Store
  <2>2. /\ m \in Nat /\ m < seq /\ grown \in Seq(Nat) /\ k \in Nat
        /\ Len(grown) = Len(store) + 1 /\ Len(grown) <= Keep + 1
    BY DEF ServeInv, ServeTypeOK, NumberInv, StoreInv
  <2>3. /\ store' \in Seq(Nat)
        /\ Len(store') = IF Len(grown) > Keep THEN Keep ELSE Len(grown)
        /\ \A i \in 1..Len(store') : store'[i] = grown[Len(grown) - Len(store') + i]
    BY <2>1, <2>2, RingIsTheEnd
  <2>4. /\ pushes' \in Seq(Nat) /\ Len(pushes') = k + 1 /\ pushes'[k + 1] = m
        /\ \A i \in 1..k : pushes'[i] = pushes[i]
    BY <2>1, <2>2 DEF ServeInv, ServeTypeOK
  <2>5. ServeTypeOK'
    BY <2>1, <2>3, <2>4 DEF ServeInv, ServeTypeOK, ConnStates
  <2>6. BodyInv'
    BY <2>1 DEF ServeInv, BodyInv
  <2>7. NumberInv'
    BY <2>1 DEF ServeInv, ServeTypeOK, NumberInv
  <2>8. StoreInv'
    <3>1. /\ Len(grown) = (IF k > Keep THEN Keep ELSE k) + 1
          /\ Len(store') = IF k + 1 > Keep THEN Keep ELSE k + 1
      BY <2>2, <2>3 DEF ServeInv, StoreInv
    <3>0. Len(store) \in Nat /\ Len(store) <= k /\ Len(store) <= Keep
      BY <2>2 DEF ServeInv, ServeTypeOK, StoreInv
    <3>2. \A j \in 1..Len(grown) : grown[j] = pushes'[k + 1 - Len(grown) + j]
      <4> SUFFICES ASSUME NEW j \in 1..Len(grown)
                   PROVE  grown[j] = pushes'[k + 1 - Len(grown) + j]
        OBVIOUS
      <4>1. CASE j = Len(grown)
        BY <4>1, <3>0, <2>2, <2>4 DEF ServeInv, ServeTypeOK
      <4>2. CASE j # Len(grown)
        <5>1. j \in 1..Len(store) /\ grown[j] = store[j]
          BY <4>2, <2>2 DEF ServeInv, ServeTypeOK
        <5>2. store[j] = pushes[k - Len(store) + j]
          BY <5>1 DEF ServeInv, StoreInv
        <5>4. k - Len(store) + j \in 1..k
          BY <5>1, <3>0, <2>2
        <5>3. k + 1 - Len(grown) + j = k - Len(store) + j
          BY <5>1, <3>0, <2>2
        <5> QED
          BY <5>1, <5>2, <5>3, <5>4, <2>4
      <4> QED
        BY <4>1, <4>2
    <3>3. ASSUME NEW i \in 1..Len(store')
          PROVE  store'[i] = pushes'[Len(pushes') - Len(store') + i]
      <4> DEFINE g == Len(grown)
                 l == Len(store')
      <4>1. g \in Nat /\ l \in Nat /\ l <= g
        BY <3>1, <2>2
      <4>2. g - l + i \in 1..g
        BY <4>1
      <4>3. grown[g - l + i] = pushes'[k + 1 - g + (g - l + i)]
        BY <4>2, <3>2
      <4>4. k + 1 - g + (g - l + i) = k + 1 - l + i
        BY <4>1, <2>2
      <4>5. store'[i] = grown[g - l + i]
        BY <2>3
      <4> QED
        BY <4>3, <4>4, <4>5, <2>4
    <3> QED
      BY <3>1, <3>3, <2>4 DEF StoreInv
  <2>9. PushInv'
    <3>1. \A i \in 1..k : pushes[i] # m
      BY <2>1 DEF ServeInv, PushInv
    <3>2. \A i \in 1..(k + 1) : i = k + 1 \/ i \in 1..k
      BY <2>2
    <3>3. \A i \in 1..(k + 1) : pushes'[i] < seq'
      BY <2>1, <2>2, <2>4, <3>2 DEF ServeInv, PushInv
    <3>4. \A i, j \in 1..(k + 1) : pushes'[i] = pushes'[j] => i = j
      BY <2>4, <3>1, <3>2 DEF ServeInv, PushInv
    <3>5. \A d \in Clients : conn'[d] = "numbered" =>
            \A i \in 1..(k + 1) : pushes'[i] # number'[d]
      BY <2>1, <2>4, <3>2 DEF ServeInv, ServeTypeOK, NumberInv, PushInv
    <3>6. k + 1 \in 1..(k + 1) /\ \A i \in 1..k : i \in 1..(k + 1)
      BY <2>2
    <3>7. \A d \in Clients : conn'[d] = "delay" =>
            \E i \in 1..(k + 1) : pushes'[i] = number'[d]
      BY <2>1, <2>4, <3>6 DEF ServeInv, ServeTypeOK, PushInv
    <3>8. \A n \in answered' : \E i \in 1..(k + 1) : pushes'[i] = n
      BY <2>1, <2>4, <3>6 DEF ServeInv, PushInv
    <3> QED
      BY <2>4, <3>3, <3>4, <3>5, <3>7, <3>8 DEF PushInv
  <2> QED
    BY <2>5, <2>6, <2>7, <2>8, <2>9 DEF ServeInv
<1>7. CASE Respond(c)
  <2> USE <1>7 DEF Respond, NoBody
  <2>1. ServeTypeOK'
    BY DEF ServeInv, ServeTypeOK, ConnStates, Bodies
  <2>2. BodyInv' /\ StoreInv'
    <3>1. \A d \in Clients : body'[d] = IF d = c THEN NoBody ELSE body[d]
      BY DEF ServeInv, ServeTypeOK
    <3>2. BodyInv'
      BY <3>1 DEF ServeInv, BodyInv
    <3> QED
      BY <3>2 DEF ServeInv, StoreInv
  <2>3. \A d \in Clients : d # c => conn'[d] = conn[d] /\ number'[d] = number[d]
    BY DEF ServeInv, ServeTypeOK
  <2>4. number'[c] = 0 /\ conn'[c] = "idle"
    BY DEF ServeInv, ServeTypeOK
  <2>5. NumberInv'
    BY <2>3, <2>4 DEF ServeInv, ServeTypeOK, NumberInv
  <2>6. PushInv'
    <3>1. \E i \in 1..Len(pushes) : pushes[i] = number[c]
      BY DEF ServeInv, PushInv
    <3>2. pushes' = pushes /\ seq' = seq /\ answered' = answered \cup {number[c]}
      OBVIOUS
    <3> QED
      BY <2>3, <2>4, <3>1, <3>2 DEF ServeInv, PushInv
  <2> QED
    BY <2>1, <2>2, <2>5, <2>6 DEF ServeInv
<1> QED
  BY <1>1, <1>2, <1>3, <1>4, <1>5, <1>6, <1>7 DEF Task

LEMMA ServeStep == ServeInv /\ [Next]_vars => ServeInv'
<1> SUFFICES ASSUME ServeInv, [Next]_vars PROVE ServeInv'
  OBVIOUS
<1> USE Numbers
<1>1. CASE \/ Start \/ AcceptError \/ BackoffOver \/ PressCtrlC \/ Stop
           \/ UNCHANGED vars
  <2>1. UNCHANGED <<permits, conn, body, seq, number, store, pushes, answered>>
    BY <1>1 DEF Start, AcceptError, BackoffOver, PressCtrlC, Stop, vars
  <2> QED
    BY <2>1 DEF ServeInv, ServeTypeOK, BodyInv, NumberInv, PushInv, StoreInv
<1>2. ASSUME NEW c \in Clients, Connect(c) PROVE ServeInv'
  BY <1>2, Elsewhere DEF Connect, Kept, ConnStates, ServeInv, ServeTypeOK
<1>3. ASSUME NEW c \in Clients, Accept(c) PROVE ServeInv'
  BY <1>3, Elsewhere DEF Accept, Kept, ConnStates, ServeInv, ServeTypeOK
<1>4. ASSUME NEW c \in Clients, Task(c) PROVE ServeInv'
  BY <1>4, TaskKeeps
<1> QED
  BY <1>1, <1>2, <1>3, <1>4 DEF Next

\* What is stored, counted and taken, at every moment.
THEOREM ServeInvariance == Spec => []ServeInv
BY ServeStarts, ServeStep, PTL DEF Spec

\* serve.rs:69: an answered request can be looked up until --keep others were
\* kept after it, whatever order the tasks stored them in; the store is never
\* too long; a body is held up to --max-body and marked as truncated rightly.
THEOREM AnsweredKept == Spec => []AnsweredIsKept
<1>1. ServeInv => AnsweredIsKept
  <2> SUFFICES ASSUME ServeInv PROVE AnsweredIsKept
    OBVIOUS
  <2> USE Numbers
  <2> DEFINE k == Len(pushes)
             l == Len(store)
  <2>1. /\ k \in Nat /\ l \in Nat /\ l <= Keep /\ l <= k
        /\ k - l > 0 => l = Keep
    BY DEF ServeInv, ServeTypeOK, StoreInv
  <2>2. \A c \in Clients : /\ body[c].taken <= MaxBody
                           /\ body[c].truncated => /\ body[c].taken = MaxBody
                                                   /\ body[c].sent > MaxBody
    BY DEF ServeInv, BodyInv
  <2>3. IsInjective(store)
    <3> SUFFICES ASSUME NEW i \in 1..l, NEW j \in 1..l, store[i] = store[j]
                 PROVE  i = j
      <4>1. DOMAIN store = 1..l
        BY DEF ServeInv, ServeTypeOK
      <4> QED
        BY <4>1 DEF IsInjective
    <3>1. k - l + i \in 1..k /\ k - l + j \in 1..k
      BY <2>1
    <3>2. pushes[k - l + i] = pushes[k - l + j]
      BY DEF ServeInv, StoreInv
    <3>3. k - l + i = k - l + j
      BY <3>1, <3>2 DEF ServeInv, PushInv
    <3> QED
      BY <3>3, <2>1
  <2>4. ASSUME NEW n \in answered
        PROVE  \/ n \in ToSet(store)
               \/ \E i \in 1..k : pushes[i] = n /\ k - i >= Keep
    <3>1. PICK i \in 1..k : pushes[i] = n
      BY DEF ServeInv, PushInv
    <3>2. CASE k - i >= Keep
      BY <3>1, <3>2
    <3>3. CASE k - i < Keep
      <4>1. i - (k - l) \in 1..l
        BY <3>3, <2>1
      <4>2. store[i - (k - l)] = pushes[k - l + (i - (k - l))]
        BY <4>1 DEF ServeInv, StoreInv
      <4>3. store[i - (k - l)] = n
        BY <4>2, <3>1, <2>1
      <4> QED
        BY <4>1, <4>3 DEF ToSet, ServeInv, ServeTypeOK
    <3> QED
      BY <3>2, <3>3, <2>1
  <2> QED
    BY <2>1, <2>2, <2>3, <2>4 DEF AnsweredIsKept
<1> QED
  BY <1>1, ServeInvariance, PTL

-----------------------------------------------------------------------------
(* The permits.                                                            *)

Served == {c \in Clients : conn[c] \notin {"closed", "backlog"}}
PermitInv == PermitsAccounted /\ permits \in Nat

\* The set of the tasks is finite, gains one client or loses one.
LEMMA ServedFinite == IsFiniteSet(Served)
<1>1. Served \subseteq Clients
  BY DEF Served
<1> QED
  BY <1>1, FS_Subset, ServeAssumption

LEMMA PermitStep == ServeInv /\ PermitInv /\ [Next]_vars => PermitInv'
<1> SUFFICES ASSUME ServeInv, PermitInv, [Next]_vars PROVE PermitInv'
  OBVIOUS
<1> USE Numbers
<1>1. permits + Cardinality(Served) = Limit /\ Cardinality(Served) \in Nat
  BY ServedFinite, FS_CardinalityType DEF PermitInv, PermitsAccounted, Served
<1>2. CASE permits' = permits /\ Served' = Served
  BY <1>1, <1>2 DEF PermitInv, PermitsAccounted, Served
<1>3. ASSUME NEW c \in Clients, Accept(c), permits > 0 PROVE PermitInv'
  <2>1. Served' = Served \cup {c} /\ c \notin Served /\ permits' = permits - 1
    BY <1>3 DEF Accept, Served, ServeInv, ServeTypeOK
  <2>2. Cardinality(Served') = Cardinality(Served) + 1
    BY <2>1, ServedFinite, FS_AddElement
  <2> QED
    BY <1>1, <1>3, <2>1, <2>2 DEF PermitInv, PermitsAccounted, Served
<1>4. ASSUME NEW c \in Clients, Close(c) PROVE PermitInv'
  <2>1. Served' = Served \ {c} /\ c \in Served /\ permits' = permits + 1
    BY <1>4 DEF Close, Served, ServeInv, ServeTypeOK
  <2>2. Cardinality(Served') = Cardinality(Served) - 1
    BY <2>1, ServedFinite, FS_RemoveElement
  <2> QED
    BY <1>1, <2>1, <2>2 DEF PermitInv, PermitsAccounted, Served
<1>5. CASE \/ Start \/ AcceptError \/ BackoffOver \/ PressCtrlC \/ Stop
           \/ UNCHANGED vars
  BY <1>2, <1>5 DEF Start, AcceptError, BackoffOver, PressCtrlC, Stop, vars, Served
<1>6. ASSUME NEW c \in Clients, Connect(c) \/ (Accept(c) /\ ~(permits > 0))
      PROVE  PermitInv'
  BY <1>2, <1>6 DEF Connect, Accept, Served, ServeInv, ServeTypeOK
<1>7. ASSUME NEW c \in Clients,
             Handshake(c) \/ Frame(c) \/ Number(c) \/ Store(c) \/ Respond(c)
      PROVE  PermitInv'
  BY <1>2, <1>7 DEF Handshake, Frame, Number, Store, Respond, Served, ServeInv,
                    ServeTypeOK
<1>8. ASSUME NEW c \in Clients, NEW n \in 0..(MaxBody + 1), Request(c, n)
      PROVE  PermitInv'
  BY <1>2, <1>8 DEF Request, Served, ServeInv, ServeTypeOK
<1>9. ASSUME NEW c \in Clients, Connect(c) \/ Accept(c) \/ Task(c) PROVE PermitInv'
  <2>1. CASE Connect(c) \/ Accept(c)
    BY <2>1, <1>3, <1>6
  <2>2. CASE Task(c)
    BY <2>2, <1>4, <1>7, <1>8 DEF Task
  <2> QED
    BY <1>9, <2>1, <2>2
<1> QED
  BY <1>5, <1>9 DEF Next

\* serve.rs:48 and 279: there are never more tasks than permits, and every permit is
\* free or held by a task.
THEOREM PermitsHold == Spec => []PermitsAccounted
<1>1. Init => PermitInv
  <2> SUFFICES ASSUME Init PROVE PermitInv
    OBVIOUS
  <2>1. Served = {}
    BY DEF Init, Served
  <2> QED
    <3>1. Cardinality(Served) = 0
      BY <2>1, FS_EmptySet
    <3>2. permits = Limit /\ Limit \in Nat
      BY Numbers DEF Init
    <3>3. permits + Cardinality(Served) = Limit
      BY <3>1, <3>2
    <3> QED
      BY <3>2, <3>3 DEF PermitInv, PermitsAccounted, Served
<1>2. PermitInv => PermitsAccounted
  BY DEF PermitInv
<1> QED
  BY <1>1, <1>2, ServeInvariance, PermitStep, PTL DEF Spec

-----------------------------------------------------------------------------
(* httprove update.                                                        *)

Files == [release : Nat, whole : BOOLEAN, exec : BOOLEAN, there : BOOLEAN]

UpdateTypeOK ==
    /\ pc \in PCs
    /\ args \in Args
    /\ cur \in Nat /\ tag \in Nat
    /\ file \in [Paths -> Files]
    /\ before \in Files
    /\ torn \in BOOLEAN

\* The release that is being installed, ready to run.
IsNew(f) == Runnable(f) /\ f.release = tag

Verified == {"write", "chmod", "replace", "unlinkBak", "copyBak", "copyingBak",
             "rename", "setExec", "sudo", "sudoing", "unlinkAlias", "symlink"}
Staged == {"replace", "unlinkBak", "copyBak", "copyingBak", "rename", "sudo", "sudoing"}
Untouched == {"resolve", "download", "write", "chmod", "replace", "unlinkBak", "copyBak",
              "copyingBak", "rename", "sudo"}
Installed == {"setExec", "unlinkAlias", "symlink"}

\* What lies beside the target is the verified release, once it has been written.
StagedInv ==
    /\ pc \in Verified => tag # Junk
    /\ pc = "write" => file["staged"].there /\ file["staged"].release = tag
    /\ pc = "chmod" => /\ file["staged"].there /\ file["staged"].whole
                       /\ file["staged"].release = tag
    /\ pc \in Staged => IsNew(file["staged"])

\* The target is the old binary until it is the new one.
TargetInv ==
    /\ pc \in Untouched => file["target"] = before
    /\ pc \in Installed => IsNew(file["target"])
    /\ pc \in {"rename", "setExec"} => file["bak"] = before
    /\ ~torn /\ pc # "sudoing" => Runnable(file["target"]) /\ file["target"].release # Junk

\* A run that goes on to download was asked to, or has found a newer release.
WantedInv ==
    /\ pc # "down" => before.release = cur
    /\ pc \in Verified \cup {"download"} =>
          /\ ~args.check /\ ~args.dryRun
          /\ args.to = NoTag /\ ~args.force => tag > cur

UpdateInv == UpdateTypeOK /\ StagedInv /\ TargetInv /\ WantedInv

-----------------------------------------------------------------------------
LEMMA UpdateStarts == UpdateInit => UpdateInv
<1> SUFFICES ASSUME NEW installed \in 1..Latest,
                    pc = "down", args = NoArgs, cur = installed, tag = NoTag,
                    file = [p \in Paths |-> IF p = "target" THEN Binary(installed, TRUE, TRUE)
                                            ELSE Absent],
                    torn = FALSE, before = Binary(installed, TRUE, TRUE)
             PROVE  UpdateInv
  BY DEF UpdateInit
<1>1. installed \in Nat \ {0} /\ Latest \in Nat
  BY UpdateAssumption
<1>2. Binary(installed, TRUE, TRUE) \in Files /\ Absent \in Files
  BY <1>1 DEF Binary, Absent, Files, Junk
<1>3. NoArgs \in Args /\ NoTag \in Nat
  BY <1>1 DEF NoArgs, Args, NoTag
<1>4. UpdateTypeOK
  BY <1>1, <1>2, <1>3 DEF UpdateTypeOK, PCs
<1>5. Runnable(file["target"]) /\ file["target"].release # Junk
  BY <1>1 DEF Paths, Binary, Runnable, Junk
<1> QED
  BY <1>4, <1>5 DEF UpdateInv, StagedInv, TargetInv, WantedInv, Verified, Staged,
                    Untouched, Installed

\* What a step leaves alone is still so; the run is over.
LEMMA RunEnds ==
  ASSUME UpdateInv, pc' = "down", UNCHANGED <<choice, before>>,
         file' \in [Paths -> Files], torn' \in BOOLEAN,
         ~torn' => Runnable(file'["target"]) /\ file'["target"].release # Junk
  PROVE  UpdateInv'
BY DEF UpdateInv, UpdateTypeOK, PCs, choice, StagedInv, TargetInv, WantedInv, Verified,
       Staged, Untouched, Installed

\* GiveUp touches nothing but the staged file.
LEMMA GivingUp ==
  ASSUME UpdateInv, GiveUp
  PROVE  /\ file' \in [Paths -> Files] /\ pc' = "down"
         /\ file'["target"] = file["target"]
<1>1. Absent \in Files
  BY DEF Absent, Files, Junk
<1> QED
  BY <1>1 DEF GiveUp, Put, Return, UpdateInv, UpdateTypeOK, Paths

LEMMA UpdateStep == UpdateInv /\ [UpdateNext]_updateVars => UpdateInv'
<1> SUFFICES ASSUME UpdateInv, [UpdateNext]_updateVars PROVE UpdateInv'
  OBVIOUS
<1> USE UpdateAssumption DEF Goto, Return, Put, choice, ghosts
<1>a. /\ UpdateTypeOK /\ StagedInv /\ TargetInv /\ WantedInv
      /\ Latest \in Nat /\ NoTag \in Nat /\ \A p \in Paths : file[p] \in Files
      /\ "target" \in Paths /\ "staged" \in Paths /\ "bak" \in Paths /\ "alias" \in Paths
  BY DEF UpdateInv, UpdateTypeOK, NoTag, Paths
<1>b. ~torn /\ pc # "sudoing" => Runnable(file["target"]) /\ file["target"].release # Junk
  BY <1>a DEF TargetInv
<1>0. CASE UNCHANGED updateVars
  BY <1>0, <1>a DEF updateVars, UpdateInv, UpdateTypeOK, StagedInv, TargetInv, WantedInv, IsNew
<1>1. CASE StartUpdate
  <2>1. UpdateTypeOK'
    BY <1>1, <1>a DEF StartUpdate, UpdateTypeOK, PCs, Files
  <2>2. StagedInv' /\ WantedInv'
    BY <1>1 DEF StartUpdate, StagedInv, WantedInv, Verified, Staged
  <2>3. TargetInv'
    BY <1>1, <1>b DEF StartUpdate, TargetInv, Untouched, Installed
  <2> QED
    BY <2>1, <2>2, <2>3 DEF UpdateInv
<1>2. CASE Resolve
  <2>1. CASE pc' = "down" /\ tag' \in Nat
    BY <1>2, <2>1, <1>a, <1>b DEF Resolve, UpdateInv, UpdateTypeOK, PCs, StagedInv,
       TargetInv, WantedInv, Verified, Staged, Untouched, Installed
  <2>2. CASE /\ pc' = "download" /\ tag' \in Nat
             /\ ~args.check /\ ~args.dryRun
             /\ args.to = NoTag /\ ~args.force => IsNewer(tag', cur)
    <3>1. pc = "resolve" /\ UNCHANGED <<args, cur, file, torn, before>>
      BY <1>2, <2>2 DEF Resolve
    <3>2. UpdateTypeOK' /\ StagedInv'
      BY <2>2, <3>1, <1>a DEF UpdateTypeOK, PCs, StagedInv, Verified, Staged
    <3>3. TargetInv'
      BY <2>2, <3>1, <1>a DEF TargetInv, Untouched, Installed
    <3>4. WantedInv'
      BY <2>2, <3>1, <1>a DEF WantedInv, Verified, IsNewer, NoTag
    <3> QED
      BY <3>2, <3>3, <3>4 DEF UpdateInv
  <2>3. \/ pc' = "down" /\ tag' \in Nat
        \/ /\ pc' = "download" /\ tag' \in Nat
           /\ ~args.check /\ ~args.dryRun
           /\ args.to = NoTag /\ ~args.force => IsNewer(tag', cur)
    <3>1. CASE pc' = "down" /\ UNCHANGED choice
      BY <3>1, <1>a DEF UpdateTypeOK
    <3>2. ASSUME NEW found \in Junk..Latest,
                 tag' = IF args.to # NoTag /\ ~args.check THEN args.to ELSE found
          PROVE  tag' \in Nat
      BY <3>2, <1>a DEF UpdateTypeOK, Args, NoTag, Junk
    <3> QED
      BY <1>2, <3>1, <3>2 DEF Resolve
  <2> QED
    BY <2>1, <2>2, <2>3
<1>3. CASE Download
  <2>1. CASE pc' = "down"
    <3>1. file' = file /\ UNCHANGED <<choice, torn, before>> /\ pc = "download"
      BY <1>3, <2>1 DEF Download
    <3> QED
      BY <2>1, <3>1, <1>a, <1>b, RunEnds DEF UpdateTypeOK
  <2>2. CASE pc' = "write"
    <3>1. PICK intact \in BOOLEAN :
             /\ tag # Junk /\ intact
             /\ file' = [file EXCEPT !["staged"] =
                           Binary(IF intact THEN tag ELSE Junk, FALSE, file["staged"].exec)]
      BY <1>3, <2>2 DEF Download, VerifySum
    <3> DEFINE f == Binary(tag, FALSE, file["staged"].exec)
    <3>2. f \in Files /\ f.there /\ f.release = tag
      BY <1>a DEF Binary, Files, UpdateTypeOK
    <3>3. /\ file' = [file EXCEPT !["staged"] = f] /\ pc = "download"
          /\ UNCHANGED <<args, cur, tag, torn, before>>
      BY <1>3, <2>2, <3>1 DEF Download
    <3>4. UpdateTypeOK' /\ WantedInv'
      BY <2>2, <3>2, <3>3, <1>a DEF UpdateTypeOK, PCs, WantedInv, Verified
    <3>5. StagedInv' /\ TargetInv'
      BY <2>2, <3>1, <3>2, <3>3, <1>a DEF UpdateTypeOK, StagedInv, Verified, Staged,
         TargetInv, Untouched, Installed
    <3> QED
      BY <3>4, <3>5 DEF UpdateInv
  <2> QED
    BY <1>3, <2>1, <2>2 DEF Download
<1>4. CASE Write \/ Chmod
  <2>1. CASE pc' = "down"
    <3>1. file' = file /\ UNCHANGED <<choice, torn, before>> /\ pc \in {"write", "chmod"}
      BY <1>4, <2>1 DEF Write, Chmod
    <3> QED
      BY <2>1, <3>1, <1>a, <1>b, RunEnds DEF UpdateTypeOK
  <2>2. CASE pc' # "down"
    <3>1. \/ /\ pc = "write" /\ pc' = "chmod"
             /\ file' = [file EXCEPT !["staged"] = [file["staged"] EXCEPT !.whole = TRUE]]
          \/ /\ pc = "chmod" /\ pc' = "replace"
             /\ file' = [file EXCEPT !["staged"] = [file["staged"] EXCEPT !.exec = TRUE]]
      BY <1>4, <2>2 DEF Write, Chmod
    <3>2. UNCHANGED <<args, cur, tag, torn, before>>
      BY <1>4 DEF Write, Chmod
    <3>0. /\ [file["staged"] EXCEPT !.whole = TRUE] \in Files
          /\ [file["staged"] EXCEPT !.exec = TRUE] \in Files
      BY <1>a DEF Files
    <3>3. file'["target"] = file["target"] /\ file' \in [Paths -> Files]
      BY <3>0, <3>1, <1>a DEF UpdateTypeOK, Paths
    <3>4. UpdateTypeOK' /\ WantedInv'
      BY <3>1, <3>2, <3>3, <1>a DEF UpdateTypeOK, PCs, WantedInv, Verified
    <3>5. StagedInv'
      BY <3>1, <3>2, <1>a DEF UpdateTypeOK, StagedInv, Verified, Staged, IsNew, Runnable, Files
    <3>6. TargetInv'
      BY <3>1, <3>2, <3>3, <1>a DEF TargetInv, Untouched, Installed
    <3> QED
      BY <3>4, <3>5, <3>6 DEF UpdateInv
  <2> QED
    BY <2>1, <2>2
<1>5. ASSUME GiveUp, UNCHANGED <<choice, before>>, torn' = torn, pc # "sudoing"
      PROVE  UpdateInv'
  BY <1>5, <1>a, <1>b, GivingUp, RunEnds DEF UpdateTypeOK
<1>6. CASE Replace \/ UnlinkBak
  <2>1. CASE GiveUp
    BY <1>5, <1>6, <2>1 DEF Replace, UnlinkBak
  <2>2. CASE ~GiveUp
    <3>0. Absent \in Files
      BY DEF Absent, Files, Junk
    <3>1. /\ \/ pc = "replace" /\ pc' \in {"unlinkBak", "sudo"}
             \/ pc = "unlinkBak" /\ pc' = "copyBak"
          /\ UNCHANGED <<args, cur, tag, torn, before>>
          /\ file' = file \/ file' = [file EXCEPT !["bak"] = Absent]
      BY <1>6, <2>2 DEF Replace, UnlinkBak
    <3>2. /\ file' \in [Paths -> Files]
          /\ file'["target"] = file["target"] /\ file'["staged"] = file["staged"]
      BY <3>0, <3>1, <1>a DEF UpdateTypeOK
    <3>3. UpdateTypeOK' /\ WantedInv'
      BY <3>1, <3>2, <1>a DEF UpdateTypeOK, PCs, WantedInv, Verified
    <3>4. StagedInv' /\ TargetInv'
      BY <3>1, <3>2, <1>a DEF StagedInv, TargetInv, Verified, Staged, Untouched, Installed,
         IsNew
    <3> QED
      BY <3>3, <3>4 DEF UpdateInv
  <2> QED
    BY <2>1, <2>2
<1>7. CASE CopyBak \/ CopyingBak
  <2>1. CASE GiveUp
    BY <1>5, <1>7, <2>1 DEF CopyBak, CopyingBak
  <2>2. CASE ~GiveUp
    <3>1. /\ \/ pc = "copyBak" /\ pc' = "copyingBak"
                /\ file' = [file EXCEPT !["bak"] = [file["target"] EXCEPT !.whole = FALSE]]
             \/ pc = "copyingBak" /\ pc' = "rename"
                /\ file' = [file EXCEPT !["bak"] = file["target"]]
          /\ UNCHANGED <<args, cur, tag, torn, before>>
      BY <1>7, <2>2 DEF CopyBak, CopyingBak
    <3>0. [file["target"] EXCEPT !.whole = FALSE] \in Files
      BY <1>a DEF Files
    <3>2. /\ file' \in [Paths -> Files]
          /\ file'["target"] = file["target"] /\ file'["staged"] = file["staged"]
      BY <3>0, <3>1, <1>a DEF UpdateTypeOK
    <3>3. UpdateTypeOK' /\ WantedInv'
      BY <3>1, <3>2, <1>a DEF UpdateTypeOK, PCs, WantedInv, Verified
    <3>4. StagedInv'
      BY <3>1, <3>2, <1>a DEF StagedInv, Verified, Staged, IsNew
    <3>5. TargetInv'
      BY <3>1, <3>2, <1>a DEF UpdateTypeOK, TargetInv, Untouched, Installed
    <3> QED
      BY <3>3, <3>4, <3>5 DEF UpdateInv
  <2> QED
    BY <2>1, <2>2
<1>8. CASE Rename
  <2>1. CASE GiveUp
    BY <1>5, <1>8, <2>1 DEF Rename
  <2>2. CASE ~GiveUp
    <3>0. Absent \in Files
      BY DEF Absent, Files, Junk
    <3>1. /\ pc = "rename" /\ pc' = "setExec"
          /\ file' = [file EXCEPT !["target"] = file["staged"], !["staged"] = Absent]
          /\ UNCHANGED <<args, cur, tag, torn, before>>
      BY <1>8, <2>2 DEF Rename
    <3>2. /\ file' \in [Paths -> Files]
          /\ file'["target"] = file["staged"] /\ file'["bak"] = file["bak"]
      BY <3>0, <3>1, <1>a DEF UpdateTypeOK, Paths
    <3>3. UpdateTypeOK' /\ WantedInv'
      BY <3>1, <3>2, <1>a DEF UpdateTypeOK, PCs, WantedInv, Verified
    <3>4. StagedInv' /\ TargetInv'
      BY <3>1, <3>2, <1>a DEF StagedInv, TargetInv, Verified, Staged, Untouched, Installed,
         IsNew
    <3> QED
      BY <3>3, <3>4 DEF UpdateInv
  <2> QED
    BY <2>1, <2>2
<1>9. CASE SetExec
  <2>1. CASE GiveUp
    BY <1>5, <1>9, <2>1 DEF SetExec
  <2>2. CASE ~GiveUp
    <3>1. /\ pc = "setExec" /\ pc' = "unlinkAlias"
          /\ file' = [file EXCEPT !["target"] = [file["target"] EXCEPT !.exec = TRUE]]
          /\ UNCHANGED <<args, cur, tag, torn, before>>
      BY <1>9, <2>2 DEF SetExec
    <3> DEFINE f == [file["target"] EXCEPT !.exec = TRUE]
    <3>0. f \in Files /\ (IsNew(file["target"]) => IsNew(f))
      BY <1>a DEF Files, IsNew, Runnable
    <3>2. file' \in [Paths -> Files] /\ file'["target"] = f /\ file'["bak"] = file["bak"]
      BY <3>0, <3>1, <1>a DEF UpdateTypeOK, Paths
    <3>5. IsNew(file["target"])'
      BY <3>0, <3>1, <3>2, <1>a DEF TargetInv, Installed, IsNew
    <3>6. IsNew(file["target"])' => (Runnable(file["target"]) /\ file["target"].release # Junk)'
      BY <3>1, <1>a DEF IsNew, StagedInv, Verified
    <3>3. UpdateTypeOK' /\ WantedInv'
      BY <3>1, <3>2, <1>a DEF UpdateTypeOK, PCs, WantedInv, Verified
    <3>4. StagedInv' /\ TargetInv'
      BY <3>1, <3>5, <3>6, <1>a DEF StagedInv, TargetInv, Verified, Staged, Untouched, Installed,
         IsNew
    <3> QED
      BY <3>3, <3>4 DEF UpdateInv
  <2> QED
    BY <2>1, <2>2
<1>10. CASE Sudo
  <2>1. CASE GiveUp
    BY <1>5, <1>10, <2>1 DEF Sudo
  <2>2. CASE ~GiveUp
    <3> DEFINE f == Binary(file["staged"].release, FALSE, FALSE)
    <3>0. f \in Files
      BY <1>a DEF Binary, Files
    <3>1. /\ pc = "sudo" /\ pc' = "sudoing"
          /\ file' = [file EXCEPT !["target"] = f]
          /\ UNCHANGED <<args, cur, tag, torn, before>>
      BY <1>10, <2>2 DEF Sudo
    <3>2. file' \in [Paths -> Files] /\ file'["staged"] = file["staged"]
      BY <3>0, <3>1, <1>a DEF UpdateTypeOK
    <3>3. UpdateTypeOK' /\ WantedInv'
      BY <3>1, <3>2, <1>a DEF UpdateTypeOK, PCs, WantedInv, Verified
    <3>4. StagedInv' /\ TargetInv'
      BY <3>1, <3>2, <1>a DEF StagedInv, TargetInv, Verified, Staged, Untouched, Installed,
         IsNew
    <3> QED
      BY <3>3, <3>4 DEF UpdateInv
  <2> QED
    BY <2>1, <2>2
<1>11. CASE Sudoing
  <2>1. CASE GiveUp /\ torn' = TRUE
    BY <1>11, <2>1, GivingUp, RunEnds DEF Sudoing
  <2>2. CASE ~(GiveUp /\ torn' = TRUE)
    <3> DEFINE f == Binary(file["staged"].release, TRUE, TRUE)
    <3>0. f \in Files /\ Absent \in Files /\ Runnable(f) /\ f.release = file["staged"].release
      BY <1>a DEF Binary, Files, Absent, Junk, Runnable
    <3>1. PICK left \in {Absent, file["staged"]} :
             file' = [file EXCEPT !["target"] = f, !["staged"] = left]
      BY <1>11, <2>2 DEF Sudoing
    <3>2. /\ pc = "sudoing" /\ pc' = "unlinkAlias"
          /\ UNCHANGED <<args, cur, tag, torn, before>>
      BY <1>11, <2>2 DEF Sudoing
    <3>3. file' \in [Paths -> Files] /\ file'["target"] = f
      BY <3>0, <3>1, <1>a DEF UpdateTypeOK, Paths
    <3>4. UpdateTypeOK' /\ WantedInv'
      BY <3>2, <3>3, <1>a DEF UpdateTypeOK, PCs, WantedInv, Verified
    <3>5. IsNew(file["target"])'
      BY <3>0, <3>2, <3>3, <1>a DEF StagedInv, Staged, IsNew
    <3>7. IsNew(file["target"])' => (Runnable(file["target"]) /\ file["target"].release # Junk)'
      BY <3>2, <1>a DEF IsNew, StagedInv, Verified
    <3>6. StagedInv' /\ TargetInv'
      BY <3>2, <3>5, <3>7, <1>a DEF StagedInv, TargetInv, Verified, Staged, Untouched, Installed,
         IsNew
    <3> QED
      BY <3>4, <3>6 DEF UpdateInv
  <2> QED
    BY <2>1, <2>2
<1>12. CASE UnlinkAlias \/ Symlink
  <2>0. Absent \in Files /\ Binary(Junk, TRUE, TRUE) \in Files
    BY DEF Absent, Binary, Files, Junk
  <2>1. /\ pc \in {"unlinkAlias", "symlink"} /\ pc' \in {"symlink", "down"}
        /\ UNCHANGED <<args, cur, tag, torn, before>>
        /\ \/ file' = file \/ file' = [file EXCEPT !["alias"] = Absent]
           \/ file' = [file EXCEPT !["alias"] = Binary(Junk, TRUE, TRUE)]
    BY <1>12 DEF UnlinkAlias, Symlink
  <2>2. file' \in [Paths -> Files] /\ file'["target"] = file["target"]
    BY <2>0, <2>1, <1>a DEF UpdateTypeOK, Paths
  <2>3. UpdateTypeOK' /\ WantedInv'
    BY <2>1, <2>2, <1>a DEF UpdateTypeOK, PCs, WantedInv, Verified
  <2>4. StagedInv' /\ TargetInv'
    BY <2>1, <2>2, <1>a, <1>b DEF StagedInv, TargetInv, Verified, Staged, Untouched, Installed,
       IsNew
  <2> QED
    BY <2>3, <2>4 DEF UpdateInv
<1>13. CASE Crash
  <2>1. /\ pc' = "down" /\ UNCHANGED <<choice, before>> /\ file' = file
        /\ torn' \in BOOLEAN
        /\ ~torn' => ~torn /\ pc # "sudoing"
    BY <1>13, <1>a DEF Crash, UpdateTypeOK
  <2>2. ~torn' => Runnable(file'["target"]) /\ file'["target"].release # Junk
    BY <2>1, <1>b
  <2>3. file' \in [Paths -> Files]
    BY <2>1, <1>a DEF UpdateTypeOK
  <2> QED
    BY <2>1, <2>2, <2>3, RunEnds
<1> QED
  BY <1>0, <1>1, <1>2, <1>3, <1>4, <1>6, <1>7, <1>8, <1>9, <1>10, <1>11, <1>12, <1>13
     DEF UpdateNext

\* What each step of the update rests on, whatever ran and died before.
THEOREM UpdateInvariance == UpdateSpec => []UpdateInv
BY UpdateStarts, UpdateStep, PTL DEF UpdateSpec

\* replace.rs, atomic_replace: the installed command can be run at every moment,
\* unless install(1) was killed on it, and once it has been replaced the backup is
\* the one that was there before.
THEOREM StaysRunnable == UpdateSpec => []TargetRunnable
<1>1. UpdateInv => TargetRunnable
  BY DEF UpdateInv, TargetInv, TargetRunnable
<1> QED
  BY <1>1, UpdateInvariance, PTL

\* "updated to <tag>", exit code 0, is said of nothing but that release.
THEOREM SuccessIsTrue == UpdateSpec => ExitTellsTruth
<1>1. UpdateInv /\ [UpdateNext]_updateVars =>
        [code' = 0 /\ pc \in {"symlink", "unlinkAlias"} => file'["target"].release = tag]_updateVars
  <2> SUFFICES ASSUME UpdateInv, UpdateNext, code' = 0, pc \in {"symlink", "unlinkAlias"}
               PROVE  file'["target"].release = tag
    OBVIOUS
  <2>1. UnlinkAlias \/ Symlink
    <3>1. ~(StartUpdate \/ Resolve \/ Download \/ Write \/ Chmod \/ Replace \/ UnlinkBak)
      BY DEF StartUpdate, Resolve, Download, Write, Chmod, Replace, UnlinkBak
    <3>2. ~(CopyBak \/ CopyingBak \/ Rename \/ SetExec \/ Sudo \/ Sudoing)
      BY DEF CopyBak, CopyingBak, Rename, SetExec, Sudo, Sudoing
    <3>3. ~Crash
      BY DEF Crash, NoExit
    <3> QED
      BY <3>1, <3>2, <3>3 DEF UpdateNext
  <2>2. file'["target"] = file["target"]
    BY <2>1 DEF UnlinkAlias, Symlink, Put, UpdateInv, UpdateTypeOK, Paths
  <2> QED
    BY <2>2 DEF UpdateInv, TargetInv, Installed, IsNew
<1> QED
  BY <1>1, UpdateInvariance, PTL DEF UpdateSpec, ExitTellsTruth

\* Without --to or --force nothing older is installed, and nothing at all by
\* --check or --dry-run.
THEOREM NothingDowngraded == UpdateSpec => NoDowngrade
<1>1. UpdateInv /\ [UpdateNext]_updateVars =>
        [file'["target"] # file["target"] =>
           /\ ~args.check /\ ~args.dryRun
           /\ args.to = NoTag /\ ~args.force => tag > before.release]_updateVars
  <2> SUFFICES ASSUME UpdateInv, UpdateNext, file'["target"] # file["target"]
               PROVE  /\ ~args.check /\ ~args.dryRun
                      /\ args.to = NoTag /\ ~args.force => tag > before.release
    OBVIOUS
  <2>1. pc \in {"rename", "setExec", "sudo", "sudoing"}
    <3> USE DEF Put
    <3>1. "target" \in Paths /\ file \in [Paths -> Files]
      BY DEF Paths, UpdateInv, UpdateTypeOK
    <3>2. ~(StartUpdate \/ Resolve \/ Crash)
      BY DEF StartUpdate, Resolve, Crash
    <3>3. ~(Download \/ Write \/ Chmod)
      BY <3>1 DEF Download, Write, Chmod
    <3>4. ~GiveUp
      BY <3>1 DEF GiveUp
    <3>5. ~(Replace \/ UnlinkBak \/ CopyBak \/ CopyingBak)
      BY <3>1, <3>4 DEF Replace, UnlinkBak, CopyBak, CopyingBak
    <3>6. ~(UnlinkAlias \/ Symlink)
      BY <3>1 DEF UnlinkAlias, Symlink
    <3>7. Rename \/ SetExec \/ Sudo \/ Sudoing
      BY <3>2, <3>3, <3>5, <3>6 DEF UpdateNext
    <3> QED
      BY <3>7 DEF Rename, SetExec, Sudo, Sudoing
  <2> QED
    BY <2>1 DEF UpdateInv, WantedInv, Verified
<1> QED
  BY <1>1, UpdateInvariance, PTL DEF UpdateSpec, NoDowngrade
=============================================================================
