--------------------------------- MODULE Serve ---------------------------------
(***************************************************************************)
(* httprove serve (src/src/serve.rs): a server that prints, keeps and      *)
(* answers the requests it gets.  One accept loop with a limit on the      *)
(* connections, a task per connection; the tasks share the request counter *)
(* (an atomic) and the store of recent requests (behind a mutex).          *)
(*                                                                         *)
(* A connection handles one request at a time, as HTTP/1.1 does; that two  *)
(* streams of an HTTP/2 connection overlap is no different from two        *)
(* connections that do.                                                    *)
(***************************************************************************)
EXTENDS Integers, FiniteSets, SequencesExt

CONSTANTS Clients,      \* each with at most one connection at a time
          Limit,        \* MAX_CONNECTIONS
          Keep,         \* --keep
          MaxBody,      \* --max-body
          MaxRequests   \* bound: requests that get a number

ASSUME ServeAssumption == /\ IsFiniteSet(Clients)
                          /\ {Limit, Keep, MaxBody, MaxRequests} \subseteq Nat

VARIABLES
    loop,     \* "starting", "accepting", "backoff", or "stopped"
    exitCode, \* of the process, once stopped
    ctrlC,    \* Ctrl-C was pressed
    permits,  \* free permits of conn_limit
    conn,     \* state of each client's connection
    body,     \* the request being handled: bytes sent, bytes taken, truncated
    seq,      \* the counter: the next request's number
    number,   \* the number of the request being handled
    store,    \* the ring of kept requests, by number
    pushes,   \* ghost: every number stored, in order
    answered  \* ghost: the numbers whose response was sent

vars == <<loop, exitCode, ctrlC, permits, conn, body, seq, number, store,
          pushes, answered>>

NoBody == [sent |-> 0, taken |-> 0, truncated |-> FALSE]

Init == /\ loop = "starting" /\ exitCode = 0 /\ ctrlC = FALSE
        /\ permits = Limit
        /\ conn = [c \in Clients |-> "closed"]
        /\ body = [c \in Clients |-> NoBody]
        /\ seq = 1 /\ number = [c \in Clients |-> 0]
        /\ store = <<>> /\ pushes = <<>> /\ answered = {}

Running == loop # "stopped"

-----------------------------------------------------------------------------
(* run: the accept loop.                                                   *)

\* The options are parsed, which ends the program with 0 when only help was asked
\* for and with 2 on an error; then they are checked and the address is bound,
\* or it ends with 1.
Start == /\ loop = "starting"
         /\ \/ loop' = "accepting" /\ exitCode' = 0
            \/ loop' = "stopped" /\ exitCode' \in {0, 1, 2}
         /\ UNCHANGED <<ctrlC, permits, conn, body, seq, number, store, pushes,
                        answered>>

\* The kernel queues a client's connection.
Connect(c) == /\ loop \in {"accepting", "backoff"} /\ conn[c] = "closed"
              /\ conn' = [conn EXCEPT ![c] = "backlog"]
              /\ UNCHANGED <<loop, exitCode, ctrlC, permits, body, seq, number,
                             store, pushes, answered>>

\* A task with a permit; without a permit the stream is dropped.
Accept(c) == /\ loop = "accepting" /\ conn[c] = "backlog"
             /\ IF permits > 0
                THEN permits' = permits - 1 /\ conn' = [conn EXCEPT ![c] = "handshake"]
                ELSE conn' = [conn EXCEPT ![c] = "closed"] /\ UNCHANGED permits
             /\ UNCHANGED <<loop, exitCode, ctrlC, body, seq, number, store,
                            pushes, answered>>

\* Faulty: the signal is waited for anew after each pass, so one that comes
\* during the backoff is missed.
BackoffOver_NewSignal ==
    /\ loop = "backoff" /\ loop' = "accepting" /\ ctrlC' = FALSE
    /\ UNCHANGED <<exitCode, permits, conn, body, seq, number, store, pushes,
                   answered>>

AcceptError == /\ loop = "accepting" /\ loop' = "backoff"
               /\ UNCHANGED <<exitCode, ctrlC, permits, conn, body, seq, number,
                              store, pushes, answered>>
BackoffOver == /\ loop = "backoff" /\ loop' = "accepting"
               /\ UNCHANGED <<exitCode, ctrlC, permits, conn, body, seq, number,
                              store, pushes, answered>>

PressCtrlC == /\ loop \in {"accepting", "backoff"} /\ ~ctrlC
              /\ ctrlC' = TRUE
              /\ UNCHANGED <<loop, exitCode, permits, conn, body, seq, number,
                             store, pushes, answered>>

\* The pinned ctrl_c arm; the runtime and the tasks end with it.
Stop == /\ loop = "accepting" /\ ctrlC
        /\ loop' = "stopped" /\ exitCode' = 0
        /\ UNCHANGED <<ctrlC, permits, conn, body, seq, number, store, pushes,
                       answered>>

-----------------------------------------------------------------------------
(* One connection.                                                         *)

\* The TLS handshake, if there is one; its failure closes the connection.
Handshake(c) == /\ Running /\ conn[c] = "handshake"
                /\ conn' = [conn EXCEPT ![c] = "idle"]
                /\ UNCHANGED <<loop, exitCode, ctrlC, permits, body, seq, number,
                               store, pushes, answered>>

\* Faulty: the permit of a task that ends is not given back.
Close_KeepsPermit(c) ==
    /\ Running /\ conn[c] \in {"handshake", "idle", "delay"}
    /\ conn' = [conn EXCEPT ![c] = "closed"]
    /\ body' = [body EXCEPT ![c] = NoBody]
    /\ number' = [number EXCEPT ![c] = 0]
    /\ UNCHANGED <<loop, exitCode, ctrlC, permits, seq, store, pushes, answered>>

\* The client leaves, or the handshake fails: the task ends, the handler with
\* it, and the permit is free again.
Close(c) == /\ Running /\ conn[c] \in {"handshake", "idle", "delay"}
            /\ conn' = [conn EXCEPT ![c] = "closed"]
            /\ body' = [body EXCEPT ![c] = NoBody]
            /\ number' = [number EXCEPT ![c] = 0]
            /\ permits' = permits + 1
            /\ UNCHANGED <<loop, exitCode, ctrlC, seq, store, pushes, answered>>

\* A request with a body of n bytes.  (A meta path reads the store under its
\* lock and changes nothing.)
Request(c, n) == /\ Running /\ conn[c] = "idle"
                 /\ conn' = [conn EXCEPT ![c] = "body"]
                 /\ body' = [body EXCEPT ![c] = [NoBody EXCEPT !.sent = n]]
                 /\ UNCHANGED <<loop, exitCode, ctrlC, permits, seq, number, store,
                                pushes, answered>>

\* A chunk of n bytes: only what fits in MaxBody, and then it is truncated.
TakeChunk(b, n) ==
    IF b.taken + n > MaxBody
    THEN [b EXCEPT !.taken = MaxBody, !.truncated = TRUE]
    ELSE [b EXCEPT !.taken = @ + n]

\* collect_body: the next frame of the body.
Frame(c) == /\ Running /\ conn[c] = "body" /\ ~body[c].truncated
            /\ \E n \in 1..(body[c].sent - body[c].taken) :
                  body' = [body EXCEPT ![c] = TakeChunk(@, n)]
            /\ UNCHANGED <<loop, exitCode, ctrlC, permits, conn, seq, number,
                           store, pushes, answered>>

\* The body is over, cut off at the limit, or lost with the connection (what was
\* received counts).  The request gets its number and is printed.
Number(c) == /\ Running /\ conn[c] = "body" /\ seq <= MaxRequests
             /\ conn' = [conn EXCEPT ![c] = "numbered"]
             /\ number' = [number EXCEPT ![c] = seq]
             /\ seq' = seq + 1
             /\ UNCHANGED <<loop, exitCode, ctrlC, permits, body, store, pushes,
                            answered>>

\* Faulty: the ring gives one up too many once it is full.
Ring_DropsEarly(s) == IF Len(s) > Keep THEN SubSeq(s, Len(s) - Keep + 2, Len(s)) ELSE s

\* pop_front while the store is too long.
Ring(s) == IF Len(s) > Keep THEN SubSeq(s, Len(s) - Keep + 1, Len(s)) ELSE s

\* The request is kept, under the lock.
Store(c) == /\ Running /\ conn[c] = "numbered"
            /\ conn' = [conn EXCEPT ![c] = "delay"]
            /\ store' = Ring(Append(store, number[c]))
            /\ pushes' = Append(pushes, number[c])
            /\ UNCHANGED <<loop, exitCode, ctrlC, permits, body, seq, number,
                           answered>>

\* After --delay the response is built and sent.
Respond(c) == /\ Running /\ conn[c] = "delay"
              /\ conn' = [conn EXCEPT ![c] = "idle"]
              /\ answered' = answered \cup {number[c]}
              /\ body' = [body EXCEPT ![c] = NoBody]
              /\ number' = [number EXCEPT ![c] = 0]
              /\ UNCHANGED <<loop, exitCode, ctrlC, permits, seq, store, pushes>>

Task(c) == \/ Handshake(c) \/ Close(c) \/ Frame(c) \/ Number(c) \/ Store(c)
           \/ Respond(c)
           \/ \E n \in 0..(MaxBody + 1) : Request(c, n)

Next == \/ Start \/ AcceptError \/ BackoffOver \/ PressCtrlC \/ Stop
        \/ \E c \in Clients : Connect(c) \/ Accept(c) \/ Task(c)

\* The main task runs on; its select! is unbiased, so the ctrl_c arm is taken
\* although connections keep coming.
Fairness == WF_vars(Start) /\ WF_vars(BackoffOver) /\ SF_vars(Stop)
Spec == Init /\ [][Next]_vars /\ Fairness

-----------------------------------------------------------------------------
(* Properties.                                                             *)

\* serve.rs:69, "GET /__requests/<seq> returns a single captured request": a
\* request that was answered can be looked up by its number until Keep others
\* were kept after it, whatever order the tasks stored them in; no number is
\* kept twice, and never more than Keep.  --max-body: of its body never more bytes
\* than the limit are held, and it is marked as truncated only if some were not.
AnsweredIsKept ==
    /\ \A c \in Clients : /\ body[c].taken <= MaxBody
                          /\ body[c].truncated => /\ body[c].taken = MaxBody
                                                  /\ body[c].sent > MaxBody
    /\ Len(store) <= Keep /\ IsInjective(store)
    /\ \A n \in answered :
          \/ n \in ToSet(store)
          \/ \E i \in 1..Len(pushes) : pushes[i] = n /\ Len(pushes) - i >= Keep

\* serve.rs:48 and 279, at most MAX_CONNECTIONS tasks: each has its permit, and none
\* is lost or given back twice, however a connection goes away.
PermitsAccounted ==
    permits + Cardinality({c \in Clients : conn[c] \notin {"closed", "backlog"}})
        = Limit

\* "Ctrl-C to stop" (serve.rs:277), also one that comes during the backoff.
CtrlCStops == ctrlC ~> loop = "stopped"
=============================================================================
