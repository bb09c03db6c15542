----------------------------- MODULE EdgeClient -----------------------------
(***************************************************************************)
(* The edge client: a loop that dials the server, enrolls and reads        *)
(* requests until the connection fails, then dials again; a heartbeat      *)
(* goroutine for each connection; and a handler goroutine for each         *)
(* request.  All of them write to c.conn, the connection that is current   *)
(* when they write, under the mutex c.mu -- except the enroll message,     *)
(* which the loop writes without it.  Goroutines of an earlier connection  *)
(* live on after it and write to the new one.                              *)
(*                                                                         *)
(* Connections are numbered in the order in which they are dialled.  A     *)
(* request is answered by one message (a streaming handler repeats Answer  *)
(* and Write; its session is DeployStream).  A message that is not JSON is *)
(* skipped by the loop and changes nothing.                                *)
(***************************************************************************)
EXTENDS Naturals, FiniteSets

CONSTANTS Reqs,       \* requests of the server
          Free,       \* "nobody", for the mutex
          MaxConns    \* bound on the connections dialled

Conns == 1..MaxConns

ASSUME ConnsAssumption == MaxConns \in Nat \ {0}
ASSUME IdsAssumption == Reqs \cap Conns = {} /\ Free \notin Reqs \cup Conns

VARIABLES main,      \* where the loop of Run is
          n,         \* connections dialled so far
          cur,       \* c.conn (0: nil)
          mu,        \* who holds c.mu: a handler, a heartbeat (its number), Free
          net,       \* net[k]: connection k
          cancelled, \* connections whose context was cancelled by its defer
          stop,      \* the context given to Run is cancelled
          hb,        \* hb[k]: the heartbeat goroutine of connection k
          req,       \* req[r]: the handler of request r
          origin,    \* origin[r]: the connection r was read from (0: none)
          first,     \* history: first[k], the first message on connection k
          got        \* history: got[k], the answers that arrived over k

loop    == <<main, n, cur, cancelled>>
workers == <<hb, req, origin>>
wire    == <<first, got>>
vars    == <<loop, mu, net, stop, workers, wire>>

\* "install" is dialled but not yet c.conn; "enrolling" is inside WriteJSON;
\* "close" and "closing" are in the deferred function; "wait" stands for the
\* reconnect timer and the test at the top of the loop; "panicked" is the end of
\* the process.
MainPcs == {"wait", "dial", "install", "enroll", "enrolling", "read", "close",
            "closing", "returned", "panicked"}
\* "failing": reads fail (a close frame, a reset), a write may still block.
NetStates == {"none", "up", "failing", "closed"}
HbPcs  == {"off", "wait", "lock", "write", "stopped"}
ReqPcs == {"none", "work", "write", "sent", "lost"}

TypeOK == /\ main \in MainPcs
          /\ n \in 0..MaxConns /\ cur \in 0..MaxConns
          /\ mu \in Reqs \cup Conns \cup {Free}
          /\ net \in [Conns -> NetStates]
          /\ cancelled \in SUBSET Conns
          /\ stop \in BOOLEAN
          /\ hb \in [Conns -> HbPcs]
          /\ req \in [Reqs -> ReqPcs]
          /\ origin \in [Reqs -> 0..MaxConns]
          /\ first \in [Conns -> {"none", "enroll", "other"}]
          /\ got \in [Conns -> SUBSET Reqs]

Init == /\ main = "wait" /\ n = 0 /\ cur = 0 /\ cancelled = {}
        /\ mu = Free
        /\ net = [k \in Conns |-> "none"]
        /\ stop = FALSE
        /\ hb = [k \in Conns |-> "off"]
        /\ req = [r \in Reqs |-> "none"]
        /\ origin = [r \in Reqs |-> 0]
        /\ first = [k \in Conns |-> "none"]
        /\ got = [k \in Conns |-> {}]

Open == {k \in Conns : net[k] \in {"up", "failing"}}
\* The context of connection k, a child of Run's, is not done.
Live(k) == ~stop /\ k \notin cancelled

Goto(from, to) == main = from /\ main' = to

\* A message that was written while connection k worked.
OnWire(k, kind) ==
    first' = IF net[k] = "up" /\ first[k] = "none"
               THEN [first EXCEPT ![k] = kind] ELSE first

-----------------------------------------------------------------------------
(* Run and connectAndServe. *)

\* The top of the loop, after the timer.
Retry == /\ ~stop
         /\ Goto("wait", "dial")
         /\ UNCHANGED <<n, cur, cancelled, mu, net, stop, workers, wire>>

Return == /\ stop
          /\ Goto("wait", "returned")
          /\ UNCHANGED <<n, cur, cancelled, mu, net, stop, workers, wire>>

DialOk == /\ n < MaxConns
          /\ Goto("dial", "install")
          /\ n' = n + 1
          /\ net' = [net EXCEPT ![n + 1] = "up"]
          /\ UNCHANGED <<cur, cancelled, mu, stop, workers, wire>>

DialFails == /\ Goto("dial", "wait")
             /\ UNCHANGED <<n, cur, cancelled, mu, net, stop, workers, wire>>

\* Mutant: c.conn is set by the first connection only.
InstallOnce == /\ mu = Free
               /\ Goto("install", "enroll")
               /\ cur' = IF cur = 0 THEN n ELSE cur
               /\ UNCHANGED <<n, cancelled, mu, net, stop, workers, wire>>

\* c.conn and c.ctx, under the mutex.
Install == /\ mu = Free
           /\ Goto("install", "enroll")
           /\ cur' = n
           /\ UNCHANGED <<n, cancelled, mu, net, stop, workers, wire>>

\* conn.WriteJSON(enrollMsg): without the mutex.
StartEnroll == /\ Goto("enroll", "enrolling")
               /\ UNCHANGED <<n, cur, cancelled, mu, net, stop, workers, wire>>

\* The write returns nil; `go c.heartbeat(connCtx)`.
Enrolled == /\ Goto("enrolling", "read")
            /\ OnWire(n, "enroll")
            /\ hb' = [hb EXCEPT ![n] = "wait"]
            /\ UNCHANGED <<n, cur, cancelled, mu, net, stop, req, origin, got>>

EnrollFails == /\ Goto("enrolling", "close")
               /\ net[n] = "failing"
               /\ UNCHANGED <<n, cur, cancelled, mu, net, stop, workers, wire>>

\* ReadMessage returns a request; `go c.handleRequest(connCtx, msg)`.
Receive(r) == /\ main = "read" /\ net[n] = "up" /\ req[r] = "none"
              /\ req' = [req EXCEPT ![r] = "work"]
              /\ origin' = [origin EXCEPT ![r] = n]
              /\ UNCHANGED <<loop, mu, net, stop, hb, wire>>

\* ReadMessage returns an error.  Nothing else ends the read: it does not
\* look at the context.
ReadFails == /\ Goto("read", "close")
             /\ net[n] = "failing"
             /\ UNCHANGED <<n, cur, cancelled, mu, net, stop, workers, wire>>

\* The deferred c.cancel()...
CancelContext == /\ Goto("close", "closing")
                 /\ cancelled' = cancelled \cup {n}
                 /\ UNCHANGED <<n, cur, mu, net, stop, workers, wire>>

\* Mutant: the deferred function leaves the connection open.
CloseCancelsOnly == /\ Goto("closing", "wait")
                    /\ UNCHANGED <<n, cur, cancelled, mu, net, stop, workers, wire>>

\* ... and conn.Close().
Close == /\ Goto("closing", "wait")
         /\ net' = [net EXCEPT ![n] = "closed"]
         /\ UNCHANGED <<n, cur, cancelled, mu, stop, workers, wire>>

-----------------------------------------------------------------------------
(* heartbeat of connection k. *)

\* select: the ticker.  A tick may win against a context that is done.
Tick(k) == /\ hb[k] = "wait"
           /\ hb' = [hb EXCEPT ![k] = "lock"]
           /\ UNCHANGED <<loop, mu, net, stop, req, origin, wire>>

\* Mutant: the goroutine watches whatever context is current.
DoneOfCurrent(k) == /\ hb[k] = "wait" /\ ~Live(cur)
                    /\ hb' = [hb EXCEPT ![k] = "stopped"]
                    /\ UNCHANGED <<loop, mu, net, stop, req, origin, wire>>

\* Mutant: the goroutine is given the context of the previous connection.
DoneOfPrevious(k) == /\ hb[k] = "wait" /\ ~Live(k - 1)
                     /\ hb' = [hb EXCEPT ![k] = "stopped"]
                     /\ UNCHANGED <<loop, mu, net, stop, req, origin, wire>>

\* select: the context of its connection.
Done(k) == /\ hb[k] = "wait" /\ ~Live(k)
           /\ hb' = [hb EXCEPT ![k] = "stopped"]
           /\ UNCHANGED <<loop, mu, net, stop, req, origin, wire>>

LockBeat(k) == /\ hb[k] = "lock" /\ mu = Free
               /\ mu' = k
               /\ hb' = [hb EXCEPT ![k] = "write"]
               /\ UNCHANGED <<loop, net, stop, req, origin, wire>>

\* c.conn.WriteJSON returns nil, to c.conn and not to connection k.
Beat(k) == /\ hb[k] = "write" /\ net[cur] # "closed"
           /\ mu' = Free
           /\ hb' = [hb EXCEPT ![k] = "wait"]
           /\ OnWire(cur, "other")
           /\ UNCHANGED <<loop, net, stop, req, origin, got>>

\* The write fails: unlock and return, leaving the connection to the reader.
BeatFails(k) == /\ hb[k] = "write" /\ net[cur] # "up"
                /\ mu' = Free
                /\ hb' = [hb EXCEPT ![k] = "stopped"]
                /\ UNCHANGED <<loop, net, stop, req, origin, wire>>

-----------------------------------------------------------------------------
(* handleRequest of request r. *)

\* The work is done; sendResponse gets the mutex.
Answer(r) == /\ req[r] = "work" /\ mu = Free
             /\ mu' = r
             /\ req' = [req EXCEPT ![r] = "write"]
             /\ UNCHANGED <<loop, net, stop, hb, origin, wire>>

\* c.conn.WriteJSON returns, its error ignored; the deferred unlock.  A message
\* that cannot be encoded goes out as an empty one (FramesAreResponses in
\* EdgeDispatch).
Write(r) == /\ req[r] = "write"
            /\ mu' = Free
            /\ req' = [req EXCEPT ![r] = IF net[cur] = "up" THEN "sent" ELSE "lost"]
            /\ got' = IF net[cur] = "up" THEN [got EXCEPT ![cur] = @ \cup {r}] ELSE got
            /\ OnWire(cur, "other")
            /\ UNCHANGED <<loop, net, stop, hb, origin>>

-----------------------------------------------------------------------------
(* The library and the environment. *)

\* The websocket library panics when it detects two writers of a connection:
\* the enroll message and a holder of the mutex.  The process and all its
\* goroutines end, and with them the connection.
Panic == /\ mu # Free
         /\ Goto("enrolling", "panicked")
         /\ mu' = Free
         /\ net' = [net EXCEPT ![n] = "closed"]
         /\ hb' = [k \in Conns |-> IF hb[k] = "off" THEN "off" ELSE "stopped"]
         /\ req' = [r \in Reqs |-> IF req[r] \in {"work", "write"} THEN "lost" ELSE req[r]]
         /\ UNCHANGED <<n, cur, cancelled, stop, origin, wire>>

\* The connection stops working for the reader.
Fail(k) == /\ net[k] = "up"
           /\ net' = [net EXCEPT ![k] = "failing"]
           /\ UNCHANGED <<loop, mu, stop, workers, wire>>

\* SIGINT or SIGTERM.
Stop == /\ ~stop
        /\ stop' = TRUE
        /\ UNCHANGED <<loop, mu, net, workers, wire>>

Loop == \/ Retry \/ Return \/ DialFails
        \/ StartEnroll \/ Enrolled \/ EnrollFails \/ ReadFails
        \/ CancelContext \/ Close
Heartbeat(k) == Tick(k) \/ Done(k) \/ LockBeat(k) \/ Beat(k) \/ BeatFails(k)
Handle(r) == Receive(r) \/ Answer(r) \/ Write(r)

Next == \/ Loop \/ DialOk \/ Install \/ Panic \/ Stop
        \/ \E k \in Conns : Heartbeat(k) \/ Fail(k)
        \/ \E r \in Reqs : Handle(r)

Spec == Init /\ [][Next]_vars

-----------------------------------------------------------------------------
(***************************************************************************)
(* Fairness.  A goroutine that can step does; a waiter for c.mu is not     *)
(* overtaken for ever (the starvation mode of sync.Mutex); select picks    *)
(* among ready cases at random, so a done context is seen in the end; the  *)
(* server can be dialled again and again.                                  *)
(***************************************************************************)
LoopFairness == WF_vars(Loop) /\ SF_vars(DialOk) /\ SF_vars(Install)
WorkerFairness ==
    /\ \A k \in Conns : WF_vars(Tick(k)) /\ SF_vars(Done(k)) /\ SF_vars(LockBeat(k))
    /\ \A r \in Reqs : SF_vars(Answer(r))

\* Every write returns: the server reads, or the connection breaks.
Writes == /\ \A k \in Conns : WF_vars(Beat(k) \/ BeatFails(k))
          /\ \A r \in Reqs : WF_vars(Write(r))
\* Only writes to a connection that the agent has closed must return.
WritesToClosed ==
    /\ \A k \in Conns : WF_vars(BeatFails(k) /\ net[cur] = "closed")
    /\ \A r \in Reqs : WF_vars(Write(r) /\ net[cur] = "closed")

FairSpec == Spec /\ LoopFairness /\ WorkerFairness /\ WritesToClosed

-----------------------------------------------------------------------------
(***************************************************************************)
(* Properties                                                              *)
(***************************************************************************)
Connected == {"install", "enroll", "enrolling", "read", "close", "closing"}
NotYetServing == {"install", "enroll", "enrolling"}

\* c.conn is the newest connection, except between its dial and Install.
CurIsNewest == cur = IF main = "install" THEN n - 1 ELSE n

\* The writers are the holders of the mutex (client.go:114-119, 530-531).
WriterHoldsMutex == /\ \A k \in Conns : hb[k] = "write" <=> mu = k
                    /\ \A r \in Reqs : req[r] = "write" <=> mu = r

\* Which connections are open, where requests and heartbeats come from.
Shape == /\ \A k \in Conns : net[k] = "none" <=> k > n
         /\ \A k \in Open : k = n /\ main \in Connected
         /\ main \in Connected => n \in Open
         /\ main \in {"close", "closing"} => net[n] = "failing"
         /\ \A k \in cancelled : net[k] = "closed" \/ (k = n /\ main = "closing")
         /\ \A k \in Conns : hb[k] # "off" => k <= n
         /\ \A r \in Reqs : req[r] # "none" => origin[r] \in 1..n
         /\ main \in NotYetServing =>
              hb[n] = "off" /\ \A r \in Reqs : req[r] # "none" => origin[r] # n

\* An answer is lost only when the connection its request came over has
\* failed: a handler never writes to a stale connection while its own works
\* (c.conn is read at the time of the write: client.go:529-533 against 67-73
\* and 75-78).
AnswerReachesServer ==
    \A r \in Reqs : /\ req[r] = "lost" => net[origin[r]] # "up"
                    /\ req[r] = "sent" => \E k \in origin[r]..n : r \in got[k]

\* What the loop, the heartbeats and the handlers keep together: the inductive
\* invariant of the proofs.
EdgeInv == /\ TypeOK /\ CurIsNewest /\ WriterHoldsMutex /\ Shape
           /\ AnswerReachesServer

\* The websocket library allows one writer at a time: from the enrollment on
\* there is one, whichever connection the writers were started for.
Writers == {k \in Conns : hb[k] = "write"} \cup {r \in Reqs : req[r] = "write"}
OneWriter == \A a, b \in Writers : a = b

\* The agent never has two open connections to the server: the old one is
\* closed before the next is dialled (client.go:75-78, 48-57).
OneConnection == \A j, k \in Open : j = k

\* While a connection works and nobody stops the agent, its heartbeat is not
\* gone: it ends with its own connection, never with an earlier one
\* (client.go:71, 87, 111-123).
HeartbeatServes ==
    \A k \in Conns : hb[k] = "stopped" /\ net[k] = "up" => stop

\* When writes return, the heartbeat of a connection that was given up stops,
\* so that heartbeats do not pile up over reconnections (client.go:76, 111-112),
\* and every handler gets the mutex and ends, also without its connection.
WorkersEnd ==
    Writes => /\ \A k \in Conns :
                    hb[k] # "off" /\ k \in cancelled ~> hb[k] = "stopped"
              /\ \A r \in Reqs :
                    req[r] = "work" ~> req[r] \in {"sent", "lost"}

\* A connection that failed is replaced, even if a writer was blocked on it
\* with the mutex in hand: closing it frees the writer, and so the mutex that
\* the next connection needs (client.go:67, 75-78).
Reconnects ==
    \A k \in Conns :
        k < MaxConns /\ net[k] = "failing" ~> cur > k \/ stop \/ main = "panicked"

\* Not kept: "EnrollMessage is the first message sent by the agent after
\* connecting" (protocol.go:24).  A goroutine of the previous connection may
\* write between Install and Enrolled.
EnrollFirst == \A k \in Conns : first[k] \in {"none", "enroll"}

\* Not kept: "The provided context controls the client's lifecycle"
\* (client.go:39).  Nothing but the connection ends the read.
StopEndsRun == stop ~> main \in {"returned", "panicked"}
=============================================================================
