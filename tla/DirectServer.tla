---------------------------- MODULE DirectServer ----------------------------
(***************************************************************************)
(* The process of direct mode: main, the goroutine that runs the server,   *)
(* the signal, the requests under way and the WebSocket streams of one     *)
(* container.  The supervisor starts the agent again when it has ended.    *)
(*                                                                         *)
(* s.httpSrv is written by Run and read by Shutdown without a lock.  The   *)
(* read may still see nil until Serve has taken the server's mutex, which  *)
(* makes the write visible.                                                *)
(***************************************************************************)
EXTENDS TLSCerts

CONSTANTS Requests,   \* plain requests, and deploys that go on after their answer
          Viewers     \* WebSocket viewers of stats or logs

VARIABLES tls,       \* config: DirectTLS
          main,      \* runDirect
          stopping,  \* the context of the process is cancelled
          httpSrv,   \* s.httpSrv is set
          served,    \* history: the pairs that were presented to clients
          ended,     \* history: how the last process ended
          request,   \* the requests to this process
          kind, handler, reader, conn,   \* of each viewer
          running    \* the container runs

process == <<certVars, tls, main, stopping, httpSrv, served, ended>>
streams == <<kind, handler, reader, conn>>
vars    == <<process, request, streams, running>>

\* "active" until it is answered, or "late" if it arrived after Shutdown had
\* found no server; a deploy goes on in the background when it was answered.
\* The end of the process makes them "cut", "missed" and "interrupted".
RequestStates == {"none", "active", "late", "answered", "deploying", "deployed",
                  "cut", "missed", "interrupted"}
Handlers == {"none", "inspect", "first", "loop", "sample", "write",
             "logs", "follow", "send", "last", "ended"}

\* How Shutdown returned: it found no server; nothing was active; 5 seconds.
Returns == {"early", "graceful", "timeout"}

TypeOK == /\ CertsTypeOK
          /\ tls \in BOOLEAN
          /\ main \in {"down", "select", "shutdown", "waiting"} \cup Returns
          /\ stopping \in BOOLEAN /\ httpSrv \in BOOLEAN
          /\ served \subseteq Pairs
          /\ ended \in {"none", "fatal", "crash"} \cup Returns
          /\ request \in [Requests -> RequestStates]
          /\ kind \in [Viewers -> {"stats", "logs"}]
          /\ handler \in [Viewers -> Handlers]
          /\ reader \in [Viewers -> {"none", "reading", "ended"}]
          /\ conn \in [Viewers -> {"none", "open", "left", "closed"}]
          /\ running \in BOOLEAN

Init == /\ CertsInit
        /\ tls \in BOOLEAN
        /\ main = "down" /\ stopping = FALSE /\ httpSrv = FALSE
        /\ served = {} /\ ended = "none"
        /\ request = [r \in Requests |-> "none"]
        /\ kind \in [Viewers -> {"stats", "logs"}]
        /\ handler = [v \in Viewers |-> "none"]
        /\ reader = [v \in Viewers |-> "none"]
        /\ conn = [v \in Viewers |-> "none"]
        /\ running = TRUE

-----------------------------------------------------------------------------
(* main and runDirect. *)

Boot == /\ main = "down" /\ starts < MaxStarts
        /\ starts' = starts + 1
        /\ main' = "select"
        /\ runPc' = IF tls THEN "stat" ELSE "listen"
        /\ stopping' = FALSE /\ httpSrv' = FALSE /\ cert' = Absent
        /\ request' = [r \in Requests |-> "none"]
        /\ ended' = "none"
        /\ UNCHANGED <<certFile, keyFile, tls, served, streams, running>>

\* The process ends with every goroutine in it.
End(how) == /\ main' = "down" /\ runPc' = "off"
            /\ ended' = how
            /\ request' = [r \in Requests |->
                             CASE request[r] = "active"    -> "cut"
                               [] request[r] = "late"      -> "missed"
                               [] request[r] = "deploying" -> "interrupted"
                               [] OTHER                    -> request[r]]
            /\ handler' = [v \in Viewers |-> "none"]
            /\ reader' = [v \in Viewers |-> "none"]
            /\ conn' = [v \in Viewers |-> "none"]
            /\ UNCHANGED <<starts, certFile, keyFile, cert, tls, stopping, httpSrv,
                           served, kind, running>>

Crash == main # "down" /\ End("crash")

\* SIGINT or SIGTERM.
Signal == /\ main # "down" /\ ~stopping
          /\ stopping' = TRUE
          /\ UNCHANGED <<certVars, tls, main, httpSrv, served, ended, request,
                         streams, running>>

MainGoto(p, q) == /\ main = p /\ main' = q
                  /\ UNCHANGED <<certVars, tls, stopping, httpSrv, served, ended,
                                 request, streams, running>>

\* select: the context, or Run's error.
SeeStop  == stopping /\ MainGoto("select", "shutdown")
SeeError == main = "select" /\ runPc = "failed" /\ End("fatal")

\* Shutdown: without a server it returns nil, else the listener closes.
Shutdown == \/ (~httpSrv \/ runPc = "accept") /\ MainGoto("shutdown", "early")
            \/ httpSrv /\ MainGoto("shutdown", "waiting")

Active == {r \in Requests : request[r] = "active"}

\* Mutant: the 5 seconds are forgotten.
WaitForRequests == Active = {} /\ MainGoto("waiting", "graceful")

\* Mutant: Close for Shutdown.
CloseServer == MainGoto("waiting", "graceful")

\* ... and it returns when no request is active, or after 5 seconds; hijacked
\* connections do not count.
ShutdownReturns == \/ Active = {} /\ MainGoto("waiting", "graceful")
                   \/ Active # {} /\ MainGoto("waiting", "timeout")

\* The deferred calls of runDirect and main; Run and the requests go on
\* meanwhile.
Exit == \E how \in Returns : main = how /\ End(how)

Main == SeeStop \/ SeeError \/ Shutdown \/ ShutdownReturns \/ Exit

-----------------------------------------------------------------------------
(* Server.Run. *)

others == <<tls, main, stopping, ended, request, streams, running>>

Certs == EnsureCerts /\ UNCHANGED <<others, httpSrv, served>>

Listen == /\ \/ RunGoto("listen", "publish") /\ UNCHANGED <<starts, certFile, keyFile, cert>>
             \/ FailAt("listen")
          /\ UNCHANGED <<others, httpSrv, served>>

Publish == /\ RunGoto("publish", "accept")
           /\ httpSrv' = TRUE
           /\ UNCHANGED <<starts, certFile, keyFile, cert, others, served>>

\* The server's Shutdown was called.
Closed == main \in {"waiting", "graceful", "timeout"}

\* Serve, which returns at once if the server was closed before.
Serve == /\ \/ /\ ~Closed /\ RunGoto("accept", "serve")
               /\ served' = IF tls THEN served \cup {cert} ELSE served
            \/ Closed /\ RunGoto("accept", "failed") /\ UNCHANGED served
         /\ UNCHANGED <<starts, certFile, keyFile, cert, others, httpSrv>>

Run == Certs \/ Listen \/ Publish \/ Serve

-----------------------------------------------------------------------------
(* Requests. *)

Serving == runPc = "serve" /\ ~Closed

Arrive(r) == /\ Serving /\ request[r] = "none"
             /\ request' = [request EXCEPT ![r] = IF main = "early" THEN "late" ELSE "active"]
             /\ UNCHANGED <<process, streams, running>>

Answer(r) == /\ request[r] \in {"active", "late"}
             /\ \E s \in {"answered", "deploying"} : request' = [request EXCEPT ![r] = s]
             /\ UNCHANGED <<process, streams, running>>

\* The goroutine of a deploy, which Shutdown does not know.
Deployed(r) == /\ request[r] = "deploying"
               /\ request' = [request EXCEPT ![r] = "deployed"]
               /\ UNCHANGED <<process, streams, running>>

-----------------------------------------------------------------------------
(* The streams. *)

Same == UNCHANGED <<process, request, running>>

At(v, h)   == handler[v] = h
Goes(v, h) == handler' = [handler EXCEPT ![v] = h]

\* The deferred calls of a handler that returns close the connection.
Return(v) == Goes(v, "ended") /\ conn' = [conn EXCEPT ![v] = "closed"]

\* The upgrade.
Open(v) == /\ Serving /\ At(v, "none")
           /\ Goes(v, IF kind[v] = "stats" THEN "inspect" ELSE "logs")
           /\ conn' = [conn EXCEPT ![v] = "open"]
           /\ UNCHANGED <<kind, reader>> /\ Same

\* A container that does not run, or an error, ends the stream before it has
\* a reader.
Inspect(v) == /\ At(v, "inspect")
              /\ \/ /\ running /\ Goes(v, "first")
                    /\ reader' = [reader EXCEPT ![v] = "reading"]
                    /\ UNCHANGED conn
                 \/ Return(v) /\ UNCHANGED reader
              /\ UNCHANGED kind /\ Same

\* GetContainerStats: an error ends the stream, and so does the context, which
\* the reader cancels as it ends.
Sample(v) == /\ handler[v] \in {"first", "sample"}
             /\ \/ reader[v] = "reading" /\ Goes(v, "write") /\ UNCHANGED conn
                \/ Return(v)
             /\ UNCHANGED <<kind, reader>> /\ Same

\* WriteJSON, an error of which ends the stream.  It may succeed although the
\* viewer has left, and it may block while one is there that does not read.
WriteStats(v) == /\ At(v, "write")
                 /\ \/ Goes(v, "loop") /\ UNCHANGED conn
                    \/ Return(v)
                 /\ UNCHANGED <<kind, reader>> /\ Same

\* select: the ticker, or the context.
Tick(v) == /\ At(v, "loop")
           /\ \/ Goes(v, "sample") /\ UNCHANGED conn
              \/ reader[v] = "ended" /\ Return(v)
           /\ UNCHANGED <<kind, reader>> /\ Same

\* Mutant: the reader does not see a viewer that leaves.
ReadToEnd(v) == /\ reader[v] = "reading" /\ conn[v] = "closed"
                /\ reader' = [reader EXCEPT ![v] = "ended"]
                /\ UNCHANGED <<kind, handler, conn>> /\ Same

\* ReadMessage fails when the viewer has left or the handler has closed.
ReadFails(v) == /\ reader[v] = "reading" /\ conn[v] \in {"left", "closed"}
                /\ reader' = [reader EXCEPT ![v] = "ended"]
                /\ UNCHANGED <<kind, handler, conn>> /\ Same

OpenLogs(v) == /\ At(v, "logs")
               /\ \/ Goes(v, "follow") /\ UNCHANGED conn
                  \/ Return(v)
               /\ UNCHANGED <<kind, reader>> /\ Same

\* Logs are followed to their end, with or without a last chunk.
ReadLogs(v) == /\ At(v, "follow")
               /\ \/ Goes(v, IF running THEN "send" ELSE "last") /\ UNCHANGED conn
                  \/ ~running /\ Return(v)
               /\ UNCHANGED <<kind, reader>> /\ Same

\* WriteMessage, which may block as WriteStats does; what it returns is not
\* looked at.
WriteLogs(v) == /\ \/ At(v, "send") /\ Goes(v, "follow") /\ UNCHANGED conn
                   \/ At(v, "last") /\ Return(v)
                /\ UNCHANGED <<kind, reader>> /\ Same

Leave(v) == /\ conn[v] = "open"
            /\ conn' = [conn EXCEPT ![v] = "left"]
            /\ UNCHANGED <<kind, handler, reader>> /\ Same

ContainerStops == /\ running
                  /\ running' = FALSE
                  /\ UNCHANGED <<process, request, streams>>

Stats(v)  == Inspect(v) \/ Sample(v) \/ Tick(v)
Logs(v)   == OpenLogs(v) \/ ReadLogs(v)
Write(v)  == WriteStats(v) \/ WriteLogs(v)
Stream(v) == Stats(v) \/ Logs(v) \/ Write(v) \/ ReadFails(v)

Next == \/ Boot \/ Crash \/ Signal \/ Main \/ Run \/ ContainerStops
        \/ \E r \in Requests : Arrive(r) \/ Answer(r) \/ Deployed(r)
        \/ \E v \in Viewers : Open(v) \/ Stream(v) \/ Leave(v)

Spec == Init /\ [][Next]_vars

\* Go's goroutines and its timers go on, the daemon answers, and a write to a
\* viewer that has left returns.  Nobody need start the agent, send a signal,
\* ask, read or leave; no request need be answered, and no write to a viewer
\* that is there need return: the connection has no deadline once it is
\* hijacked.
FairSpec == /\ Spec
            /\ WF_vars(Main) /\ WF_vars(Run)
            /\ \A v \in Viewers :
                 /\ WF_vars(Stats(v)) /\ WF_vars(Logs(v)) /\ WF_vars(ReadFails(v))
                 /\ WF_vars(conn[v] = "left" /\ Write(v))

-----------------------------------------------------------------------------
(***************************************************************************)
(* Properties                                                              *)
(***************************************************************************)
\* A certificate that clients have seen is on disk with its key, for good:
\* through failed writes, crashes, signals and restarts no client of the
\* agent ever meets another one ("so certs persist across container restarts",
\* server.go:98-99).
CertKept == \A p \in served : certFile = p /\ keyFile = p

\* A pair is made only if none was ever presented...
MadeOnce == runPc \in {"mkdir", "fill_cert", "open_key", "fill_key"} => served = {}
\* ... its certificate first...
CertFirst == runPc \in {"open_key", "fill_key"} => certFile = starts
\* ... and Run presents what is on disk.
HoldsPair == tls /\ runPc \in {"listen", "publish", "accept", "serve"} =>
               cert \in Pairs /\ certFile = cert /\ keyFile = cert

\* Types, and the certificate: the inductive invariant of the proofs.
DirectInv == TypeOK /\ CertKept /\ MadeOnce /\ CertFirst /\ HoldsPair

\* What makes a stop graceful: only a process that has ended has cut requests,
\* there are requests only once Serve runs, and those that come after Shutdown
\* found no server are late.
NoneCut     == main # "down" => \A r \in Requests : request[r] # "cut"
ServerKnown == /\ runPc \in {"accept", "serve"} => httpSrv
               /\ main # "down" /\ runPc # "serve" =>
                    \A r \in Requests : request[r] = "none"
NoneLeft    == /\ main = "graceful" => Active = {}
               /\ main = "early" => Active = {}

\* A stop loses no request that was there when Shutdown looked for the server
\* and that can be answered within 5 seconds, however far Run had come by then
\* (main.go:97-100, server.go:76-93).
StopIsGraceful == ended \in {"early", "graceful"} =>
                    \A r \in Requests : request[r] # "cut"

\* Not kept: no request is lost by a stop that was not timed out ("Shutdown
\* gracefully stops the server", server.go:87).  Shutdown looks once; Run may
\* set the server, serve and accept a request after that, while main returns.
NoneMissed == ended \in {"early", "graceful"} =>
                \A r \in Requests : request[r] \notin {"cut", "missed"}

\* The agent stops when it is told to, whatever the requests and the streams
\* do, and however far Run has come.
StopsOnSignal == stopping /\ main # "down" ~> main = "down"

Following(v) == handler[v] \in {"follow", "send", "last"}

\* The goroutines of a stream end: those of stats when the viewer has left,
\* and the reader with the handler whichever is first; those of logs when the
\* container has stopped and the viewer has left or reads what it is sent.
StreamsEnd ==
    \A v \in Viewers :
        /\ conn[v] = "left" /\ kind[v] = "stats" ~> conn[v] \in {"closed", "none"}
        /\ conn[v] = "closed" ~> reader[v] # "reading"
        /\ ~running /\ Following(v) /\ conn[v] = "left" ~> ~Following(v)
        /\ WF_vars(Write(v)) => (~running /\ Following(v) ~> ~Following(v))

\* Not kept: a stream of logs ends when the container has stopped.  A viewer
\* that stays without reading blocks the write (routes.go:220).
LogsEnd == \A v \in Viewers : ~running /\ Following(v) ~> ~Following(v)

\* Not kept: the handler of a stream of logs ends when its viewer has left.
\* Nobody reads the connection, the errors of writes are ignored, and the
\* request's context is not cancelled once the connection is hijacked
\* (routes.go:209-225).
LogsLeave == \A v \in Viewers : conn[v] = "left" ~> conn[v] \in {"closed", "none"}

\* Not kept: a graceful stop lets a deploy finish that was answered with its
\* ID ("Handle graceful shutdown", main.go:65).  The goroutine is none of the
\* server's requests (routes.go:321-330).
DeploysFinish == ended = "graceful" => \A r \in Requests : request[r] # "interrupted"

\* Not kept: an agent that may serve a certificate does so in one of its
\* starts if nothing fails there.  A process that ended between the two writes
\* has left a certificate without its key, which every later start fails to
\* load (server.go:106).
CertUsable == main = "down" /\ certFile # Absent => keyFile = certFile
=============================================================================
