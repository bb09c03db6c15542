---------------------------- MODULE DeployStream ----------------------------
(***************************************************************************)
(* One deploy session: a goroutine that deploys and emits events into a    *)
(* bounded channel, never waiting for a reader; the manager that hands the *)
(* session out by its id; and the readers that relay the events.  The      *)
(* endpoint decides who reads and how the session ends:                    *)
(*   "compose"  direct mode, POST /docker/deploy/stream: the deploy closes *)
(*              Done; WebSocket viewers attach by id                       *)
(*   "stack"    direct mode, POST /docker/stacks/{name}/deploy: the same   *)
(*              viewers, but nothing closes Done                           *)
(*   "edge"     edge mode, POST /docker/deploy/stream: the handler itself  *)
(*              relays over the connection to the server                   *)
(* Events are numbered in the order in which they are emitted.             *)
(***************************************************************************)
EXTENDS Naturals, Sequences, FiniteSets

CONSTANTS Viewers,    \* WebSocket viewers, direct mode
          Server,     \* the relay to the server, edge mode
          ChanCap,    \* capacity of session.Events (50 in the code)
          MaxEvents   \* bound on the events of a deploy

ASSUME BoundsAssumption == /\ ChanCap \in Nat \ {0}
                           /\ MaxEvents \in Nat
                           /\ Server \notin Viewers

VARIABLES endpoint,   \* who created the session
          count,      \* events emitted so far
          deploy,     \* the goroutine: "running", "finished"
          done,       \* session.Done is closed
          events,     \* session.Events
          dropped,    \* history: events that found the channel full
          registered, \* the manager still knows the session
          pc,         \* where each reader is
          connected,  \* readers whose connection works
          delivered,  \* history: delivered[r], the events r relayed
          lost        \* history: events received but not relayed

producer == <<endpoint, count, deploy, done, dropped>>
relay    == <<pc, connected, delivered, lost>>
vars     == <<producer, events, registered, relay>>

Endpoints == {"compose", "stack", "edge"}
Readers   == Viewers \cup {Server}
Numbers   == 1..MaxEvents
\* "drain" empties the channel after Done; "gone" is a 404; "ended" is the
\* handler's return, with the end marker on the edge.
ReaderPcs == {"off", "relay", "drain", "gone", "ended"}

TypeOK == /\ endpoint \in Endpoints
          /\ count \in 0..MaxEvents
          /\ deploy \in {"running", "finished"}
          /\ done \in BOOLEAN
          /\ events \in Seq(Numbers) /\ Len(events) <= ChanCap
          /\ dropped \subseteq Numbers
          /\ registered \in BOOLEAN
          /\ pc \in [Readers -> ReaderPcs]
          /\ connected \subseteq Readers
          /\ delivered \in [Readers -> Seq(Numbers)]
          /\ lost \subseteq Numbers

\* A compose deploy always says that it parses and how that went; a stack
\* deploy that finds its stack busy says nothing.
Least == IF endpoint = "stack" THEN 0 ELSE 2

\* CreateSession, the answer with the deploy id, and `go`.
Init == /\ endpoint \in Endpoints
        /\ count = 0
        /\ deploy = "running"
        /\ done = FALSE
        /\ events = <<>>
        /\ dropped = {}
        /\ registered = TRUE
        /\ pc = [r \in Readers |->
                   IF r = Server /\ endpoint = "edge" THEN "relay" ELSE "off"]
        /\ connected = Readers
        /\ delivered = [r \in Readers |-> <<>>]
        /\ lost = {}

-----------------------------------------------------------------------------
(* The deploy goroutine. *)

\* Emit: send, or drop when the channel is full.
Emit == /\ deploy = "running" /\ count < MaxEvents
        /\ count' = count + 1
        /\ IF Len(events) < ChanCap
             THEN events' = Append(events, count') /\ UNCHANGED dropped
             ELSE dropped' = dropped \cup {count'} /\ UNCHANGED events
        /\ UNCHANGED <<endpoint, deploy, done, registered, relay>>

\* Mutant: no endpoint closes Done.
FinishSilently == /\ deploy = "running" /\ count >= Least
                  /\ deploy' = "finished"
                  /\ UNCHANGED <<endpoint, count, done, events, dropped,
                                 registered, relay>>

\* Mutant: the deploy waits until its events have been read.
FinishWhenRead == /\ deploy = "running" /\ count >= Least /\ events = <<>>
                  /\ deploy' = "finished"
                  /\ done' = (endpoint # "stack")
                  /\ UNCHANGED <<endpoint, count, events, dropped, registered, relay>>

\* The deploy returns; DeployComposeStreamed closes Done, StackUpStreamed
\* does not.
Finish == /\ deploy = "running" /\ count >= Least
          /\ deploy' = "finished"
          /\ done' = (endpoint # "stack")
          /\ UNCHANGED <<endpoint, count, events, dropped, registered, relay>>

\* Direct mode: 30 seconds after the deploy the session is removed.
RemoveSession == /\ endpoint # "edge" /\ deploy = "finished" /\ registered
                 /\ registered' = FALSE
                 /\ UNCHANGED <<producer, events, relay>>

-----------------------------------------------------------------------------
(* Relaying one event. *)

\* Mutant: an event whose write failed goes back to the channel.
TakeAndRequeue(r) ==
    /\ events # <<>>
    /\ IF r \in connected
         THEN /\ delivered' = [delivered EXCEPT ![r] = Append(@, Head(events))]
              /\ events' = Tail(events)
         ELSE events' = Append(Tail(events), Head(events)) /\ UNCHANGED delivered
    /\ UNCHANGED lost

\* r receives the oldest event and writes it; over a broken connection it is
\* lost, whether or not the write says so.
Take(r) == /\ events # <<>>
           /\ events' = Tail(events)
           /\ IF r \in connected
                THEN /\ delivered' = [delivered EXCEPT ![r] = Append(@, Head(events))]
                     /\ UNCHANGED lost
                ELSE lost' = lost \cup {Head(events)} /\ UNCHANGED delivered

Goto(r, from, to) == pc[r] = from /\ pc' = [pc EXCEPT ![r] = to]

-----------------------------------------------------------------------------
(* Direct mode: the WebSocket handlers. *)

\* GetSession, then the upgrade.
Attach(v) == /\ endpoint # "edge"
             /\ Goto(v, "off", IF registered THEN "relay" ELSE "gone")
             /\ UNCHANGED <<producer, events, registered, connected, delivered, lost>>

\* select: an event; the handler returns when its write fails, which one over a
\* broken connection need not do at once.
Relay(v) == /\ Take(v)
            /\ \/ pc[v] = "relay" /\ UNCHANGED pc
               \/ v \notin connected /\ Goto(v, "relay", "ended")
            /\ UNCHANGED <<producer, registered, connected>>

\* Mutant: the viewer's stream ends at Done, without draining.
EndAtDone(r) == /\ done
                /\ Goto(r, "relay", "ended")
                /\ UNCHANGED <<producer, events, registered, connected, delivered, lost>>

\* select: Done is closed.
SeeDone(r) == /\ done
              /\ Goto(r, "relay", "drain")
              /\ UNCHANGED <<producer, events, registered, connected, delivered, lost>>

\* After Done: relay what is left, whether or not the write fails...
Drain(r) == /\ pc[r] = "drain"
            /\ Take(r)
            /\ UNCHANGED <<producer, registered, pc, connected>>

\* ... and return when the channel is empty.
DrainEnds(v) == /\ events = <<>>
                /\ Goto(v, "drain", "ended")
                /\ UNCHANGED <<producer, events, registered, connected, delivered, lost>>

-----------------------------------------------------------------------------
(* Edge mode: handleDeployStream. *)

\* select: an event becomes a numbered chunk, written without looking at the
\* error.
EdgeRelay == /\ pc[Server] = "relay"
             /\ Take(Server)
             /\ UNCHANGED <<producer, registered, pc, connected>>

\* select: the connection's context is cancelled.  Send the end marker and
\* remove the session.
EdgeCancelled == /\ Server \notin connected
                 /\ Goto(Server, "relay", "ended")
                 /\ registered' = FALSE
                 /\ UNCHANGED <<producer, events, connected, delivered, lost>>

\* After Done the handler ranges over Events (SeeDone, Drain): the range has
\* no default and Events is never closed, so the loop has no end and neither
\* the end marker nor RemoveSession after it is reached.

-----------------------------------------------------------------------------
(* A connection breaks. *)
Disconnect(r) == /\ r \in connected /\ pc[r] \in {"relay", "drain"}
                 /\ connected' = connected \ {r}
                 /\ UNCHANGED <<producer, events, registered, pc, delivered, lost>>

Deploy == Emit \/ Finish
View(v) == Relay(v) \/ SeeDone(v) \/ Drain(v) \/ DrainEnds(v)
EdgeView == EdgeRelay \/ SeeDone(Server) \/ Drain(Server) \/ EdgeCancelled

Next == \/ Deploy \/ RemoveSession \/ EdgeView
        \/ \E v \in Viewers : Attach(v) \/ View(v)
        \/ \E r \in Readers : Disconnect(r)

Spec == Init /\ [][Next]_vars

\* The deploy and the timers run whatever the readers do; a handler runs
\* while its select or its write can proceed, which is assumed only where a
\* property says so.  Viewers need not attach.
DeployFairness == WF_vars(Deploy) /\ WF_vars(RemoveSession)
ReaderFairness == WF_vars(EdgeView) /\ \A v \in Viewers : WF_vars(View(v))
FairSpec == Spec /\ DeployFairness

-----------------------------------------------------------------------------
(***************************************************************************)
(* Properties                                                              *)
(***************************************************************************)
InOrder(s) == \A i, j \in 1..Len(s) : i < j => s[i] < s[j]
Members(s) == {s[i] : i \in 1..Len(s)}

\* Every reader relays events in the order of their emission, and no event
\* is relayed twice, to one reader or to two: each event emitted so far is in
\* the channel, or was dropped, lost or relayed, and only one of these
\* (deploy_stream.go:69-81 against every reader of the channel).
EachEventOnce ==
    /\ \A r \in Readers : InOrder(delivered[r])
    /\ InOrder(events)
    /\ \A r, q \in Readers : r # q => Members(delivered[r]) \cap Members(delivered[q]) = {}
    /\ LET relayed == UNION {Members(delivered[r]) : r \in Readers}
       IN  /\ Members(events) \cup dropped \cup lost \cup relayed = 1..count
           /\ Members(events) \cap relayed = {}
           /\ (dropped \cup lost) \cap (Members(events) \cup relayed) = {}

\* A viewer whose stream the agent ended, over a connection that worked, has
\* missed nothing: the deploy is over, and no event is or will be left for it
\* (routes.go:369-381).
EndedIsComplete ==
    \A v \in Viewers :
        pc[v] = "ended" /\ v \in connected
        => deploy = "finished" /\ events = <<>>

\* A viewer that asks for the id while the deploy runs is never told that
\* there is no such session (routes.go:323-327, server/stacks.go:226-233).
FoundWhileRunning ==
    \A v \in Viewers : deploy = "running" => pc[v] # "gone"

\* What the readers have relayed is older than what is in the channel.
InFront == \A r \in Readers :
               \A i \in Members(delivered[r]), j \in Members(events) : i < j

\* Done is closed at the end of a deploy, and before anybody drains; direct
\* mode removes the session after the deploy; only a session of
\* the edge is relayed to the server, and it has no viewers.
Phases == /\ done => deploy = "finished"
          /\ \A r \in Readers : pc[r] = "drain" => done
          /\ endpoint # "edge" /\ ~registered => deploy = "finished"
          /\ \A r \in Readers : (r = Server) # (endpoint = "edge") => pc[r] = "off"

\* Which events are where, and which sessions are found: the inductive
\* invariant.
StreamInv == TypeOK /\ EachEventOnce /\ InFront /\ Phases /\ FoundWhileRunning

\* The deploy finishes and, in direct mode, its session is removed, whether or
\* not anybody reads the events (Emit never waits: deploy_stream.go:69-81).
DeployEnds == /\ <>(deploy = "finished")
              /\ endpoint # "edge" => <>[](~registered)

\* The stream of a compose deploy ends for every viewer that attached to it,
\* as long as the viewers' handlers go on.
ViewerEnds ==
    ReaderFairness =>
        \A v \in Viewers :
            endpoint = "compose" /\ pc[v] = "relay" ~> pc[v] = "ended"

\* Not kept: "Drain remaining events", then the end marker and RemoveSession
\* (edge/client.go:511-520), that is, a finished deploy ends the server's
\* stream.  Drain has no end there.
EdgeStreamEnds ==
    ReaderFairness => (endpoint = "edge" /\ done ~> pc[Server] = "ended")
=============================================================================
