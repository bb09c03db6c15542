---------------------------- MODULE EdgeDispatch ----------------------------
(***************************************************************************)
(* How the agent in edge mode serves one request of the Dockpal server:    *)
(* handleRequest finds the operation from the method and the path, runs it *)
(* and sends frames back, one answer or a numbered stream with its end.    *)
(*                                                                         *)
(* A path is the sequence of its segments.  The route table of direct mode *)
(* is the reference: an edge request has the path of the direct route      *)
(* without its leading /agent.                                             *)
(***************************************************************************)
EXTENDS Naturals, Sequences

CONSTANTS Paths,     \* paths that arrive
          BadNames,  \* segments that are empty, or have a backslash or a space
          MaxChunks  \* bound on the chunks of a stream

ASSUME EdgeDispatchAssumption == MaxChunks \in Nat

VARIABLES request, place,
          calls,     \* operations run for it, in order, and their outcome
          deploy,    \* the goroutine of a streamed deploy
          sent,      \* frames sent for it, in order
          chunk,     \* number of the next chunk of the stream
          gone       \* ctx.Done(): its connection is gone

dispatchVars == <<request, place, calls, deploy, sent, chunk, gone>>

Methods  == {"GET", "POST", "PUT", "DELETE"}
Bodies   == {"full", "bare", "bad"}   \* bare: no compose file; bad: no JSON
Requests == [method : Methods, path : Paths, body : Bodies]
NoReq    == [method |-> "none", path |-> <<>>, body |-> "bad"]

Op(o, a)     == [op |-> o, args |-> a]
Nothing      == Op("none", <<>>)
Route(m, p, o) == [method |-> m, path |-> p, op |-> o]

-----------------------------------------------------------------------------
(* Direct mode: registerRoutes and registerStackRoutes; "*" is a parameter. *)

Matches(pat, p) == /\ Len(pat) = Len(p)
                   /\ \A i \in 1..Len(p) : pat[i] \in {"*", p[i]}

\* The segments of p at the parameters of pat, of which there are two at most.
Params(pat, p) == LET At == {i \in 1..Len(pat) : pat[i] = "*"}
                  IN  CASE At = {} -> <<>>
                        [] OTHER -> LET a == CHOOSE i \in At : \A j \in At : i <= j
                                        z == CHOOSE i \in At : \A j \in At : i >= j
                                    IN  IF a = z THEN <<p[a]>> ELSE <<p[a], p[z]>>

FixedRoutes ==
    { Route("GET", <<"docker", "containers">>, "ListContainers"),
      Route("GET", <<"docker", "images">>, "ListImages"),
      Route("POST", <<"docker", "images", "pull">>, "PullImage"),
      Route("POST", <<"docker", "deploy", "compose">>, "DeployCompose"),
      Route("POST", <<"docker", "deploy", "stream">>, "DeployComposeStreamed"),
      Route("GET", <<"docker", "files">>, "ListFiles"),
      Route("GET", <<"docker", "files", "read">>, "ReadFile"),
      Route("POST", <<"docker", "files", "write">>, "WriteFile"),
      Route("DELETE", <<"docker", "files">>, "DeleteFile"),
      Route("GET", <<"host", "info">>, "GetHostInfo"),
      Route("GET", <<"host", "stats">>, "GetHostStats") }

ComposeRoutes ==
    { Route("POST", <<"docker", "compose", "stop">>, "StopCompose"),
      Route("POST", <<"docker", "compose", "remove">>, "RemoveCompose") }

ContainerRoutes ==
    { Route("GET", <<"docker", "containers", "*">>, "InspectContainer"),
      Route("POST", <<"docker", "containers", "*", "start">>, "StartContainer"),
      Route("POST", <<"docker", "containers", "*", "stop">>, "StopContainer"),
      Route("POST", <<"docker", "containers", "*", "restart">>, "RestartContainer"),
      Route("DELETE", <<"docker", "containers", "*">>, "RemoveContainer"),
      Route("PUT", <<"docker", "containers", "*">>, "EditContainer"),
      Route("GET", <<"docker", "containers", "*", "stats">>, "GetContainerStats"),
      Route("GET", <<"docker", "containers", "*", "logs">>, "ContainerLogs"),
      Route("GET", <<"docker", "containers", "*", "stats", "ws">>, "StatsStream"),
      Route("DELETE", <<"docker", "images", "*">>, "RemoveImage") }

StackActions == { <<"up", "StackUp">>, <<"start", "StackUp">>, <<"stop", "StackStop">>,
                  <<"restart", "StackRestart">>, <<"recreate", "StackRecreate">>,
                  <<"down", "StackDown">>, <<"update", "StackUpdate">>,
                  <<"deploy", "StackUpStreamed">> }
ServiceActions == { <<"up", "StackServiceUp">>, <<"stop", "StackServiceStop">>,
                    <<"restart", "StackServiceRestart">>,
                    <<"recreate", "StackServiceRecreate">> }

StackRoutes ==
    { Route("GET", <<"docker", "stacks">>, "ListStacks"),
      Route("GET", <<"docker", "stacks", "meta", "networks">>, "ListDockerNetworks"),
      Route("GET", <<"docker", "stacks", "meta", "globalenv">>, "GetGlobalEnv"),
      Route("PUT", <<"docker", "stacks", "meta", "globalenv">>, "SetGlobalEnv"),
      Route("GET", <<"docker", "stacks", "*">>, "GetStackFull"),
      Route("POST", <<"docker", "stacks">>, "CreateStack"),
      Route("PUT", <<"docker", "stacks", "*">>, "UpdateStack"),
      Route("DELETE", <<"docker", "stacks", "*">>, "StackDelete") }
    \cup { Route("POST", <<"docker", "stacks", "*", a[1]>>, a[2]) : a \in StackActions }
    \cup { Route("POST", <<"docker", "stacks", "*", "services", "*", a[1]>>, a[2]) :
             a \in ServiceActions }

Routes == FixedRoutes \cup ComposeRoutes \cup ContainerRoutes \cup StackRoutes

\* Only the routes of a service have two parameters, and both modes refuse a
\* service whose name is not valid.
Checked(o) == IF Len(o.args) = 2 /\ o.args[2] \in BadNames THEN Nothing ELSE o

DirectOp(r) ==
    LET these == {rt \in Routes : rt.method = r.method /\ Matches(rt.path, r.path)}
    IN  IF these = {} THEN Nothing
        ELSE LET rt == CHOOSE rt \in these : TRUE IN Checked(Op(rt.op, Params(rt.path, r.path)))

-----------------------------------------------------------------------------
(* Edge mode: handleRequest and handleStackRequest. *)

EdgeExact ==
    { Route("GET", <<"docker", "containers">>, "ListContainers"),
      Route("POST", <<"docker", "deploy", "compose">>, "DeployCompose"),
      Route("POST", <<"docker", "deploy", "stream">>, "DeployComposeStreamed"),
      Route("POST", <<"compose", "stop">>, "StopCompose"),
      Route("POST", <<"compose", "remove">>, "RemoveCompose"),
      Route("GET", <<"docker", "images">>, "ListImages"),
      Route("POST", <<"docker", "images", "pull">>, "PullImage"),
      Route("GET", <<"docker", "files">>, "ListFiles"),
      Route("GET", <<"docker", "files", "read">>, "ReadFile"),
      Route("POST", <<"docker", "files", "write">>, "WriteFile"),
      Route("DELETE", <<"docker", "files">>, "DeleteFile"),
      Route("GET", <<"host", "info">>, "GetHostInfo"),
      Route("GET", <<"host", "stats">>, "GetHostStats") }

\* Over the path without its first segment and the one that sub skips.
EdgeStackRoutes ==
    { Route("GET", <<"stacks">>, "ListStacks"),
      Route("GET", <<"stacks", "meta", "networks">>, "ListDockerNetworks"),
      Route("GET", <<"stacks", "meta", "globalenv">>, "GetGlobalEnv"),
      Route("PUT", <<"stacks", "meta", "globalenv">>, "SetGlobalEnv"),
      Route("GET", <<"stacks", "*">>, "GetStackFull"),
      Route("POST", <<"stacks">>, "CreateStack"),
      Route("PUT", <<"stacks", "*">>, "UpdateStack"),
      Route("DELETE", <<"stacks", "*">>, "StackDelete") }
    \cup { Route("POST", <<"stacks", "*", a[1]>>, a[2]) :
             a \in {a \in StackActions : a[1] # "recreate"} }
    \cup { Route("POST", <<"stacks", "*", "services", "*", a[1]>>, a[2]) :
             a \in {a \in ServiceActions : a[1] # "recreate"} }

\* extractPathParam: the index counts from 0.
PathParam(p, index) == IF index < Len(p) THEN p[index + 1] ELSE ""

ExactOp(r) ==
    LET these == {rt \in EdgeExact : rt.method = r.method /\ rt.path = r.path}
    IN  IF these = {} THEN Nothing ELSE Op((CHOOSE rt \in these : TRUE).op, <<>>)

StackOp(r) ==
    LET sub   == SubSeq(r.path, 3, Len(r.path))
        these == {rt \in EdgeStackRoutes : rt.method = r.method /\ Matches(rt.path, sub)}
    IN  IF these = {} THEN Nothing
        ELSE LET rt == CHOOSE rt \in these : TRUE
             IN  Checked(Op(rt.op, Params(rt.path, sub)))

ContainerReads   == { << <<"stats">>, "GetContainerStats" >>,
                      << <<"logs">>, "ContainerLogs" >>,
                      << <<"stats", "ws">>, "StatsStream" >> }
ContainerActions == { <<"start", "StartContainer">>, <<"stop", "StopContainer">>,
                      <<"restart", "RestartContainer">> }

HasSuffix(p, s) == Len(s) <= Len(p) /\ SubSeq(p, Len(p) - Len(s) + 1, Len(p)) = s

\* The operation on one container, by the method and the last segments.
ContainerOp(r) ==
    LET reads   == {a \in ContainerReads : HasSuffix(r.path, a[1])}
        actions == {a \in ContainerActions : a[1] = PathParam(r.path, 4)}
        name    == CASE r.method = "GET" /\ reads # {} -> (CHOOSE a \in reads : TRUE)[2]
                     [] r.method = "GET" /\ reads = {} -> "InspectContainer"
                     [] r.method = "POST" /\ actions # {} -> (CHOOSE a \in actions : TRUE)[2]
                     [] r.method = "DELETE" -> "RemoveContainer"
                     [] r.method = "PUT" -> "EditContainer"
                     [] OTHER -> "none"
    IN  IF name = "none" THEN Nothing ELSE Op(name, <<PathParam(r.path, 3)>>)

Under(r, first) == Len(r.path) > 2 /\ SubSeq(r.path, 1, 2) = first

EdgeOp(r) ==
    CASE SubSeq(r.path, 1, 2) = <<"docker", "stacks">> -> StackOp(r)
      [] Under(r, <<"docker", "containers">>) -> ContainerOp(r)
      [] Under(r, <<"docker", "images">>) /\ r.method = "DELETE" ->
           Op("RemoveImage", <<PathParam(r.path, 3)>>)
      [] OTHER -> ExactOp(r)

NeedsBody == {"EditContainer", "DeployCompose", "DeployComposeStreamed", "StopCompose",
              "RemoveCompose", "PullImage", "WriteFile", "SetGlobalEnv", "CreateStack",
              "UpdateStack"}
Saves     == {"CreateStack", "UpdateStack"}
Streamed  == {"DeployComposeStreamed", "StackUpStreamed"}
CannotFail == {"GetHostInfo", "GetHostStats"}
Refreshed == {"StackUp", "StackStop", "StackRestart", "StackDown", "StackUpdate",
              "StackServiceUp", "StackServiceStop", "StackServiceRestart"}

-----------------------------------------------------------------------------
(* Serving the request. *)

\* json: whether the body of the frame is JSON.
Frame(kind, ok, n, json) == [kind |-> kind, ok |-> ok, n |-> n, json |-> json]
Frames == [kind : {"answer", "head", "chunk", "end"}, ok : BOOLEAN,
           n : 0..MaxChunks, json : BOOLEAN]
Ops    == {rt.op : rt \in Routes} \cup {"SaveStack", "GetStack"}

Pcs == {"wait", "dispatch", "prepare", "call", "reload", "logs", "eof", "stats",
        "events", "drain", "end"}

DispatchTypeOK == /\ request \in Requests \cup {NoReq}
                  /\ place \in Pcs
                  /\ \A i \in 1..Len(calls) : calls[i].op \in Ops /\ calls[i].ok \in BOOLEAN
                  /\ deploy \in {"none", "running", "done"}
                  /\ sent \in Seq(Frames)
                  /\ chunk \in 0..MaxChunks
                  /\ gone \in BOOLEAN

DispatchInit == /\ request = NoReq /\ place = "wait" /\ calls = <<>>
                /\ deploy = "none" /\ sent = <<>> /\ chunk = 0 /\ gone = FALSE

At(p)      == place = p /\ UNCHANGED <<request, deploy, gone>>
Move(p)    == place' = p
Send(f)    == sent' = Append(sent, f)
Respond(ok) == Send(Frame("answer", ok, 0, TRUE)) /\ Move("end")
Called(o, ok) == calls' = Append(calls, [op |-> o.op, args |-> o.args, ok |-> ok])

\* Mutant: a stream that has ended is answered as well.
EndAndAnswer(ok) == /\ sent' = sent \o << Frame("end", ok, 0, TRUE),
                                          Frame("answer", FALSE, 0, TRUE) >>
                    /\ Move("end")

\* sendStreamEnd, and the handler returns.
End(ok) == Send(Frame("end", ok, 0, TRUE)) /\ Move("end")

\* sendStreamChunk: only log output may not be JSON.
Chunk(json) == /\ chunk < MaxChunks
               /\ Send(Frame("chunk", TRUE, chunk, json))
               /\ chunk' = chunk + 1

\* A request arrives over the connection.
ReceiveRequest == /\ place = "wait" /\ request' \in Requests /\ Move("dispatch")
                  /\ UNCHANGED <<calls, deploy, sent, chunk, gone>>

\* Mutant: an unknown action is answered like one that was carried out.
RefuseNothing == Respond(EdgeOp(request) = Nothing)

Refuse == Respond(FALSE)

Refused == LET op == EdgeOp(request).op
           IN  op = "none" \/ (op \in NeedsBody /\ request.body = "bad")
Deploys == EdgeOp(request).op = "StackUpStreamed"

Dispatch ==
    /\ At("dispatch") /\ UNCHANGED <<calls, chunk>>
    /\ \/ Refused /\ Refuse
       \/ ~Refused /\ UNCHANGED sent /\ Move(IF Deploys THEN "prepare" ELSE "call")

\* handleEdgeStackDeploy: a body without a compose file deploys what is there.
Prepare ==
    /\ At("prepare") /\ UNCHANGED chunk
    /\ \E ok \in BOOLEAN :
         /\ Called(Op(IF request.body = "full" THEN "SaveStack" ELSE "GetStack",
                      EdgeOp(request).args), ok)
         /\ \/ ok /\ Move("call") /\ UNCHANGED sent
            \/ ~ok /\ Respond(FALSE)

\* handleDeployStream, handleEdgeStackDeploy: the deploy's ID is sent, and the
\* deploy is left to a goroutine...
StartDeploy ==
    /\ place = "call" /\ EdgeOp(request).op \in Streamed
    /\ deploy' = "running"
    /\ Send(Frame("head", TRUE, 0, TRUE)) /\ Move("events")
    /\ UNCHANGED <<request, calls, chunk, gone>>

\* ... which keeps the deploy's error to itself.
RunDeploy == /\ deploy = "running" /\ deploy' = "done"
             /\ \E ok \in BOOLEAN : Called(EdgeOp(request), ok)
             /\ UNCHANGED <<request, place, sent, chunk, gone>>

\* The stream of stats begins with the first ones, that of logs with none.
Begin(op) ==
    \/ op = "StatsStream" /\ Chunk(TRUE) /\ Move("stats")
    \/ op = "ContainerLogs" /\ Move("logs") /\ UNCHANGED <<sent, chunk>>

Call ==
    /\ At("call")
    /\ LET o == EdgeOp(request) IN
       /\ o.op \notin Streamed
       /\ \/ /\ Called(o, TRUE)
             /\ \/ Begin(o.op)
                \/ /\ o.op \in Saves \cup Refreshed /\ Move("reload")
                   /\ UNCHANGED <<sent, chunk>>
                \/ /\ o.op \notin Saves \cup Refreshed \cup {"StatsStream", "ContainerLogs"}
                   /\ Respond(TRUE) /\ UNCHANGED chunk
          \/ /\ o.op \notin CannotFail /\ Called(o, FALSE) /\ UNCHANGED chunk
             /\ \/ o.op = "StatsStream" /\ End(FALSE)
                \/ o.op # "StatsStream" /\ Respond(FALSE)

\* The answer shows the stack as it is now: sendEdgeStackFull does without it.
Reload == /\ At("reload") /\ UNCHANGED <<calls, chunk>>
          /\ \/ Respond(TRUE)
             \/ EdgeOp(request).op \in Saves /\ Respond(FALSE)

\* handleContainerLogs: what was read is sent, then the error is looked at.
ReadLogs == /\ At("logs") /\ UNCHANGED calls
            /\ \/ gone /\ End(TRUE) /\ UNCHANGED chunk
               \/ ~gone /\ \E json \in BOOLEAN : Chunk(json) /\ place' \in {"logs", "eof"}
               \/ Move("eof") /\ UNCHANGED <<sent, chunk>>

\* A log that cannot be read any further ends like one that has ended.
EndLogs == /\ At("eof") /\ End(TRUE) /\ UNCHANGED chunk
           /\ UNCHANGED calls \/ Called(EdgeOp(request), FALSE)

\* Mutant: stats that cannot be had are tried again at the next tick.
StatsForever == /\ At("stats") /\ UNCHANGED calls
                /\ ~gone /\ Chunk(TRUE) /\ UNCHANGED place

\* handleStatsStream: the context, or the next stats, of which only a failure
\* is recorded; there are none in a context that is cancelled.
Stats == /\ At("stats")
         /\ \/ gone /\ End(TRUE) /\ UNCHANGED <<calls, chunk>>
            \/ Called(EdgeOp(request), FALSE) /\ End(TRUE) /\ UNCHANGED chunk
            \/ ~gone /\ Chunk(TRUE) /\ UNCHANGED <<place, calls>>

\* The select of handleDeployStream and handleEdgeStackDeploy.  Only the deploy
\* of a project closes Done; the events are then read to the end of a channel
\* that has none.
Events == /\ At("events") /\ UNCHANGED calls
          /\ \/ Chunk(TRUE) /\ UNCHANGED place
             \/ /\ deploy = "done" /\ ~Deploys
                /\ Move("drain") /\ UNCHANGED <<sent, chunk>>
             \/ gone /\ End(TRUE) /\ UNCHANGED chunk

Drain == At("drain") /\ Chunk(TRUE) /\ UNCHANGED <<calls, place>>

Cancel == /\ place # "wait" /\ ~gone /\ gone' = TRUE
          /\ UNCHANGED <<request, place, calls, deploy, sent, chunk>>

Serve == \/ Dispatch \/ Prepare \/ StartDeploy \/ Call \/ Reload \/ ReadLogs
         \/ EndLogs \/ Stats \/ Events \/ Drain

DispatchNext == ReceiveRequest \/ Serve \/ RunDeploy \/ Cancel

DispatchSpec     == DispatchInit /\ [][DispatchNext]_dispatchVars
DispatchFairSpec == DispatchSpec /\ WF_dispatchVars(Serve)

-----------------------------------------------------------------------------
Final(f) == f.kind \in {"answer", "end"}

(* A request is answered exactly once: by one answer and nothing else, or by
   a stream whose chunks are numbered from 0 without a gap and which has one
   end, the last frame.  handleRequest answers what its handlers have not
   answered. *)
AnsweredOnce ==
    /\ \A i \in 1..Len(sent) : Final(sent[i]) <=> (i = Len(sent) /\ place = "end")
    /\ place = "end" => sent # <<>>
    /\ \A i \in 1..Len(sent) : sent[i].kind = "answer" => Len(sent) = 1
    /\ LET first == IF sent # <<>> /\ sent[1].kind = "head" THEN 2 ELSE 1
       IN  \A i \in first..Len(sent) : ~Final(sent[i]) =>
             sent[i].kind = "chunk" /\ sent[i].n = i - first

\* How far the request has come: the frames that are out, and the calls that
\* were made, of which only a deploy of a stack makes one beforehand, and only
\* a stream of stats or logs one that fails after one that did not.
Heads   == IF sent # <<>> /\ sent[1].kind = "head" THEN 1 ELSE 0
Prepared(ok) == [op |-> IF request.body = "full" THEN "SaveStack" ELSE "GetStack",
                 args |-> EdgeOp(request).args, ok |-> ok]
Ran(ok)  == [op |-> EdgeOp(request).op, args |-> EdgeOp(request).args, ok |-> ok]
Beforehand == IF Deploys THEN <<Prepared(TRUE)>> ELSE <<>>
AndRan(ok) == IF Deploys THEN <<Prepared(TRUE), Ran(ok)>> ELSE <<Ran(ok)>>
Failed(c)  == \/ Deploys /\ c = <<Prepared(FALSE)>>
              \/ c = <<Ran(FALSE)>> \/ c = <<Ran(TRUE), Ran(FALSE)>>

InStep ==
    /\ place # "end" => Len(sent) = Heads + chunk
    /\ place \in {"wait", "dispatch", "prepare", "call", "reload"} => sent = <<>>
    /\ place \in {"wait", "dispatch", "prepare"} => calls = <<>>
    /\ place \notin {"wait", "dispatch", "end"} => ~Refused
    /\ place = "prepare" => Deploys
    /\ place = "call" => calls = Beforehand
    /\ place \in {"reload", "logs", "eof", "stats"} => ~Deploys /\ calls = <<Ran(TRUE)>>
    /\ deploy = "none" => place \notin {"events", "drain"}
    /\ deploy # "none" => place \in {"events", "drain", "end"} /\ ~Refused
    /\ deploy # "none" <=> Heads = 1
    /\ deploy = "running" => calls = Beforehand
    /\ deploy = "done" => \E ok \in BOOLEAN : calls = AndRan(ok)
    /\ place = "end" /\ deploy = "none" =>
         \/ Refused /\ calls = <<>>
         \/ ~Refused /\ (Failed(calls) \/ (~Deploys /\ calls = <<Ran(TRUE)>>))

\* The frames and the calls of a request, whatever it asks for; the inductive
\* invariant.
DispatchInv == DispatchTypeOK /\ AnsweredOnce /\ InStep

\* An answer says ok once what was asked has been done, all of it; a deploy of
\* a stack is begun once the stack is saved, or found.
OkIsDone == \A i \in 1..Len(sent) : sent[i].kind = "answer" /\ sent[i].ok =>
              calls # <<>> /\ \A k \in 1..Len(calls) : calls[k].ok
BegunIsPrepared == Heads = 1 /\ Deploys => calls # <<>> /\ calls[1] = Prepared(TRUE)

\* The request has run what direct mode runs for its method and path, on the same
\* container, image, stack and service, or its goroutine is to.
RunAsDirect ==
    LET direct == DirectOp(request) IN
    direct # Nothing /\ (direct.op \in NeedsBody => request.body # "bad") =>
        \/ deploy = "running" /\ EdgeOp(request) = direct
        \/ calls # <<>> /\ Op(calls[Len(calls)].op, calls[Len(calls)].args) = direct

\* The requests of direct mode whose path names nothing, and those of them that
\* edge mode has under another path.
PlainRoutes == {rt \in Routes : \A i \in 1..Len(rt.path) : rt.path[i] # "*"}
Plain(r)    == \E rt \in PlainRoutes : rt.method = r.method /\ rt.path = r.path
Moved       == {rt.path : rt \in ComposeRoutes \cup StackRoutes}

(* A request is answered ok only if its operation was run and did not fail: a
   path or an action that nobody knows is not.  Where the path names nothing,
   the operation is that of direct mode; the paths of stacks and of compose,
   which edge mode looks for elsewhere, are refused with nothing run
   (client.go:132-398 and stacks.go:38-207 against server/routes.go:29-75 and
   server/stacks.go:18-52).  Of a stream, ok says only that it was begun. *)
OkMeansDone ==
    /\ OkIsDone /\ BegunIsPrepared
    /\ place = "end" /\ Plain(request) =>
         IF request.path \in Moved THEN calls = <<>> /\ deploy = "none" ELSE RunAsDirect

(* Not kept: a stream whose end says ok is one of an operation that did not
   fail.  The error of a deploy is dropped (client.go:495, stacks.go:256), and
   stats and logs that cannot be read end with 200 (client.go:430-433,
   457-459). *)
EndMeansDone ==
    place = "end" /\ sent[Len(sent)].ok =>
      deploy # "running" /\ \A k \in 1..Len(calls) : calls[k].ok

(* A request whose connection is gone ends; not the stream of a deploy, which
   goes on once the deploy has finished (see Drain). *)
CancelledEnds == gone /\ EdgeOp(request).op \notin Streamed ~> place = "end"

(* Not kept: "Inspect container" and the other routes for one container or
   image (README.md:75-82); "Mirrors the direct-mode handlers" (stacks.go:14).
   PathParam counts from a segment that the path does not have, StackOp drops
   one that it needs, and ComposeRoutes are not in EdgeExact. *)
SameAsDirect == place = "end" => RunAsDirect

(* Not kept: "AgentResponse is a message sent from Agent to Server"
   (protocol.go:14).  A chunk of a log is put into its frame as JSON, which it
   is not; the frame is not encoded, and an empty message goes out. *)
FramesAreResponses == \A i \in 1..Len(sent) : sent[i].json
=============================================================================
