# Verification of dockpal-agent

TLA+ models of the agent in `src/`, the TLC runs that check them and the TLAPS
proofs about them. `PROJECT.json` lists the components, the runs, the mutants
that show that a property can fail, the source lines behind each definition, the
hazards and the theorems. File and line references are to
`src/internal/...` unless they begin with `src/`.

    tlc -workers 2 -config StackLock.cfg MCStackLock.tla   # any run; see "Runs"
    tlapm StackLock_proofs.tla                             # any proof module

## The system

The agent runs beside one Docker daemon. In *direct mode* it serves HTTPS
(`server/`), in *edge mode* it dials a server over a WebSocket and serves the
same operations from requests that arrive there (`edge/`). Both call into
`docker/` and, for stacks, `composecli/`. Everything runs in goroutines of one
process; the shared state is small and most of it is not in memory.

| Component | State | Operations | Hard behaviour |
|---|---|---|---|
| Per-stack lock, `composecli/composecli.go:33-74` | `sync.Map` from names to objects with a mutex and a flag | `TryLock`, `Unlock` | a check and a set under a mutex found by name; the lock outlives the mutex |
| Stack store, `docker/stack_store.go`, `composecli/bridge.go`, `server/stacks.go` | a directory per stack with `compose.yaml`, `.env`, temporary files; `global.env`; the projects on the daemon | save, deploy, up/stop/restart/recreate/down, update, delete | saves without the lock beside commands with it; failures and crashes between two renames; `RemoveAll` beside writes |
| Compose CLI runner, `composecli/composecli.go:76-140` | a child process, its pipe, a scanning goroutine | `run`, `streamLines` | `Wait` closes the pipe under the reader; a full pipe blocks the child |
| Deploy sessions, `docker/deploy_stream.go`, `server/routes.go`, `server/stacks.go`, `edge/client.go` | a table of sessions, for each a channel of 50 events and `Done` | emit, attach, relay, drain, remove | a producer that never waits; several readers of one channel; two endings; a timer |
| Edge client, `edge/client.go` | `c.conn` and `c.ctx` under `c.mu`; one loop, a heartbeat per connection, a goroutine per request | dial, enroll, read, heartbeat, answer, reconnect, stop | goroutines that outlive their connection and write to the next one |
| Edge dispatch, `edge/client.go`, `edge/stacks.go`, `edge/protocol.go` | none of its own | routing, answers, numbered streams | two dispatchers that imitate the route table of `server/routes.go` |
| Start order, `docker/compose.go:179-239` | a recursion with two sets of marks | `topologicalSort` | random map order; circles against shared dependencies |
| Legacy compose deploy, `docker/compose.go`, `docker/deploy_stream.go`, `server/apps.go` | `docker-compose.yml` and containers with a label | deploy, streamed deploy, stop, remove, toggle auto-update, update | no lock; any call may fail half way; cleanup by name |
| Container editing, `docker/containers.go:255-475` | the container on the daemon | edit, recreate | inspect, then stop, remove and create; two edits at once |
| Container exec, `docker/exec.go` | two capped buffers, a goroutine, a deadline | `ExecCommand` | output, exit, broken stream and deadline race |
| Direct HTTP server, `src/main.go:63-104`, `server/server.go:50-93`, `server/routes.go` | `s.httpSrv`, the process, requests under way, WebSocket streams | `runDirect`, `Run`, `Shutdown`, streams of logs and statistics | a signal while the server starts; streams and background deploys that `Shutdown` does not know; goroutines that end each other |
| Other container operations, images, files, host information, authentication, configuration | – | one call each | none of these keeps state between calls |
| Label editing, `docker/compose_labels.go` | a YAML tree | `SetServiceLabel` | labels as a map or as a list; keys twice; aliases and merge keys |
| App listing, `docker/apps.go` | – | `ListApps` | groups two lists taken at different times |
| TLS certificates, `server/server.go:95-161` | two files | `ensureCerts` | a crash between the two writes, or within one |

How they interact: a request of either mode runs in its own goroutine. Stack
operations take the per-stack lock; saves, the legacy API and the containers API
do not. A streamed operation runs in a further goroutine and talks to its readers
only through its session's channel. In edge mode every goroutine that writes goes
through `c.mu` to whatever connection is current.

What makes each of them correct: at most one compose operation on a stack at a
time, and no operation blocked by another; files on disk that are what a save
that succeeded wrote; no output out of order and no event after the end; a
deploy that ends whoever reads; one writer and one connection in edge mode, no
heartbeat missing or left over; a request answered once, and with ok only if what it
asks was done; dependencies started first; a failed deploy taken back and a good one left
alone; a container that an edit does not lose silently; a result that says when
it is incomplete; a label that is edited as it is read; a certificate that clients
may pin; an agent that stops when it is told to.

## The modules

`X.tla` is the model, `MCX.tla` its instances for TLC, `X.cfg` the run,
`X_proofs.tla` the theorems (StackUp_proofs also those of DeployStream, Containers_proofs those
of EditContainer and ExecCommand, Edge_proofs those of EdgeClient and EdgeDispatch). Operators named "Mutant: ..." in their comment are not
part of any specification: they are the plausible mistakes with which
`PROJECT.json` shows that each property can be violated.

**StackMutex** is the abstract lock: `Grant` a free stack, `Refuse` an owned one,
`Release`, `Forget` a refusal, and `Restart`, which empties the table. Waiting is
not in it. Two models implement it.

**StackLock** is `TryLock` and `Unlock` one memory operation at a time.
`LoadOrStore` publishes the caller's object or finds another's (`entry`, `ptr`);
`LockMutex`, `TestHeld`, `SetHeld`, `ClearHeld`, `UnlockMutex` are the lines
between; `LoadEntry` is the load in `Unlock`. Operations are the time spent at
`"critical"`, with no obligation to end.

**StackStore** gives each request one operation and one step per system call or
command: `StatDir`, `MkdirAll`, `WriteTemp`, `RenameTemp`, `SaveFails` for
`SaveStack` (194-233); `TryLock`, `ComposeArgs`, `Spawn`, `CommandEnds`,
`ListProjects`, `Unlock` for `stackRun`, `StackUpdate` and the deploy goroutine
(508-590, `bridge.go`); `StatForDelete`, `ScanDir`, `RemoveEntry`, `RemoveDir` for
`StackDelete` with its `RemoveAll` (592-606). A file's content is the request that
wrote it, a project is what `docker compose ls` says of it. `ProjectMoves` is
every change of a project from outside, the containers API and the legacy API included; that
the legacy API's `RemoveCompose` takes the directory of a stack of the same name is not (see "To come").
A stack begins with nothing, with both files, or with what a save that failed has left.
`Crash` loses requests, lock table and running commands (the children die with
the agent); the disk stays. The lock is one step here because StackLock refines
the same abstract lock.

**ComposeRun** has the child (`Write`, `Exit`, `Kill`), the goroutine (`Read`,
`ScanLine`, `LineTooLong`, `EndOfOutput`) and `run` (`Wait`, which closes the read
end, and `Join`). Output is a sequence of line ends, blank lines and parts of
lines; the scanner's 1 MiB limit is `LineMax` parts. It has no run of its own.

**StackUp** composes one operation of a stack: its steps (`TryLock`, `Announce`,
`StartCommand`, `WaitForCommand`, `Return`, `Tell`, `Unlock`, `SayDone`, `Leave`) take
the steps of ComposeRun and of DeployStream, both of which it extends: a line that the scanner emits is an event in the channel. `said` is what
each event says. Without a session it is a plain `stackRun`, whose context a client
may cancel; with one, the deploy of `handleDeployStack`.

**DeployStream** has the producer (`Emit`, `Finish`), the timer (`RemoveSession`),
viewers (`Attach`, `Relay`, `SeeDone`, `Drain`, `DrainEnds`) and the relay to the
server (`EdgeRelay`, `EdgeCancelled`). A write to a viewer that is gone may still be answered as
made: the event is lost, and the viewer's handler goes on. `endpoint` says which of the three handlers
created the session: only `DeployComposeStreamed` closes `Done`, and only the edge
handler has no end to its drain. Events are numbers in the order of emission.

**EdgeClient** has `Run` and `connectAndServe` (`Retry` to `CancelContext` and `Close`, the two
steps of the deferred function), `heartbeat` of
each connection (`Tick`, `Done`, `LockBeat`, `Beat`, `BeatFails`) and the handler of
each request (`Receive`, `Answer`, `Write`). `cur` is `c.conn`; the enroll
message is written without the mutex, in two steps. `Panic` is what the WebSocket
library does when it detects two writers. A connection is up, failing (reads fail,
writes may fail, succeed or block) or closed.

**EdgeDispatch** has the route tables of both modes as data and one request served
frame by frame. `EdgeOp` is what the dispatchers run, with `PathParam` and `StackOp`
as in the code; `DirectOp` is what `server/routes.go` runs for the same method and
path; both refuse the names of services that are not valid (`Checked`, `BadNames`). `Dispatch`,
`Prepare`, `Call`, `Reload` and the loops of the four streaming handlers send the frames;
`calls` has every call that was made and whether it failed, those that the answer does not
tell included: a streamed deploy runs in a goroutine of its own (`StartDeploy`, `RunDeploy`)
after its head was sent with 200, and a later sample or a log that fails ends its stream with 200. Paths are given without `/agent`, the first segment of
direct mode.

**DeployOrder** is the depth-first search with the recursion as an explicit path:
`VisitRoot`, `VisitDependency`, `Leave`, `Return`; Go's random map order is the
choice of the next node. Every compose file over the names is an initial state.

**ComposeDeploy** runs deploys, streamed deploys, label toggles, updates, stops and
removals of one project, one Docker call or file operation at a time. A plain
deploy writes its file first and a streamed one after the pulls, as in the code.
`os.WriteFile` is two steps, a truncation and a write (`Write`, `Save`), between which others
read, write or remove the file and the agent may die. Docker
refuses a second container of a name; every other call may fail (`CanFail`); a
write that fails, and two that overlap, may leave a truncated or mixed file (`Torn`), which
has no services.
`refused` remembers the containers Docker would not remove. A compose file carries the
label or not (`auto`); **ComposeLabels** has what that stands for: `SetServiceLabel` as
an operator on the label nodes of services (mapping, list, scalar, alias, inherited),
and `ParseLabels`, by which a deploy reads them and which is the reference.

**EditContainer** runs `EditContainer` and `recreateContainer` one Docker call at a
time: `Inspect`, `Rename`, `Update`, `InspectAgain`, `Stop`, `Remove`, `Create`,
`StartContainer`, `AnswerByName`. The configuration has a field of each kind: one
changed in place (memory), one that needs recreation (image), one that is copied
(labels), one that recreation does not copy (health check). A container with `AutoRemove`
may be gone once it was stopped, so that its removal fails. Restarting and paused
containers are not told apart from running ones. A request the agent dies with is
one that stops after any of its steps, so a crash needs no action.

**ExecCommand** has the command (`Write`, `Exit`), the stream (`Cut`), the goroutine
(`Read`, `ReadEnds`), the polling request (`Inspect`, `Deadline`, `Sleep`, `Join`)
and the timer (`Expire`).

**TLSCerts** is `ensureCerts` over the starts of the agent. A file is known by the
start that made it; `os.WriteFile` is two steps with a torn file between them.
**DirectServer** extends it with the process: `Boot`, `Crash`, `Signal`, the select and
the end of `runDirect` (`SeeStop`, `SeeError`, `Shutdown`, `ShutdownReturns`), `Run`
(`Certs`, `Listen`, `Publish`, `Serve`), requests (`Arrive`, `Answer`, and `Deployed`
for the goroutine a deploy leaves behind), and for each viewer the handler and the
reader of its stream (`Open`, `Inspect`, `Sample`, `WriteStats`, `Tick`, `ReadFails`;
`OpenLogs`, `ReadLogs`, `WriteLogs`). `Shutdown` is the look at `s.httpSrv`: if there is none it
returns, and the process lives on until `Exit`, in which time `Run` may publish its server, serve
and take a request. `ShutdownReturns` is the library's promise: connections that were
hijacked do not count, and after 5 seconds it returns anyhow; a server that was shut down serves no more (`Closed`).

## Runs

| Run | Bounds | Shows |
|---|---|---|
| `stack_lock` (StackLock.cfg) | 3 callers, 2 stacks | `LockInv`: one object per name, its flag up exactly while somebody owns the stack. `MutexSpec`: it implements StackMutex. `CallsReturn`: TryLock returns although the owner never ends. |
| `stack_store` (StackStore.cfg) | 3 requests of 6 kinds, 1 stack, 1 crash | `StoreInv`: operations exclude each other, and what a save may rely on half way. `FlaggedEnvExists` (the arguments of a command stay true); `EnvOnlyAfterDelete` and `SavedIsOnDisk` (what failures, crashes and overlapping requests leave on disk); `OwnerUndisturbed`: nobody takes anything from a stack that is owned; `MutexSpec`. |
| `stack_up` (StackUp.cfg) | 5 chunks, a pipe of 2, lines of 2 parts too long, a channel of 2, 1 viewer | `UpInv`: lines in order, once, missing only at the end; events once; the command runs under the lock. `TruthInOrder`: what the viewer is shown. `LockFreed` unless a line was too long. `OutcomeShown`. |
| `deploy_stream` (DeployStream.cfg) | 4 events, a channel of 2, 2 viewers | `StreamInv`: each event once and in order, what was relayed before what waits, and a running deploy is found. `EndedIsComplete`. `DeployEnds` whoever reads. `ViewerEnds`. |
| `edge_client` (EdgeClient.cfg) | 1 request, 2 connections | `EdgeInv`: who writes where, what is lost, with it one writer and one connection. `HeartbeatServes`. `WorkersEnd`, `Reconnects`. |
| `edge_dispatch` (EdgeDispatch.cfg) | every path of both modes with two names, and paths with a segment too many; 2 chunks | `DispatchInv`: one answer, or one numbered stream with one end, in step with the calls. `OkMeansDone`: an ok answer is one of calls that did not fail, and every path that names nothing runs what direct mode runs, or nothing. `CancelledEnds`. |
| `dispatch_containers` (EdgeDispatch_containers.cfg), violation | paths of containers and images | `SameAsDirect` fails: the wrong segment is the ID. |
| `deploy_order` (DeployOrder.cfg) | all graphs over 3 names; all labels nodes of up to 2 entries on one service | `SortInv`, which has the order with dependencies first, `CirclesRefused`, `SortEnds`. `LabelIsSet`: what a deploy reads of a file whose labels were edited. |
| `legacy_compose` (ComposeDeploy.cfg) | 3 requests of 6 kinds, 2 services, toggles that set the label, every failure, 1 restart | `ProjectInv`: the file beside its containers, a removal that removes, an ID that was dealt with never back. `DeployedStays`, `FailedLeavesNoneRunning`. |
| `edit_container` (EditContainer.cfg) | 2 edits, every failure, with `AutoRemove` or not, the other name taken or not | `EditInv`: the container at most once, and how far each edit is. `GoneIsReported`, `EditApplied`. |
| `exec_command` (ExecCommand.cfg) | 3 chunks of 1 or 2 units, 2 in transit, a cap of 3 | `ExecInv`: a result is complete unless it says otherwise. `EndsWithStream`. |
| `direct_server` (DirectServer.cfg) | 3 starts, 2 requests, 1 viewer of either kind | `DirectInv`: a certificate that was presented is kept. `StopIsGraceful`: a stop in time cuts no request that was there when `Shutdown` looked for the server. `StopsOnSignal`. `StreamsEnd`: the goroutines of a stream end each other. |

Why the bounds are enough: three callers let two race for a stack while a third
publishes, uses or frees it, and two stacks show that names do not interfere; three
requests on one stack let a save, an operation and a delete overlap, and the six
kinds have one of each control flow (a save, a deploy with and without a save, one
command, several, a delete). A pipe or a channel of two is full with work still to
come, and has more than one event in it when the end is seen; five chunks fill the
scanner's buffer and the pipe and still leave one to write. Three starts let one
make a pair, one present it and one follow a crash; streams do not meet each
other, so that one is enough; with two requests one is cut and one answered. Two entries
are one before or after the one that is edited, and each service is edited on its
own (`LabelOnNode`), so that one with labels among others shows what any do; the
formula is evaluated for every file a deploy begins with. Two connections give a
handler and a heartbeat of an earlier connection that meets a new one; more give
more of them, and the proofs are for any number. Three names have every kind of circle and a
dependency shared by two services. Output sizes reach the cap exactly, go over it,
and fit again after a chunk that did not.

Symmetry is used for the requests of StackStore, ComposeDeploy and EditContainer,
where no liveness is checked. Deadlock is checked where nothing may stop the
system (StackLock); elsewhere
requests are finite and runs end.

## Fairness

* StackLock: goroutines inside `TryLock` and `Unlock` run on; `LockMutex` is strongly
  fair, as Go's mutex hands itself to a waiter after a millisecond. An
  operation need not end.
* StackUp: the command, the scanner, the operation and the timer run on; the command
  ends, as `docker compose` does. Nobody has to cancel, and nobody need look
  on: that the viewer's handler runs on is the antecedent of `OutcomeShown`.
* DeployStream: only the deploy and the timer are fair, as neither waits for
  anybody. That a viewer's handler runs on is the antecedent of `ViewerEnds`.
* EdgeClient: the loop and the workers run on; dialling succeeds in the end if
  tried for ever (strong), a waiter for `c.mu` gets it (strong), and `select` sees a context
  that stays done (strong, as it picks among ready cases at random). Only writes
  to connections that the agent has closed must return: a write to a peer that
  does not read may block for ever, and `Reconnects` holds all the same. That
  writes return is the antecedent of `WorkersEnd`.
* DeployOrder, EdgeDispatch: the one goroutine runs on; log streams and deploys need
  not end by themselves.
* ExecCommand: goroutine, request and timer run on; the command may run for ever.
* DirectServer: main, `Run` and the goroutines of streams run on, but for writes to a
  viewer: no write has a deadline, so that one to a viewer that is connected and does
  not read may block for ever. Only writes to a viewer that has left return; for logs,
  whose handler is at a write again and again, that the viewer leaves or reads on is an
  antecedent of `StreamsEnd`, beside the end of the container. Nobody need start
  the agent, signal, ask or leave, no request need be answered, and a sample may
  succeed for ever: it alternates with the ticker, so that fairness does not
  make it fail.

## What is proved

TLC checks the instances above; TLAPS proves these for every value of the
constants, under the named assumptions in the modules, which say no more than that
"nobody" is not a caller, that a missing or a torn file is none that was written, that
bounds are naturals, the one on events large enough for those of a stack operation, and that
kinds are known kinds.

* **StackLock_proofs.** `LockInvariant`: `LockInv` is inductive. Exclusion alone is
  not: it needs that every caller inside an operation works on the one published
  object (`PtrPublished`), that the mutex belongs to whoever is between lock and
  unlock (`MutexOwner`), that the flag is up for an owner (`OwnerHeld`) and is
  still down between its test and its set (`TestStillTrue`). `Exclusion` is a conjunct.
  `Refinement`: `SetHeld` is the grant, `TestHeld` of a raised flag the refusal
  (`HeldHasOwner` gives the owner it is refused for), `ClearHeld` the release,
  leaving a refused TryLock forgets it, all else stutters.
* **StackStore_proofs.** `LockInvariant`: the lock table has, for each stack, exactly
  the requests inside an operation on it, at most one. `OperationsExclude` follows.
  `StoreInvariant` adds the files. That an `.env` has its compose file
  (`EnvHasCompose`) and that a save that was answered stays (`SavedStays`) are not
  inductive: a save between its two renames relies on the compose file it has
  renamed, which is there unless a delete is about (`ComposeIsWritten`), and on being
  the only writer for as long as it looks like one, since an arrived request keeps its
  kind and stack (`Roles`, lemma `StillAlone`). `OwnerAlone` is an action property: a
  request that moves while another owns the stack is at a step of a save or refused,
  so that it changes no project and takes away neither the directory nor a file.
  `FlaggedEnv`: only a delete removes an `.env`, and only under the lock.
  `StoreRefinement`: the store uses the lock as StackMutex prescribes, through
  every failure and any number of crashes; a crash is `Restart`.
* **StackUp_proofs.** Of DeployStream: `StreamInvariant`, for any endpoint, any
  number of viewers, any capacity and any length.
  That each event is relayed, lost, dropped or waiting, once and in order, needs that what a reader
  has is older than what is in the channel (`InFront`), and that nobody drains before
  `Done` is closed (`Phases`). `EndedComplete` follows: a viewer is ended only by a drain
  that found the channel empty, after the last event. What appending and taking do to a
  sequence in order stands in for an induction. Neither uses an assumption but DeployStream's own.
  Of the composition: `UpInvariant`, whose inductive part (`UpIInv`) says that scanner and pipe
  hold what was written and not yet emitted, each line once (`RunInv`), where command, operation
  and session are (`UpPhases`), and that what an event says is what the operation has
  come to (`SaidTrue`). That lines are missed only at the end (`LossOnlyAtEnd`)
  compares the output with a selection of it; the proof has it from the sets of the
  lines and their order. `ToldTruth` (`TruthInOrder`): the outcome that a viewer
  is shown is the command's, and comes after every line it is shown.
  `UpImplementsStream`: the session of a stack operation is a DeployStream, each
  step of the operation a step of the session or none.
* **ComposeDeploy_proofs.** `ProjectInvariant`. What is hard is that deploys clean up by
  name: that a deploy's containers are its own (`MadeIsOwned`) holds only since Docker
  refuses a second container of a name, and that a removal is not undone
  (`RemovedIsGone`) only since the ID of a container that is still to be created is in
  nobody's list (`IdsAreFresh`). `Placed` and `Progress` say where a request is and
  which services it has still ahead, `FileIsWritten` that a plain deploy has its file before
  its first container. `DeployStays` and `FailedDeployStops` follow; the latter needs
  `RunningIsMade`, that nothing runs which its deploy does not know it started.
* **Containers_proofs.** Of ExecCommand: `ExecInvariant`, for any sizes, any cap and any
  buffer between the connection and the goroutine. What has been read is always the first
  chunks written and what is in the stream the next ones (`Reading`), so that a
  chunk is kept or cut in its turn; the result is complete unless it says otherwise. The cap
  is on a sum of sizes, a recursive function: that it is one, and that a chunk more adds its
  size, is shown by the least index at which it would not (`LeastIndex`), well-foundedness
  in place of an induction.
  Of EditContainer: `EditInvariant`. At most one container is left of the
  one that is edited because whoever removed it is the only one to create it again
  (`OneOfEach`), which needs that what an edit stops and removes is what it has inspected
  (`Held`): IDs are never given out twice. `GoneReported` is `Waits`: a container that was
  removed by its stop waits for the edit that stopped it, which finds nothing to remove and says so. `EditDone`
  is what a sole edit has made by each of its steps (`Alone`), in which a second edit
  that starts only ever makes the first one not alone (lemma `OnlyMover`).
* **Edge_proofs.** Of EdgeDispatch: `DispatchInvariant`. That a request has one answer, or
  one stream numbered without a gap with one end, needs that the frames which are out
  are the head and the chunks so far, and which calls were made, at each place of the
  handler and while its deploy runs beside it (`InStep`). `ServedAsDirect` (`OkMeansDone`): that an
  answer with ok is one of calls that did not fail follows from what was called before which frame
  (`ServedInv`), and so does that the head of a stack's deploy comes after its files were saved or found.
  The rest goes through the route tables of both modes, entry by entry: every path of
  fixed segments that direct mode has means the same call in both, or is one of stacks or compose
  (`Moved`), for which edge mode finds nothing and runs nothing.
  Of EdgeClient: `EdgeInvariant`. `c.conn` is the newest connection except between
  dial and install, the mutex is held exactly by the writer, only the newest
  connection is open. From it `AnswersReachServer`, `WritersExclude`,
  `ConnectionsExclude`; `HeartbeatsServe` adds that a heartbeat stopped by a failed
  write has written to a connection that is not up, and that its own is not newer.
* **DeployOrder_proofs.** `SortInvariant`: `inStack` is the path of calls, a chain of
  dependencies, and what has been left has its dependencies before it.
  `SortsDependenciesFirst` follows; `RefusesOnlyCircles` as the path from the node
  met again is a circle; `RefusesCircles` since of any set of services in the order,
  the one with the least index depends on none of the set.
  `EveryServiceEdited`, on the labels of the same file: appending, replacing or removing
  the one entry of a key changes what is read of that key alone. The last entry of
  any other key stays its last, which is what counts, through the shift of a removal
  too. `LabelsAreSet` is the run's property, for lists of any length.
* **DirectServer_proofs.** `DirectInvariant`: `CertKept` needs that a pair is made only
  while none was presented (`MadeOnce`), its certificate before its key (`CertFirst`),
  and that `Run` holds what is on disk (`HoldsPair`). `GracefulStop` adds that only an
  ended process has cut requests (`NoneCut`), that there are requests only once `Run` serves, with
  its server published (`ServerKnown`), and that none is under way when `Shutdown` has returned in
  time or has found no server (`NoneLeft`). It says nothing of what comes after the latter: `Run` may
  publish its server then and take a request, which ends with the process (`NoneMissed`).

Containers_proofs and Edge_proofs extend two components each, which share neither variables nor
constants.

Every invariant of the runs, and every action property and refinement, is stated by a theorem.
Only model-checked: liveness under fairness, which is out of this prover's reach, as is
ENABLED (the leads-to properties of the runs), and the one property that fails, of the run `dispatch_containers`.
The library's induction theorems take an operator as a parameter, which the provers
cannot instantiate; where a proof is about all lengths it uses the least
counterexample, or an invariant of the machine. What a recursive definition computes for
every input is proved for the sum of ExecCommand only; the sort is a state
machine for that reason. No module declares a RECURSIVE operator.

## Where the code and what it says differ

One is a run of its own (`dispatch_containers`). The others are
stated in the modules as definitions marked "Not kept", which no run checks; each has
been seen to fail under TLC. Properties that runs do check name their exceptions, and
fail in the bounds of their runs when one is left out.

| Definition | What happens |
|---|---|
| `TimeoutAnswers` (ExecCommand) | `docker/exec.go:145` waits for the end of the stream after a timeout; 130-134 says the response is not blocked. |
| `ExitStatusOfFinished` (ExecCommand) | An inspection that fails (119-126) leaves exit code 0. |
| `SameAsDirect` (EdgeDispatch) | `edge/client.go:151` takes segment 3, which is right only with `/agent` in front. `edge/stacks.go:40` drops `stacks`, so that no stack action matches; `/compose/stop` (255, 270) is not the path of `src/README.md:86`. |
| `FramesAreResponses` (EdgeDispatch) | Log chunks are put into `json.RawMessage` (`client.go:426`, 541) although they are not JSON: the frame cannot be encoded. |
| `EdgeStreamEnds` (DeployStream) | `edge/client.go:513` ranges over a channel that is never closed: no end marker. `CancelledEnds` excepts these streams. |
| `EnrollFirst` (EdgeClient) | The connection is published (70) before the enroll message is written (83), without the mutex: a leftover handler or heartbeat may write first or at the same time. |
| `StopEndsRun` (EdgeClient) | `ReadMessage` (90) does not look at the context. (`runEdge` in `src/main.go` does not wait for `Run`, so the process ends nevertheless.) |
| `OneAddSucceeds` (StackStore) | Two adds pass the test at `stack_store.go:213`, and both succeed. |
| `PairOfOneSave` (StackStore) | Two saves rename `compose.yaml` and `.env` (226, 229) in turn: one file of each stays. |
| `DrainedAtReturn` (ComposeRun) | `cmd.Wait` (`composecli.go:106`) closes a pipe that still has output. |
| `OutcomeOffered` (StackUp) | A busy stack (`bridge.go:45`) emits nothing, and a full channel (`deploy_stream.go:78`) drops the last events, the outcome among them. |
| `ViewerLeaves` (StackUp) | Nothing closes `Done` of a stack deploy (`server/stacks.go:226-235`): the viewer's handler waits on. |
| `EndMeansDone` (EdgeDispatch) | A streamed deploy is answered with 200 before it runs and its error is dropped (`edge/client.go:495`, `edge/stacks.go:256`); samples and logs that fail end their stream with 200 (`client.go:430`, 458). |
| `NoneMissed` (DirectServer) | `Shutdown` finds no server (`server.go:89`) while `Run` is about to publish it: a request that it takes before the process has ended is cut. |
| `LogsEnd` (DirectServer) | A write to a viewer that is connected and does not read (`routes.go:220`) has no deadline: the handler stays although the container has stopped. |
| `LogsLeave` (DirectServer) | `handleContainerLogs` (`routes.go:216-225`) does not notice that its viewer has left. |
| `DeploysFinish` (DirectServer) | A graceful stop cuts the background deploys (`routes.go:322`, `server/stacks.go:226`). |
| `CertUsable` (DirectServer) | After a crash between the writes (`server.go:152`, 155) no start has a usable pair. |
| `DuplicatesAreSet` (ComposeLabels) | Of a key twice in a list the first is edited (`compose_labels.go:143`), the last is read (`compose.go:245`). |
| `EveryServiceIsSet` (ComposeLabels) | Aliased labels are refused, aliased services skipped, inherited labels hidden or not removed. |
| `LockFreed` without `Stuck` | A line beyond 1 MiB ends the scan (122); the child blocks, and the stack's lock stays taken. |
| `ToggleTakesEffect` (ComposeDeploy) | The redeploy after a label change (`server/apps.go:62`) finds the names taken. |
| `FailedLeavesNone` (ComposeDeploy) | A container that was created but did not start is not taken back (`deploy_stream.go:168`). |
| `RemovedIsGone` without `refused` | Errors of removal are ignored (`compose.go:486`). |
| `UneditedKept` (EditContainer) | What `recreateContainer` does not copy (`containers.go:383-413`) gets its default. |
| `AnsweredEditStays` (EditContainer) | An edit recreates from an inspection (324) that another edit has overtaken. |
| `FailedEditKeepsContainer` (EditContainer) | The old container is gone when the new one cannot be created (463), or, with `AutoRemove`, already when it is to be removed after its stop (453). |

## Plan

Done, in this order: StackMutex, StackLock and its refinement; StackStore over it;
ComposeRun and DeployStream; EdgeClient; ExecCommand; DeployOrder; ComposeDeploy;
EditContainer; EdgeDispatch; StackUp, which composes ComposeRun with DeployStream
under the lock; TLSCerts and DirectServer; ComposeLabels; proofs of StackLock,
StackStore with its files, EdgeClient, DeployOrder and ComposeLabels, DirectServer,
ComposeDeploy, EditContainer, DeployStream with StackUp over it, ExecCommand, EdgeDispatch.

To come, extending the models:

1. `ListApps`: which projects two lists taken at different moments give.
2. The stack store and the legacy API on one directory and one project: neither
   looks at the other (`docker/compose.go:419` against `stack_store.go:194-233`), and
   `RemoveCompose` (`compose.go:489`) removes the directory without the stack's lock.

Not modelled: one-call operations on containers and images, and file transfer, since
the agent keeps nothing between such calls; host statistics, which are floating-point
reads of `/proc`; the token comparison and the enroll response, which are stateless;
configuration, read once; the parsing of ports, volumes and environment, abstracted to
a creation that may fail; deploy ids and the wording of events; container names, which
are model values, so that names that collide when joined by an underscore
(`compose.go:394`) are not distinguished; labels of a compose file that replace the
agent's own (`compose.go:295-298`), with which a container leaves its project; several agents on one daemon.
Further, a compose file that was cut off and still parses, with fewer services or other values (a
torn file has none here); a look for the certificate that fails for another reason than that
there is none, after which the pair is made anew (`server.go:106`); and an inspection of an exec
before the daemon says that it runs (`exec.go:121-124`): that the daemon says so from the moment
the stream is attached is an assumption about it.
