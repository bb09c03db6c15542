------------------------------- MODULE StackUp -------------------------------
(***************************************************************************)
(* One operation of a stack from its lock to its last event: the command   *)
(* of ComposeRun, run under the lock of the stack, and with a session its  *)
(* lines and its outcome sent into the channel of DeployStream.            *)
(*   session = TRUE    the deploy of handleDeployStack: StackUpStreamed in *)
(*                     a goroutine, which nobody cancels                   *)
(*   session = FALSE   stackRun in a request, whose context is cancelled   *)
(*                     when the client goes away                           *)
(* Each step of the command or of the stream is the step of its module.    *)
(* What other operations do with the lock is StackLock's and StackStore's: *)
(* here they have the stack or not when TryLock asks.                      *)
(***************************************************************************)
EXTENDS ComposeRun, DeployStream

VARIABLES up,      \* the operation's goroutine
          owner,   \* who holds the lock of the stack
          status,  \* what cmd.Wait or cmd.Start said of the command
          said     \* history: what each event of the session says

\* An operation says that it begins, how it ends, and "done".
ASSUME EventsAssumption == MaxEvents >= MaxChunks + 3

run    == runVars
stream == <<endpoint, count, deploy, done, events, dropped, registered,
            pc, connected, delivered, lost>>
op     == <<up, owner, status>>
upVars == <<run, stream, op, said>>

\* What an event says: the command begins, a line of its output, how it ended,
\* and "done" from the handler.
Says   == [what : {"running", "line", "error", "up", "done"}, line : 0..MaxChunks]
Places == {"lock", "announce", "start", "run", "tell", "unlock", "done",
           "leave", "ended"}

UpTypeOK == /\ RunTypeOK /\ TypeOK
            /\ up \in Places
            /\ owner \in {"nobody", "this", "other"}
            /\ status \in {"none", "ok", "failed"}
            /\ said \in Seq(Says) /\ Len(said) = count

UpInit == /\ RunInit /\ Init /\ endpoint = "stack"
          /\ up = "lock"
          /\ owner \in {"nobody", "other"}
          /\ status = "none"
          /\ said = <<>>

Step(p, q) == up = p /\ up' = q

\* session.Emit
Say(what, line) == /\ said' = Append(said, [what |-> what, line |-> line])
                   /\ Emit

-----------------------------------------------------------------------------
(* The operation. *)

\* TryLock: a busy stack is an error, and no event tells a viewer.
TryLock == /\ \/ /\ owner = "nobody" /\ owner' = "this"
                 /\ Step("lock", IF session THEN "announce" ELSE "start")
              \/ owner # "nobody" /\ Step("lock", "leave") /\ UNCHANGED owner
           /\ UNCHANGED <<run, stream, status, said>>

Announce == /\ Step("announce", "start")
            /\ Say("running", 0)
            /\ UNCHANGED <<run, owner, status>>

\* cmd.Start: the goroutine reads from now on, or the command fails.
StartCommand ==
    /\ \/ Step("start", "run") /\ UNCHANGED status
       \/ Step("start", IF session THEN "tell" ELSE "unlock") /\ status' = "failed"
    /\ UNCHANGED <<run, stream, owner, said>>

\* The command writes, and ends in one way or the other; the context of a
\* request may end it.
Command == /\ up = "run"
           /\ \/ (\E k \in Kinds : Write(k)) /\ UNCHANGED status
              \/ Exit /\ status' \in {"ok", "failed"}
           /\ UNCHANGED <<stream, up, owner, said>>

Cancel == /\ up = "run" /\ ~session
          /\ Kill
          /\ status' = "failed"
          /\ UNCHANGED <<stream, up, owner, said>>

\* The goroutine has been launched.
Started == up = "run" \/ ~alive

\* Reading the pipe, and giving up on a line.
ReadPipe == /\ Started
            /\ (\E n \in 1..PipeCap : Read(n)) \/ LineTooLong
            /\ UNCHANGED <<stream, op, said>>

\* A line that is not blank becomes an event.
EmitLine == /\ Started
            /\ ScanLine \/ EndOfOutput
            /\ UNCHANGED op
            /\ IF emitted' = emitted THEN UNCHANGED <<stream, said>>
                                     ELSE Say("line", Last(emitted'))

WaitForCommand == /\ up = "run" /\ Wait
                  /\ UNCHANGED <<stream, op, said>>

\* Mutant: run returns without waiting for the goroutine.
ReturnAtOnce == /\ JoinAtOnce
                /\ Step("run", IF session THEN "tell" ELSE "unlock")
                /\ UNCHANGED <<stream, owner, status, said>>

\* run returns.
Return == /\ Join
          /\ Step("run", IF session THEN "tell" ELSE "unlock")
          /\ UNCHANGED <<stream, owner, status, said>>

\* Mutant: a failure is not told.
TellSuccess == /\ Step("tell", "unlock")
               /\ IF status = "ok" THEN Say("up", 0) ELSE UNCHANGED <<stream, said>>
               /\ UNCHANGED <<run, owner, status>>

Tell == /\ Step("tell", "unlock")
        /\ Say(IF status = "ok" THEN "up" ELSE "error", 0)
        /\ UNCHANGED <<run, owner, status>>

Unlock == /\ Step("unlock", IF session /\ status = "ok" THEN "done" ELSE "leave")
          /\ owner' = "nobody"
          /\ UNCHANGED <<run, stream, status, said>>

\* The handler's own event, when StackUpStreamed returned no error.
SayDone == /\ Step("done", "leave")
           /\ Say("done", 0)
           /\ UNCHANGED <<run, owner, status>>

\* The goroutine ends: a session has 30 seconds from now.
Leave == /\ Step("leave", "ended")
         /\ Finish
         /\ UNCHANGED <<run, owner, status, said>>

Operation == \/ TryLock \/ Announce \/ StartCommand
             \/ WaitForCommand \/ Return \/ Tell \/ Unlock \/ SayDone \/ Leave
Scanner   == ReadPipe \/ EmitLine

-----------------------------------------------------------------------------
(* The session and its viewers. *)

Forget == /\ session
          /\ RemoveSession
          /\ UNCHANGED <<run, op, said>>

Look(v) == /\ session
           /\ Relay(v)
           /\ UNCHANGED <<run, op, said>>

ComeOrGo(v) == /\ session
               /\ Attach(v) \/ Disconnect(v)
               /\ UNCHANGED <<run, op, said>>

UpNext == \/ Operation \/ Command \/ Cancel \/ Scanner \/ Forget
          \/ \E v \in Viewers : Look(v) \/ ComeOrGo(v)

UpSpec == UpInit /\ [][UpNext]_upVars

\* The goroutines and the command go on; nobody need look on or cancel.
UpFairSpec == /\ UpSpec
              /\ WF_upVars(Operation) /\ WF_upVars(Command) /\ WF_upVars(Scanner)
              /\ WF_upVars(Forget)

-----------------------------------------------------------------------------
(***************************************************************************)
(* Properties                                                              *)
(***************************************************************************)
\* The process of an operation runs only while the operation owns the stack,
\* from the start of the command until it has ended (bridge.go:45-51).
RunsUnderLock == up = "run" /\ alive => owner = "this"

\* The operation owns the stack between its two ends.  Nothing is read any more
\* when run has returned, and by then it is known how the command ended.
UpPhases == /\ owner = "this" <=> up \in {"announce", "start", "run", "tell", "unlock"}
            /\ up # "run" => alive \/ reader = "stopped"
            /\ ~alive \/ up \in {"tell", "unlock"} => status # "none"
            /\ up = "done" => status = "ok"
            /\ up \in {"lock", "announce", "start", "run", "tell"} =>
                 \A i \in 1..Len(said) : said[i].what \in {"running", "line"}

\* What the session says is so, and stays so: TruthInOrder of all its events.
SaidTrue ==
    \A i \in 1..Len(said) :
        /\ said[i].what = "line" =>
             /\ said[i].line \in Shown
             /\ \A j \in 1..(i - 1) : /\ said[j].what \in {"running", "line"}
                                      /\ said[j].line < said[i].line
        /\ said[i].what # "line" => said[i].line = 0
        /\ said[i].what = "error" => status = "failed"
        /\ said[i].what \in {"up", "done"} => status = "ok"
        /\ said[i].what = "done" => owner # "this"

\* The inductive invariant.
UpIInv == UpTypeOK /\ RunInv /\ StreamInv /\ UpPhases /\ SaidTrue

\* A composed operation keeps what its parts promise, the lock, and what it
\* says.
UpInv == UpIInv /\ LossOnlyAtEnd /\ RunsUnderLock

Told(v) == [i \in 1..Len(delivered[v]) |-> said[delivered[v][i]]]

\* What a viewer is shown is true and in order, whatever it misses: lines of
\* the command as the command wrote them, none after the outcome, the outcome
\* the command had, and "done" only when the stack is free for the next
\* operation (composecli.go:106-107, bridge.go:51-55, server/stacks.go:228).
TruthInOrder ==
    \A v \in Viewers : \A i \in 1..Len(delivered[v]) :
        LET told == Told(v)
            e    == told[i]
        IN  /\ e.what = "line" =>
                 /\ e.line \in Lines
                 /\ \A j \in 1..(i - 1) : /\ told[j].what \in {"running", "line"}
                                          /\ told[j].line < e.line
            /\ e.what = "error" => status = "failed"
            /\ e.what \in {"up", "done"} => status = "ok"
            /\ e.what = "done" => owner # "this"

\* The command waits on a pipe that nobody reads any more.
Stuck == /\ up = "run" /\ alive /\ left > 0
         /\ reader = "stopped" /\ Len(pipe) = PipeCap

\* The stack is given back, also when the command fails, cannot be started or
\* is killed with output in the pipe, unless a line was too long for the
\* scanner and the command has more to write than the pipe takes ("to avoid
\* pipe-buffer deadlock", composecli.go:99).
LockFreed == owner = "this" ~> owner # "this" \/ Stuck

Outcomes == {n \in 1..count : said[n].what \in {"up", "error"}}

\* A viewer that looks on is shown the outcome of the operation, unless the
\* channel was full, the viewer's connection fails, the stack was busy or the
\* command is stuck; another viewer of the session may be shown it instead.
OutcomeShown ==
    (\A v \in Viewers : WF_upVars(Look(v)))
    => \A v \in Viewers :
         pc[v] = "relay" ~>
       \/ v \notin connected \/ Stuck \/ (up = "ended" /\ said = <<>>)
       \/ Outcomes # {} /\
          \A n \in Outcomes : n \in dropped \cup lost
                                 \cup UNION {Members(delivered[w]) : w \in Viewers}

\* Not kept: "progress is streamed over the stack deploy WS"
\* (server/stacks.go:196-197): a session that is over has shown, or still
\* holds, how its operation ended.  A busy stack says nothing, and what a full
\* channel drops are the last events.
OutcomeOffered == session /\ up = "ended" => Outcomes # {} /\ Outcomes \cap dropped = {}

\* Not kept: a viewer's stream ends after the operation.  Nothing closes Done
\* of a stack deploy (server/stacks.go:226-235), so the handler waits on.
ViewerLeaves == \A v \in Viewers : pc[v] = "relay" ~> pc[v] = "ended"
=============================================================================
