----------------------------- MODULE ExecCommand -----------------------------
(***************************************************************************)
(* A one-shot command in a container: a goroutine demultiplexes the        *)
(* attached stream into two buffers with a common cap, while the request   *)
(* polls the state of the exec until it has ended or a deadline has        *)
(* passed, and then waits for the goroutine.                               *)
(*                                                                         *)
(* Output is a sequence of numbered chunks, each at most what one read     *)
(* takes; a chunk that an error interrupts is two.                         *)
(***************************************************************************)
EXTENDS Integers, Sequences

CONSTANTS MaxChunks,  \* bound on the chunks the command writes
          Sizes,      \* sizes of a chunk
          StreamCap,  \* chunks in transit; the command blocks when it is full
          MaxOutput   \* ExecMaxOutput, 512 KiB in the code

ASSUME BoundsAssumption == /\ MaxChunks \in Nat /\ StreamCap \in Nat \ {0}
                           /\ MaxOutput \in Nat /\ Sizes \subseteq Nat \ {0}

VARIABLES proc,      \* the command: "running", "exited"
          code,      \* its exit code, once it has exited
          written,   \* history: the chunks it wrote
          stream,    \* the attached stream
          cut,       \* the connection to the daemon broke
          reader,    \* the goroutine: "read" or, readDone closed, "stopped"
          captured,  \* outBuf and errBuf
          truncated,
          place,     \* the request
          expired,   \* the deadline timer has fired
          timedOut, exitCode,
          failed     \* history: an ExecInspect returned an error

command  == <<proc, code, written>>
buffers  == <<reader, captured, truncated>>
polling  == <<place, timedOut, exitCode, failed>>
execVars == <<command, stream, cut, buffers, polling, expired>>

Pipes  == {"out", "err"}
Codes  == {0, 1}
Chunks == [n : 1..MaxChunks, pipe : Pipes, size : Sizes]

\* The sizes of the first k chunks of s, and of all of them.
Sum(s)   == LET sum[k \in 0..Len(s)] == IF k = 0 THEN 0 ELSE sum[k - 1] + s[k].size IN sum
Total(s) == Sum(s)[Len(s)]
Captured == Total(captured["out"]) + Total(captured["err"])

ExecTypeOK == /\ proc \in {"running", "exited"} /\ code \in Codes
              /\ written \in Seq(Chunks)
              /\ stream \in Seq(Chunks) /\ Len(stream) <= StreamCap
              /\ cut \in BOOLEAN
              /\ reader \in {"read", "stopped"}
              /\ captured \in [Pipes -> Seq(Chunks)] /\ Captured <= MaxOutput
              /\ truncated \in BOOLEAN
              /\ place \in {"inspect", "deadline", "sleep", "join", "returned"}
              /\ expired \in BOOLEAN /\ timedOut \in BOOLEAN
              /\ exitCode \in Codes \cup {-1}
              /\ failed \in BOOLEAN

\* ExecCreate and ExecAttach have succeeded; the goroutine is launched.
ExecInit == /\ proc = "running" /\ code = 0 /\ written = <<>>
            /\ stream = <<>> /\ cut = FALSE
            /\ reader = "read"
            /\ captured = [p \in Pipes |-> <<>>]
            /\ truncated = FALSE
            /\ place = "inspect"
            /\ expired = FALSE /\ timedOut = FALSE /\ exitCode = 0
            /\ failed = FALSE

-----------------------------------------------------------------------------
(* The command and the daemon. *)

\* Output of a connection that broke goes nowhere.
Write(p, size) ==
    /\ proc = "running" /\ Len(written) < MaxChunks
    /\ cut \/ Len(stream) < StreamCap
    /\ LET c == [n |-> Len(written) + 1, pipe |-> p, size |-> size]
       IN  /\ written' = Append(written, c)
           /\ stream' = IF cut THEN stream ELSE Append(stream, c)
    /\ UNCHANGED <<proc, code, cut, buffers, polling, expired>>

Exit(c) == /\ proc = "running"
           /\ proc' = "exited" /\ code' = c
           /\ UNCHANGED <<written, stream, cut, buffers, polling, expired>>

Cut == /\ ~cut
       /\ cut' = TRUE
       /\ UNCHANGED <<command, stream, buffers, polling, expired>>

-----------------------------------------------------------------------------
(* The goroutine. *)

\* A chunk is kept if both buffers together stay within the cap, and dropped
\* otherwise; the stream is read on in either case.
Read ==
    /\ reader = "read" /\ stream # <<>>
    /\ stream' = Tail(stream)
    /\ LET c == Head(stream)
       IN  IF Captured + c.size <= MaxOutput
             THEN captured' = [captured EXCEPT ![c.pipe] = Append(@, c)] /\ UNCHANGED truncated
             ELSE truncated' = TRUE /\ UNCHANGED captured
    /\ UNCHANGED <<command, cut, reader, polling, expired>>

\* The end of the stream, or an error.
ReadEnds == /\ reader = "read"
            /\ cut \/ (proc = "exited" /\ stream = <<>>)
            /\ reader' = "stopped"
            /\ UNCHANGED <<command, stream, cut, captured, truncated, polling, expired>>

-----------------------------------------------------------------------------
(* The request. *)

Move(from, to) == place = from /\ place' = to

\* ExecInspect: an error ends the polling like an exit does, but leaves
\* exitCode at its zero value.
InspectExec(ok) ==
        /\ IF ok /\ proc = "running"
             THEN Move("inspect", "deadline") /\ UNCHANGED <<exitCode, failed>>
             ELSE /\ Move("inspect", "join")
                  /\ exitCode' = IF ok THEN code ELSE exitCode
                  /\ failed' = ~ok
        /\ UNCHANGED <<command, stream, cut, buffers, timedOut, expired>>

\* Mutant: `break` leaves the select only.
DeadlineKeepsPolling ==
    /\ Move("deadline", "sleep")
    /\ timedOut' = (timedOut \/ expired)
    /\ exitCode' = IF expired THEN -1 ELSE exitCode
    /\ UNCHANGED <<command, stream, cut, buffers, failed, expired>>

\* select with a default: the deadline ends the polling.
Deadline ==
    /\ Move("deadline", IF expired THEN "join" ELSE "sleep")
    /\ timedOut' = expired
    /\ exitCode' = IF expired THEN -1 ELSE exitCode
    /\ UNCHANGED <<command, stream, cut, buffers, failed, expired>>

Sleep == /\ Move("sleep", "inspect")
         /\ UNCHANGED <<command, stream, cut, buffers, timedOut, exitCode, failed, expired>>

\* Mutant: the result is built while the goroutine may still read.
JoinAtOnce == /\ Move("join", "returned")
              /\ UNCHANGED <<command, stream, cut, buffers, timedOut, exitCode,
                             failed, expired>>

\* <-readDone, then the result and the deferred close of the connection.
Join == /\ reader = "stopped"
        /\ Move("join", "returned")
        /\ UNCHANGED <<command, stream, cut, buffers, timedOut, exitCode, failed, expired>>

Expire == /\ ~expired
          /\ expired' = TRUE
          /\ UNCHANGED <<command, stream, cut, buffers, polling>>

Request == (\E ok \in BOOLEAN : InspectExec(ok)) \/ Deadline \/ Sleep \/ Join
Reader  == Read \/ ReadEnds

ExecNext == \/ \E p \in Pipes, s \in Sizes : Write(p, s)
            \/ \E c \in Codes : Exit(c)
            \/ Cut \/ Reader \/ Request \/ Expire

ExecSpec == ExecInit /\ [][ExecNext]_execVars

\* The goroutine, the request and the timer go on; the command may run for
\* ever and the daemon need not fail.
ExecFairSpec == ExecSpec /\ WF_execVars(Reader) /\ WF_execVars(Request) /\ WF_execVars(Expire)

-----------------------------------------------------------------------------
(***************************************************************************)
(* Properties                                                              *)
(***************************************************************************)
\* The chunks of p among the first k written, and what is kept of them.
From(p, k)     == {written[i] : i \in {i \in 1..k : written[i].pipe = p}}
Kept(p)        == {captured[p][i] : i \in 1..Len(captured[p])}
KeptInOrder(p) == \A i, j \in 1..Len(captured[p]) : i < j => captured[p][i].n < captured[p][j].n

\* A result that says nothing of a timeout or of truncation holds everything
\* the command wrote, each stream in order, and its exit code, unless the
\* daemon failed to answer: a command that has exited is not reported before
\* its output has been read (exec.go:81-112 against 120-145).
ResultComplete ==
    place = "returned" /\ ~truncated /\ ~cut
    => /\ \A p \in Pipes : Kept(p) = From(p, Len(written)) /\ KeptInOrder(p)
       /\ ~timedOut /\ ~failed => exitCode = code

\* Truncated is never set for output within the cap (exec.go:101-105).
TruncatedIsTooMuch == truncated => Total(written) > MaxOutput

\* The first k chunks have been read, and the stream has the next ones, all
\* there are unless the connection broke.
ReadUpTo(k) ==
    /\ k + Len(stream) <= Len(written)
    /\ ~cut => k + Len(stream) = Len(written)
    /\ \A i \in 1..Len(stream) : stream[i] = written[k + i]
    /\ Captured <= Sum(written)[k]
    /\ \A p \in Pipes : KeptInOrder(p) /\ Kept(p) \subseteq From(p, k)
    /\ ~truncated => \A p \in Pipes : From(p, k) \subseteq Kept(p)

\* When the goroutine stops and the request returns.
Ended ==
    /\ reader = "stopped" => cut \/ (proc = "exited" /\ stream = <<>>)
    /\ place = "returned" => reader = "stopped"
    /\ place \in {"inspect", "deadline", "sleep"} => ~timedOut /\ ~failed
    /\ place \in {"join", "returned"} /\ ~timedOut /\ ~failed =>
            proc = "exited" /\ exitCode = code

\* The inductive invariant.
ExecIInv == /\ ExecTypeOK /\ TruncatedIsTooMuch /\ Ended
            /\ \A i \in 1..Len(written) : written[i].n = i
            /\ \E k \in 0..Len(written) : ReadUpTo(k)

\* What an exec keeps: the cap on both buffers (in TypeOK), and an honest result.
ExecInv == ExecIInv /\ ResultComplete

\* The request ends once the command has exited or the connection broke:
\* output beyond the cap is read on, and the deadline ends the polling.
EndsWithStream == proc = "exited" \/ cut ~> place = "returned"

\* Not kept: "without a cap a hung command [...] would pin the HTTP request"
\* (exec.go:13-15), "the HTTP handler's response is not blocked" (134), that
\* is, a request that timed out is answered.
TimeoutAnswers == timedOut ~> place = "returned"

\* Not kept: "ExecResult carries the captured output and exit status of a
\* finished exec" (exec.go:32).  An inspection that fails leaves 0.
ExitStatusOfFinished ==
    place = "returned" /\ ~timedOut => proc = "exited" /\ exitCode = code
=============================================================================
