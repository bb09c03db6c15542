----------------------------- MODULE ComposeRun -----------------------------
(***************************************************************************)
(* One `docker compose` command as internal/composecli runs it: the child  *)
(* process writes into a pipe of bounded capacity, a goroutine scans the   *)
(* pipe into lines and emits them to the deploy session, and run waits for *)
(* the process, closes the pipe and joins the goroutine.                   *)
(*                                                                         *)
(* Output is a sequence of chunks: "text" ends a line, "blank" is a line   *)
(* of white space, "part" is a piece of a line that goes on.  Lines are    *)
(* numbered as the process writes them.  StackUp starts the command, puts  *)
(* these steps together and hands the lines on.                            *)
(***************************************************************************)
EXTENDS Naturals, Sequences

CONSTANTS MaxChunks,  \* bound on what the process writes
          PipeCap,    \* capacity of the pipe, in chunks
          LineMax     \* the scanner gives up on a line of this many parts

ASSUME RunAssumption == /\ MaxChunks \in Nat
                        /\ PipeCap \in Nat \ {0}
                        /\ LineMax \in Nat \ {0}

VARIABLES session,   \* there is a session to stream into (else nil)
          left,      \* chunks the process has still to write
          written,   \* history: the chunks it wrote
          alive,     \* the process runs
          pipe,      \* chunks in the pipe
          open,      \* our read end of the pipe is open
          reader,    \* the goroutine: "scan" or, scanDone closed, "stopped"
          buffer,    \* chunks it has read and not yet consumed
          emitted,   \* history: numbers of the lines it emitted
          phase      \* run: "wait", "join", "returned"

process == <<left, written, alive>>
scan    == <<reader, buffer, emitted>>
runVars == <<session, process, pipe, open, scan, phase>>

Kinds  == {"text", "blank", "part"}
Chunks == [line : 1..MaxChunks, kind : Kinds]

RunTypeOK == /\ session \in BOOLEAN
             /\ left \in 0..MaxChunks
             /\ written \in Seq(Chunks)
             /\ alive \in BOOLEAN
             /\ pipe \in Seq(Chunks) /\ Len(pipe) <= PipeCap
             /\ open \in BOOLEAN
             /\ reader \in {"scan", "stopped"}
             /\ buffer \in Seq(Chunks)
             /\ emitted \in Seq(1..MaxChunks)
             /\ phase \in {"wait", "join", "returned"}

\* cmd.Start has succeeded and the goroutine is launched.
RunInit == /\ session \in BOOLEAN
           /\ left \in 0..MaxChunks
           /\ written = <<>>
           /\ alive = TRUE
           /\ pipe = <<>>
           /\ open = TRUE
           /\ reader = "scan"
           /\ buffer = <<>>
           /\ emitted = <<>>
           /\ phase = "wait"

-----------------------------------------------------------------------------
(* The child process. *)

Last(s) == s[Len(s)]

\* The line the next chunk belongs to.
Line == IF written = <<>> THEN 1
        ELSE IF Last(written).kind = "part" THEN Last(written).line
        ELSE Last(written).line + 1
MidLine == written # <<>> /\ Last(written).kind = "part"

\* write(2) blocks while the pipe is full.
Write(k) == /\ alive /\ left > 0 /\ Len(pipe) < PipeCap
            /\ k = "blank" => ~MidLine
            /\ LET c == [line |-> Line, kind |-> k]
               IN  pipe' = Append(pipe, c) /\ written' = Append(written, c)
            /\ left' = left - 1
            /\ UNCHANGED <<session, alive, open, scan, phase>>

Exit == /\ alive /\ left = 0
        /\ alive' = FALSE
        /\ UNCHANGED <<session, left, written, pipe, open, scan, phase>>

\* The context is cancelled: exec.CommandContext kills the process.
Kill == /\ alive
        /\ alive' = FALSE
        /\ UNCHANGED <<session, left, written, pipe, open, scan, phase>>

-----------------------------------------------------------------------------
(* streamLines, or io.Copy(io.Discard) without a session. *)

HasLine == \E i \in 1..Len(buffer) : buffer[i].kind # "part"

\* A read takes some of what is in the pipe; io.Copy throws it away.
Read(n) == /\ reader = "scan" /\ open /\ ~HasLine
           /\ n \in 1..Len(pipe)
           /\ Len(buffer) + n <= LineMax \/ ~session
           /\ pipe' = SubSeq(pipe, n + 1, Len(pipe))
           /\ buffer' = IF session THEN buffer \o SubSeq(pipe, 1, n) ELSE <<>>
           /\ UNCHANGED <<session, process, open, reader, emitted, phase>>

\* Mutant: only the first line of what a read returned is looked at.
ScanFirstLine == /\ reader = "scan" /\ HasLine
                 /\ LET i == CHOOSE i \in 1..Len(buffer) :
                               /\ buffer[i].kind # "part"
                               /\ \A j \in 1..(i - 1) : buffer[j].kind = "part"
                    IN  emitted' = IF buffer[i].kind = "blank" THEN emitted
                                   ELSE Append(emitted, buffer[i].line)
                 /\ buffer' = <<>>
                 /\ UNCHANGED <<session, process, pipe, open, reader, phase>>

\* scanner.Scan returns a line: it is emitted unless it is blank.
ScanLine == /\ reader = "scan" /\ HasLine
            /\ LET i == CHOOSE i \in 1..Len(buffer) :
                          /\ buffer[i].kind # "part"
                          /\ \A j \in 1..(i - 1) : buffer[j].kind = "part"
               IN  /\ buffer' = SubSeq(buffer, i + 1, Len(buffer))
                   /\ emitted' = IF buffer[i].kind = "blank" THEN emitted
                                 ELSE Append(emitted, buffer[i].line)
            /\ UNCHANGED <<session, process, pipe, open, reader, phase>>

\* The buffer is full of one line: Scan returns false with ErrTooLong, and
\* nobody reads the pipe any more.
LineTooLong == /\ reader = "scan" /\ ~HasLine /\ Len(buffer) >= LineMax
               /\ reader' = "stopped"
               /\ UNCHANGED <<session, process, pipe, open, buffer, emitted, phase>>

\* Mutant: only a drained pipe ends the scan, not a closed one.
EndWhenDrained == /\ reader = "scan" /\ ~HasLine
                  /\ ~alive /\ pipe = <<>>
                  /\ reader' = "stopped"
                  /\ buffer' = <<>>
                  /\ emitted' = IF buffer = <<>> THEN emitted
                                ELSE Append(emitted, buffer[1].line)
                  /\ UNCHANGED <<session, process, pipe, open, phase>>

\* The pipe is at its end, or was closed under the reader: what is left of an
\* unfinished line is a last line.
EndOfOutput == /\ reader = "scan" /\ ~HasLine
               /\ ~open \/ (~alive /\ pipe = <<>>)
               /\ reader' = "stopped"
               /\ buffer' = <<>>
               /\ emitted' = IF buffer = <<>> THEN emitted
                             ELSE Append(emitted, buffer[1].line)
               /\ UNCHANGED <<session, process, pipe, open, phase>>

-----------------------------------------------------------------------------
(* run *)

\* cmd.Wait returns when the process has ended, and closes the read end.
Wait == /\ phase = "wait" /\ ~alive
        /\ phase' = "join"
        /\ open' = FALSE
        /\ UNCHANGED <<session, process, pipe, scan>>

\* Mutant: run does not wait for the goroutine.
JoinAtOnce == /\ phase = "join"
              /\ phase' = "returned"
              /\ UNCHANGED <<session, process, pipe, open, scan>>

\* <-scanDone
Join == /\ phase = "join" /\ reader = "stopped"
        /\ phase' = "returned"
        /\ UNCHANGED <<session, process, pipe, open, scan>>

-----------------------------------------------------------------------------
(***************************************************************************)
(* Properties                                                              *)
(***************************************************************************)
\* The non-blank lines begun in the first n chunks of the process, in all of
\* them, and the lines emitted.
LinesIn(n) == {written[i].line : i \in {i \in 1..n : written[i].kind # "blank"}}
Lines == LinesIn(Len(written))
Shown == {emitted[i] : i \in 1..Len(emitted)}

\* Whatever the timing of the pipe, of its closing and of a kill, the session
\* is given the process's non-blank lines in order, each once, and can only
\* miss lines at the end (composecli.go:115-129).
LossOnlyAtEnd ==
    /\ \A i, j \in 1..Len(emitted) : i < j => emitted[i] < emitted[j]
    /\ Shown \subseteq Lines
    /\ \A m \in Shown, n \in Lines : n < m => n \in Shown

\* The process numbers its lines upwards, and the pieces of a line alike.
Numbered ==
    /\ Len(written) + left <= MaxChunks
    /\ \A i \in 1..Len(written) : written[i].line <= i
    /\ \A i, j \in 1..Len(written) : i < j =>
         IF \A k \in i..(j - 1) : written[k].kind = "part"
           THEN written[i].line = written[j].line /\ written[j].kind # "blank"
           ELSE written[i].line < written[j].line

\* The chunks the scan has left behind; then come the buffer and the pipe.
Taken == Len(written) - (Len(pipe) + Len(buffer))

InTransit ==
    /\ Len(pipe) + Len(buffer) <= Len(written)
    /\ \A i \in 1..Len(buffer) : buffer[i] = written[Taken + i]
    /\ \A i \in 1..Len(pipe) : pipe[i] = written[Taken + Len(buffer) + i]
    /\ ~session => buffer = <<>> /\ emitted = <<>>

\* What the scan has left behind are whole lines, and it has emitted them.
Scanned ==
    session => /\ reader = "scan" /\ Taken > 0 => written[Taken].kind # "part"
               /\ Shown = LinesIn(Taken)
               /\ \A i, j \in 1..Len(emitted) : i < j => emitted[i] < emitted[j]

\* What a command keeps: where each of its chunks is, and which lines are out.
RunInv == RunTypeOK /\ Numbered /\ InTransit /\ Scanned /\ (phase # "wait" => ~alive)

\* Not kept: "Drain output before Wait" (composecli.go:99), that is, the lines
\* of a process that was not killed have all been emitted when run returns.
\* Wait may close a pipe that still has output in it.
DrainedAtReturn == phase = "returned" /\ session /\ left = 0 => Shown = Lines
=============================================================================
