----------------------------- MODULE CommandLine ------------------------------
(***************************************************************************)
(* One call of the command line (cli.py): the command writes its output    *)
(* and its diagnostics, any of these writes and the flushes after them may *)
(* fail, and main decides the exit status.  The standard output and the    *)
(* standard error may be one stream (2>&1 of an embedding host).           *)
(***************************************************************************)
EXTENDS Integers, SequencesExt

CONSTANT NoCommand       \* there is no call

VARIABLES
  command,   \* [aliased, absent, parser, writes, error, ends]: the call
  left,      \* what it has not written yet
  output,    \* _OutputState: streams and stdout_errors
  raised,    \* what a write raised: the index of an error, or one of these:
  status,
  phase,
  asked      \* how many values the command has written to stdout

commandVars == <<command, left, output, raised, status, phase, asked>>

Roles == {"stdout", "stderr"}

Nothing    == -1         \* no exception
PipeClosed == -2         \* _StdoutPipeClosedError
Foreign    == 0          \* an error that is none of the stdout errors

(* The errors a command ends with and their statuses (main). *)
StatusOf ==
  [invalid |-> 2, missing |-> 3, api |-> 5, library |-> 1, unexpected |-> 1]

(* The flags each mode of `part` takes; the others are rejected. *)
PartModeFlags ==
  [part |-> {}, usage |-> {"color-id"}, relationships |-> {},
   sets |-> {"color-id", "include-spares", "limit", "offset"}]

Call(writes, ends) ==
  [parser |-> FALSE, writes |-> writes, error |-> "none", ends |-> ends]

Fail(writes, error) ==
  [parser |-> FALSE, writes |-> writes, error |-> error, ends |-> StatusOf[error]]

Failed(writes) == {Fail(writes, error) : error \in DOMAIN StatusOf}

(* What a command writes, by role, and how it ends: with a status or with  *)
(* an error.  The parser's calls end with their status whatever happens.   *)
CommandCalls ==
  LET Out == "stdout"
      Err == "stderr"
      Entity(ends) == Call(<<Out>>, ends)
      PartCall(mode, given) ==
        IF given \subseteq PartModeFlags[mode] THEN Entity(0) ELSE Fail(<<>>, "invalid")
      plain     == {Entity(0), Call(<<>>, 0)} \cup Failed(<<>>)
      part      == {PartCall(mode, given) : mode \in DOMAIN PartModeFlags,
                                            given \in SUBSET PartModeFlags["sets"]}
      checked   == {Entity(0), Entity(3)}                \* status, catalog path
      doctor    == {Entity(0), Entity(2)}
      validate  == {Entity(0), Entity(4)}
      search    == {Call(hits, 0) : hits \in {<<>>, <<Out>>, <<Out, Out>>}}
      refresh   == {Call(<<Err, Err, Out>>, 0)} \cup Failed(<<Err, Err>>)
      materials == {Call(<<Out, Err, Err>>, 0)}          \* skipped owners
      translate == {Call(<<Out, Err>>, ends) : ends \in {0, 4}}
      parser    == {[Call(<<Out>>, 0) EXCEPT !.parser = TRUE],         \* help, version
                    [Call(<<Err, Err>>, 2) EXCEPT !.parser = TRUE]}
  IN  UNION {plain, part, checked, doctor, validate, search, refresh, materials,
             translate, parser}

(* _StreamState, with how many values the stream holds in its buffer, of   *)
(* stdout and others, and how many of stdout it has passed on.             *)
FreshStream ==
  [failure |-> "none", cause |-> Foreign, write_failed |-> {}, pending_stdout |-> FALSE,
   flushed |-> FALSE, finalized |-> FALSE, held |-> 0, others |-> 0, delivered |-> 0]

StreamOf(role) == IF command.aliased THEN "stdout" ELSE role

-----------------------------------------------------------------------------
WithStream(o, s, stream) == [o EXCEPT !.streams = [@ EXCEPT ![s] = stream]]

NewError(operation) == [operation |-> operation, reported |-> FALSE, diagnostics |-> 0]

(* An encoding error ends one value, any other error the stream. *)
FailedStream(stream, as, fault, cause) ==
  IF fault = "encode"
    THEN [stream EXCEPT !.write_failed = @ \cup {as},
                        !.cause = IF cause = Foreign THEN @ ELSE cause]
    ELSE [stream EXCEPT !.failure = fault, !.cause = cause]

(* What fails on behalf of stdout is recorded unless its consumer has left. *)
FailStream(o, role, as, operation, fault) ==
  LET recorded == as = "stdout" /\ fault # "pipe"
      s        == StreamOf(role)
      known    == IF recorded THEN [o EXCEPT !.errors = Append(@, NewError(operation))] ELSE o
      cause    == IF recorded THEN Len(known.errors) ELSE Foreign
  IN  WithStream(known, s, FailedStream(o.streams[s], as, fault, cause))

(* The buffer is passed on. *)
Sent(stream) == [stream EXCEPT !.held = 0, !.others = 0, !.delivered = @ + stream.held]

(* A write puts a value into the buffer, or passes all of it on. *)
Accept(stream, role, fault) ==
  LET out == role = "stdout"
      put == [stream EXCEPT !.flushed = FALSE,
                            !.pending_stdout = @ \/ out,
                            !.held   = IF out THEN @ + 1 ELSE @,
                            !.others = IF out THEN @ ELSE @ + 1]
  IN  IF fault = "through" THEN Sent(put) ELSE put

(* Mutant: what fails is blamed on the one who flushes. *)
BlameCaller(stream, role) == role

(* What is in the buffer belongs to whoever wrote it: with one stream for  *)
(* both, to stdout as long as some of its output is pending.               *)
Blamed(stream, role) ==
  IF ~command.aliased THEN role
  ELSE IF stream.pending_stdout THEN "stdout" ELSE "stderr"

FlushStream(o, role, finalizing, fault) ==
  LET s      == StreamOf(role)
      stream == [o.streams[s] EXCEPT !.finalized = finalizing]
  IN  IF role \in command.absent \/ o.streams[s].finalized THEN o
      ELSE IF stream.flushed \/ stream.failure # "none" THEN WithStream(o, s, stream)
      ELSE IF fault \in {"pipe", "disk"} /\ stream.held + stream.others > 0
        THEN FailStream(WithStream(o, s, stream), role, Blamed(stream, role), "flush", fault)
      ELSE WithStream(o, s, Sent([stream EXCEPT !.pending_stdout = FALSE, !.flushed = TRUE]))

(* _write_stdout: the output and what it raises. *)
WriteOut(o, fault) ==
  LET stream == o.streams["stdout"]
      failed == FailStream(o, "stdout", "stdout", "write", fault)
  IN  IF "stdout" \in command.absent \/ stream.failure = "pipe" THEN <<o, PipeClosed>>
      ELSE IF stream.failure # "none" \/ "stdout" \in stream.write_failed
        THEN <<o, stream.cause>>
      ELSE IF fault = "pipe" THEN <<failed, PipeClosed>>
      ELSE IF fault \in {"disk", "encode"} THEN <<failed, Len(failed.errors)>>
      ELSE <<WithStream(o, "stdout", Accept(stream, "stdout", fault)), Nothing>>

(* Mutant: pending output is not flushed first. *)
WriteErrAtOnce(o, flushing, fault) ==
  LET s == StreamOf("stderr")
  IN  IF \/ "stderr" \in command.absent \/ o.streams[s].failure # "none"
         \/ "stderr" \in o.streams[s].write_failed
        THEN o
      ELSE IF fault \in {"pipe", "disk", "encode"}
        THEN FailStream(o, "stderr", "stderr", "write", fault)
      ELSE WithStream(o, s, Accept(o.streams[s], "stderr", fault))

(* _write_stderr raises nothing.  On a shared stream it flushes pending    *)
(* output first, so that its own failure cannot take that along.           *)
WriteErr(o, flushing, fault) ==
  LET s       == StreamOf("stderr")
      flushed == IF command.aliased /\ o.streams[s].pending_stdout
                   THEN FlushStream(o, "stdout", FALSE, flushing) ELSE o
      stream  == flushed.streams[s]
  IN  IF "stderr" \in command.absent THEN o
      ELSE IF stream.failure # "none" \/ "stderr" \in stream.write_failed THEN flushed
      ELSE IF fault \in {"pipe", "disk", "encode"}
        THEN FailStream(flushed, "stderr", "stderr", "write", fault)
      ELSE WithStream(flushed, s, Accept(stream, "stderr", fault))

Faults == {"buffered", "through", "encode", "pipe", "disk"}
FlushFaults == {"buffered", "pipe", "disk"}

-----------------------------------------------------------------------------
CommandInit(c) ==
  /\ command = c
  /\ left = c.writes
  /\ output = [streams |-> [role \in Roles |-> FreshStream], errors |-> <<>>]
  /\ raised = Nothing /\ status = 0 /\ asked = 0 /\ phase = "run"

NoCommandInit ==
  /\ command = NoCommand /\ phase = "idle"
  /\ left = <<>> /\ raised = Nothing /\ status = 0 /\ asked = 0
  /\ output = [streams |-> <<>>, errors |-> <<>>]

(* On a shared stream the parser's errors are written as output, too.      *)
NextIsOutput == Head(left) = "stdout" \/ (command.parser /\ command.aliased)

(* A write that raises ends the command, but not the parser, which         *)
(* suppresses what its messages raise.                                     *)
PrintOut ==
  /\ phase = "run" /\ left # <<>> /\ NextIsOutput
  /\ \E fault \in Faults :
       LET written == WriteOut(output, fault)
       IN  /\ output' = written[1]
           /\ raised' = IF command.parser THEN Nothing ELSE written[2]
  /\ left' = IF raised' = Nothing THEN Tail(left) ELSE <<>>
  /\ asked' = asked + 1
  /\ UNCHANGED <<command, status, phase>>

PrintErr ==
  /\ phase = "run" /\ left # <<>> /\ ~NextIsOutput
  /\ \E flushing \in FlushFaults, fault \in Faults :
       output' = WriteErr(output, flushing, fault)
  /\ left' = Tail(left)
  /\ UNCHANGED <<command, raised, status, phase, asked>>

(* One failure is reported when it is told on stderr, whether or not that  *)
(* succeeds.                                                               *)
Told(error) == [error EXCEPT !.reported = TRUE, !.diagnostics = @ + 1]

Telling(o, i) == [o EXCEPT !.errors = [@ EXCEPT ![i] = Told(o.errors[i])]]

ReportFailure(o, i, flushing, fault) == WriteErr(Telling(o, i), flushing, fault)

(* The parser's SystemExit, the command's return, or the closed pipe. *)
MainQuiet ==
  /\ phase = "run" /\ left = <<>>
  /\ raised = PipeClosed \/ (raised = Nothing /\ command.error = "none")
  /\ status' = command.ends /\ phase' = "flush"
  /\ UNCHANGED <<command, left, output, raised, asked>>

(* An error of the command, told on stderr. *)
MainError ==
  /\ phase = "run" /\ left = <<>> /\ raised = Nothing /\ command.error # "none"
  /\ \E flushing \in FlushFaults, fault \in Faults :
       output' = WriteErr(output, flushing, fault)
  /\ status' = command.ends /\ phase' = "flush"
  /\ UNCHANGED <<command, left, raised, asked>>

(* Mutant: what is told here is not marked as reported. *)
MainOutputErrorUnmarked ==
  /\ phase = "run" /\ left = <<>> /\ raised \notin {Nothing, PipeClosed}
  /\ \E fault \in Faults :
       output' = WriteErr(IF raised = Foreign THEN output
                          ELSE [output EXCEPT !.errors = [@ EXCEPT ![raised] =
                                  [@ EXCEPT !.diagnostics = @ + 1]]], "buffered", fault)
  /\ status' = 1 /\ phase' = "flush"
  /\ UNCHANGED <<command, left, raised, asked>>

(* An output error; one that is not of stdout is "unexpected failure". *)
MainOutputError ==
  /\ phase = "run" /\ left = <<>> /\ raised \notin {Nothing, PipeClosed}
  /\ \E flushing \in FlushFaults, fault \in Faults :
       output' = IF raised = Foreign THEN WriteErr(output, flushing, fault)
                 ELSE ReportFailure(output, raised, flushing, fault)
  /\ status' = 1 /\ phase' = "flush"
  /\ UNCHANGED <<command, left, raised, asked>>

StatusAfter(errors) == IF errors # <<>> /\ ~command.parser THEN 1 ELSE status

FlushOutput ==
  /\ phase = "flush"
  /\ \E fault \in FlushFaults : output' = FlushStream(output, "stdout", FALSE, fault)
  /\ status' = StatusAfter(output'.errors) /\ phase' = "report"
  /\ UNCHANGED <<command, left, raised, asked>>

(* The errors not reported yet, in order, those the reports add included. *)
Unreported == {i \in DOMAIN output.errors : ~output.errors[i].reported}

ReportNext ==
  /\ phase = "report"
  /\ \E i \in Unreported, flushing \in FlushFaults, fault \in Faults :
       /\ \A j \in Unreported : i <= j
       /\ output' = ReportFailure(output, i, flushing, fault)
  /\ UNCHANGED <<command, left, raised, status, phase, asked>>

FlushDiagnostics ==
  /\ phase = "report" /\ Unreported = {}
  /\ \E fault \in FlushFaults : output' = FlushStream(output, "stderr", TRUE, fault)
  /\ phase' = "end"
  /\ UNCHANGED <<command, left, raised, status, asked>>

CommandNext ==
  \/ PrintOut \/ PrintErr \/ MainQuiet \/ MainError \/ MainOutputError
  \/ FlushOutput \/ ReportNext \/ FlushDiagnostics

-----------------------------------------------------------------------------
Delivered == output.streams["stdout"].delivered

Ended == phase = "end"

(***************************************************************************)
(* No output is lost silently: a call that ends with the status it has     *)
(* chosen has passed on every value it wrote, unless the consumer of the   *)
(* output has left or the parser, whose status stands, wrote it; with a    *)
(* shared stream also when a diagnostic met the failure (docs/cli.md, "a   *)
(* failed command-output flush cannot be mistaken ...").                   *)
(***************************************************************************)
OutputAccounted ==
  Ended /\ ~command.parser /\ Delivered < asked =>
    \/ status = 1
    \/ "stdout" \in command.absent
    \/ output.streams["stdout"].failure = "pipe"

(***************************************************************************)
(* Diagnostics do not change the answer: if all the output got through, or *)
(* its consumer left, the status is the chosen one, whatever happened to   *)
(* stderr, also on a shared stream; and the parser's status always stands. *)
(***************************************************************************)
DiagnosticsHarmless ==
  Ended /\ (command.parser \/ Delivered = asked \/ output.errors = <<>>) =>
    \/ status = command.ends
    \/ command.aliased /\ Delivered < asked /\ raised = Foreign

(***************************************************************************)
(* Each failure of the output is reported once, those that appear while    *)
(* others are reported included, and never after the last flush of the     *)
(* diagnostics.                                                            *)
(***************************************************************************)
FailuresReportedOnce ==
  Ended => \A i \in DOMAIN output.errors :
             output.errors[i].reported /\ output.errors[i].diagnostics = 1
================================================================================
