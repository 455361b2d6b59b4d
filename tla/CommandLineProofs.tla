--------------------------- MODULE CommandLineProofs ---------------------------
(***************************************************************************)
(* The command line loses no output silently, its diagnostics do not       *)
(* change its answer, and it reports each failure of its output once: for  *)
(* commands that write any number of values, and whatever fails.           *)
(*                                                                         *)
(* Every write and flush Extends the output: it adds at most one failure,  *)
(* which nobody has reported.  What remains is that the last flush of the  *)
(* diagnostics adds none: then no output is pending on a shared stream.    *)
(***************************************************************************)
EXTENDS CommandLine, TLAPS

AnyCall ==
  [aliased : BOOLEAN, absent : SUBSET Roles, parser : BOOLEAN, writes : Seq(Roles),
   error : STRING, ends : Nat]

CommandSpec == (\E c \in AnyCall : CommandInit(c)) /\ [][CommandNext]_commandVars

-----------------------------------------------------------------------------
(* A failure is reported when it has been told, once. *)
NewErrors == {NewError(operation) : operation \in {"write", "flush"}}
Errors    == NewErrors \cup {[e EXCEPT !.reported = TRUE, !.diagnostics = 1] : e \in NewErrors}

Shape(s) ==
  s = [failure |-> s.failure, cause |-> s.cause, write_failed |-> s.write_failed,
       pending_stdout |-> s.pending_stdout, flushed |-> s.flushed,
       finalized |-> s.finalized, held |-> s.held, others |-> s.others,
       delivered |-> s.delivered]

IsStream(s, errors) ==
  /\ Shape(s)
  /\ s.held \in Nat /\ s.others \in Nat /\ s.delivered \in Nat
  /\ s.cause \in 0 .. Len(errors)
  /\ s.pending_stdout \in BOOLEAN /\ s.flushed \in BOOLEAN /\ s.finalized \in BOOLEAN
  /\ s.pending_stdout => ~s.flushed /\ "stdout" \notin command.absent

IsOutput(o) ==
  /\ o = [streams |-> o.streams, errors |-> o.errors]
  /\ o.errors \in Seq(Errors)
  /\ o.streams = [role \in Roles |-> o.streams[role]]
  /\ \A role \in Roles : IsStream(o.streams[role], o.errors)

LEMMA StreamsAre == ASSUME command \in AnyCall, NEW role \in Roles PROVE StreamOf(role) \in Roles
BY DEF StreamOf, AnyCall, Roles

LEMMA WithStreamIs ==
  ASSUME NEW o, IsOutput(o), NEW s \in Roles, NEW stream, IsStream(stream, o.errors)
  PROVE  /\ IsOutput(WithStream(o, s, stream))
         /\ WithStream(o, s, stream).errors = o.errors
         /\ WithStream(o, s, stream).streams[s] = stream
         /\ \A x \in Roles \ {s} : WithStream(o, s, stream).streams[x] = o.streams[x]
<1> DEFINE p == WithStream(o, s, stream)
<1>1. /\ p = [streams |-> p.streams, errors |-> p.errors]
      /\ p.errors = o.errors
      /\ p.streams = [o.streams EXCEPT ![s] = stream]
  BY DEF WithStream, IsOutput
<1> HIDE DEF p
<1>2. /\ p.streams = [x \in Roles |-> p.streams[x]]
      /\ p.streams[s] = stream
      /\ \A x \in Roles \ {s} : p.streams[x] = o.streams[x]
  BY <1>1 DEF IsOutput
<1>3. IsOutput(p)
  BY <1>1, <1>2 DEF IsOutput
<1> QED
  BY <1>1, <1>2, <1>3 DEF p

LEMMA KnownIs ==
  ASSUME NEW o, IsOutput(o), NEW e \in NewErrors
  PROVE  LET p == [o EXCEPT !.errors = Append(@, e)]
         IN  /\ IsOutput(p)
             /\ p.errors = Append(o.errors, e)
             /\ Len(p.errors) = Len(o.errors) + 1
             /\ p.streams = o.streams
<1> DEFINE p == [o EXCEPT !.errors = Append(@, e)]
<1>1. /\ p = [streams |-> p.streams, errors |-> p.errors]
      /\ p.errors = Append(o.errors, e)
      /\ p.streams = o.streams
  BY DEF IsOutput
<1>2. e \in Errors
  BY DEF Errors
<1> HIDE DEF p
<1>3. p.errors \in Seq(Errors) /\ Len(p.errors) = Len(o.errors) + 1 /\ Len(o.errors) \in Nat
  BY <1>1, <1>2 DEF IsOutput
<1>4. \A role \in Roles : IsStream(p.streams[role], p.errors)
  BY <1>1, <1>3 DEF IsOutput, IsStream
<1>5. IsOutput(p)
  BY <1>1, <1>3, <1>4 DEF IsOutput
<1> QED
  BY <1>1, <1>3, <1>5 DEF p

-----------------------------------------------------------------------------
Unfinished(o) == \A role \in Roles : ~o.streams[role].finalized

(* Nothing is pending on a shared stream, or its failure is known.         *)
Settled(o) ==
  command.aliased =>
    o.streams["stdout"].failure # "none" \/ ~o.streams["stdout"].pending_stdout

SameOrOneMore(errors, more) ==
  more = errors \/ \E e \in NewErrors : more = Append(errors, e)

(* What was printed is held or delivered, a broken stream stays so.        *)
Keeps(s, t) ==
  /\ t.held + t.delivered = s.held + s.delivered
  /\ s.delivered <= t.delivered
  /\ s.failure # "none" => t.failure = s.failure

Extends(o, p) ==
  /\ IsOutput(p)
  /\ SameOrOneMore(o.errors, p.errors)
  /\ Settled(o) => Settled(p)
  /\ Keeps(o.streams["stdout"], p.streams["stdout"])

LEMMA ErrorsStay ==
  ASSUME NEW o, IsOutput(o), NEW more, SameOrOneMore(o.errors, more), o.errors # <<>>
  PROVE  more # <<>>
<1>1. o.errors \in Seq(Errors) /\ NewErrors \subseteq Errors
  BY DEF IsOutput, Errors
<1>2. CASE more = o.errors
  BY <1>2
<1>3. ASSUME NEW e \in NewErrors, more = Append(o.errors, e) PROVE more # <<>>
  <2>1. e \in Errors
    BY <1>1
  <2>2. Len(more) = Len(o.errors) + 1 /\ Len(o.errors) \in Nat
    BY <1>1, <1>3, <2>1
  <2> QED
    BY <2>2
<1> QED
  BY <1>2, <1>3 DEF SameOrOneMore

LEMMA OutCounts ==
  ASSUME NEW o, IsOutput(o)
  PROVE  /\ o.streams["stdout"].held \in Nat /\ o.streams["stdout"].others \in Nat
         /\ o.streams["stdout"].delivered \in Nat
BY DEF IsOutput, IsStream, Roles

LEMMA KeepsOn ==
  ASSUME NEW o, NEW q, NEW p, IsOutput(o), Extends(o, q), IsOutput(p),
         SameOrOneMore(o.errors, p.errors), Settled(q) => Settled(p),
         Keeps(q.streams["stdout"], p.streams["stdout"])
  PROVE  Extends(o, p)
<1>1. Keeps(o.streams["stdout"], p.streams["stdout"])
  <2>1. IsOutput(q) /\ Keeps(o.streams["stdout"], q.streams["stdout"])
    BY DEF Extends
  <2> QED
    BY <2>1, OutCounts DEF Keeps
<1> QED
  BY <1>1 DEF Extends

(* The stream after what failed on behalf of a role.                       *)
FailedAs(s, t, as, fault, cause) ==
  /\ t.pending_stdout = s.pending_stdout
  /\ t.held = s.held /\ t.others = s.others /\ t.delivered = s.delivered
  /\ IF fault = "encode"
       THEN /\ t.failure = s.failure /\ t.write_failed = s.write_failed \cup {as}
            /\ t.cause = IF cause = Foreign THEN s.cause ELSE cause
       ELSE t.failure = fault /\ t.write_failed = s.write_failed /\ t.cause = cause

LEMMA FailedStreamIs ==
  ASSUME NEW errors \in Seq(Errors), NEW s, IsStream(s, errors),
         NEW as, NEW fault \in {"pipe", "disk", "encode"}, NEW cause \in 0 .. Len(errors),
         NEW t, t = FailedStream(s, as, fault, cause)
  PROVE  IsStream(t, errors) /\ FailedAs(s, t, as, fault, cause)
<1>1. CASE fault = "encode"
  <2>1. IsStream(t, errors)
    BY <1>1 DEF FailedStream, IsStream, Shape
  <2>2. FailedAs(s, t, as, fault, cause)
    BY <1>1 DEF FailedStream, IsStream, Shape, FailedAs
  <2> QED
    BY <2>1, <2>2
<1>2. CASE fault # "encode"
  <2>1. IsStream(t, errors)
    BY <1>2 DEF FailedStream, IsStream, Shape
  <2>2. FailedAs(s, t, as, fault, cause)
    BY <1>2 DEF FailedStream, IsStream, Shape, FailedAs
  <2> QED
    BY <2>1, <2>2
<1> QED
  BY <1>1, <1>2

LEMMA FailExtends ==
  ASSUME command \in AnyCall, NEW o, IsOutput(o), NEW role \in Roles, NEW as \in Roles,
         NEW operation \in {"write", "flush"}, NEW fault \in {"pipe", "disk", "encode"},
         o.streams[StreamOf(role)].failure = "none"
  PROVE  LET p == FailStream(o, role, as, operation, fault)
             s == StreamOf(role)
         IN  /\ Extends(o, p)
             /\ p.streams[s].finalized = o.streams[s].finalized
             /\ \A x \in Roles \ {s} : p.streams[x] = o.streams[x]
             /\ IF as = "stdout" /\ fault # "pipe"
                  THEN /\ Len(p.errors) \in 1 .. Len(p.errors)
                       /\ FailedAs(o.streams[s], p.streams[s], as, fault, Len(p.errors))
                  ELSE /\ p.errors = o.errors
                       /\ FailedAs(o.streams[s], p.streams[s], as, fault, Foreign)
<1> DEFINE recorded == as = "stdout" /\ fault # "pipe"
           e == NewError(operation)
           known == IF recorded THEN [o EXCEPT !.errors = Append(@, e)] ELSE o
           cause == IF recorded THEN Len(known.errors) ELSE Foreign
           s == StreamOf(role)
           failed == FailedStream(o.streams[s], as, fault, cause)
           p == WithStream(known, s, failed)
<1>1. e \in NewErrors
  BY DEF NewErrors
<1>2. p = FailStream(o, role, as, operation, fault)
  BY DEF FailStream
<1>3. Len(o.errors) \in Nat
  BY DEF IsOutput
<1> HIDE DEF recorded
<1>4. /\ IsOutput(known) /\ known.streams = o.streams
      /\ recorded => /\ known.errors = Append(o.errors, e)
                     /\ Len(known.errors) = Len(o.errors) + 1
      /\ ~recorded => known.errors = o.errors
  <2>1. CASE recorded
    BY <1>1, <2>1, KnownIs
  <2>2. CASE ~recorded
    BY <2>2
  <2> QED
    BY <2>1, <2>2
<1> HIDE DEF known
<1>5. cause \in 0 .. Len(known.errors) /\ known.errors \in Seq(Errors)
  BY <1>3, <1>4 DEF Foreign, IsOutput
<1>6. s \in Roles /\ IsStream(o.streams[s], known.errors)
  BY <1>4, StreamsAre DEF IsOutput
<1>7. /\ IsStream(failed, known.errors)
      /\ FailedAs(o.streams[s], failed, as, fault, cause)
      /\ failed.finalized = o.streams[s].finalized
  <2> HIDE DEF s, cause
  <2>1. failed = FailedStream(o.streams[s], as, fault, cause)
    OBVIOUS
  <2> HIDE DEF failed
  <2>2. IsStream(failed, known.errors) /\ FailedAs(o.streams[s], failed, as, fault, cause)
    BY <1>5, <1>6, <2>1, FailedStreamIs
  <2>3. failed.finalized = o.streams[s].finalized
    BY <1>5, <1>6, <2>1 DEF IsStream, Shape, FailedStream
  <2> QED
    BY <2>2, <2>3
<1> HIDE DEF failed
<1>8. /\ IsOutput(p) /\ p.errors = known.errors /\ p.streams[s] = failed
      /\ \A x \in Roles \ {s} : p.streams[x] = o.streams[x]
  BY <1>4, <1>6, <1>7, WithStreamIs
<1> HIDE DEF p
<1>9. SameOrOneMore(o.errors, p.errors)
  BY <1>1, <1>4, <1>8 DEF SameOrOneMore
<1>10. (Settled(o) => Settled(p)) /\ p.streams[s].finalized = o.streams[s].finalized
  BY <1>6, <1>7, <1>8 DEF Settled, Roles, FailedAs
<1>11. Keeps(o.streams["stdout"], p.streams["stdout"])
  <2>1. o.streams["stdout"].held \in Nat /\ o.streams["stdout"].delivered \in Nat
    BY DEF IsOutput, IsStream, Roles
  <2>2. CASE s = "stdout"
    BY <1>7, <1>8, <2>1, <2>2 DEF Keeps, FailedAs
  <2>3. CASE s # "stdout"
    BY <1>8, <2>1, <2>3 DEF Keeps, Roles
  <2> QED
    BY <2>2, <2>3
<1>12. recorded => Len(p.errors) \in 1 .. Len(p.errors)
  BY <1>3, <1>4, <1>8
<1> QED
  BY <1>2, <1>4, <1>7, <1>8, <1>9, <1>10, <1>11, <1>12 DEF Extends, recorded

(* The fields that a write and a flush leave as they were, and the others. *)
SameFields(s, t) ==
  t.failure = s.failure /\ t.cause = s.cause /\ t.write_failed = s.write_failed
    /\ t.finalized = s.finalized

LEMMA SentFields ==
  ASSUME NEW s, Shape(s), NEW t, t = Sent(s)
  PROVE  /\ Shape(t) /\ SameFields(s, t)
         /\ t.pending_stdout = s.pending_stdout /\ t.flushed = s.flushed
         /\ t.held = 0 /\ t.others = 0 /\ t.delivered = s.delivered + s.held
BY DEF Shape, SameFields, Sent

LEMMA AcceptIs ==
  ASSUME NEW errors \in Seq(Errors), NEW s, IsStream(s, errors), NEW role \in Roles, NEW fault,
         role = "stdout" => "stdout" \notin command.absent, NEW t, t = Accept(s, role, fault)
  PROVE  /\ IsStream(t, errors)
         /\ SameFields(s, t)
         /\ t.pending_stdout = (s.pending_stdout \/ role = "stdout")
         /\ t.held + t.delivered = s.held + s.delivered + (IF role = "stdout" THEN 1 ELSE 0)
         /\ \/ t.held = 0 /\ t.others = 0
            \/ t.held = s.held + (IF role = "stdout" THEN 1 ELSE 0)
               /\ (role = "stdout" => t.others = s.others)
<1> DEFINE out == role = "stdout"
<1>1. /\ Shape(s) /\ s.held \in Nat /\ s.others \in Nat /\ s.delivered \in Nat
      /\ s.pending_stdout \in BOOLEAN
  BY DEF IsStream
<1>0. PICK put : put = [s EXCEPT !.flushed = FALSE,
                                !.pending_stdout = @ \/ out,
                                !.held   = IF out THEN @ + 1 ELSE @,
                                !.others = IF out THEN @ ELSE @ + 1]
  OBVIOUS
<1>2. /\ Shape(put) /\ SameFields(s, put)
      /\ put.pending_stdout = (s.pending_stdout \/ out) /\ put.flushed = FALSE
      /\ put.held = (IF out THEN s.held + 1 ELSE s.held)
      /\ put.others = (IF out THEN s.others ELSE s.others + 1)
      /\ put.delivered = s.delivered
  <2>1. Shape(put)
    BY <1>1, <1>0 DEF Shape
  <2>2. SameFields(s, put)
    BY <1>1, <1>0 DEF Shape, SameFields
  <2>3. put.pending_stdout = (s.pending_stdout \/ out) /\ put.flushed = FALSE
    BY <1>1, <1>0 DEF Shape
  <2>4. /\ put.held = (IF out THEN s.held + 1 ELSE s.held)
        /\ put.others = (IF out THEN s.others ELSE s.others + 1)
        /\ put.delivered = s.delivered
    BY <1>1, <1>0 DEF Shape
  <2> QED
    BY <2>1, <2>2, <2>3, <2>4
<1>3. t = IF fault = "through" THEN Sent(put) ELSE put
  BY <1>0 DEF Accept
<1>4. t = put \/ t = Sent(put)
  BY <1>3
<1>5. /\ Shape(t) /\ SameFields(s, t) /\ t.flushed = FALSE
      /\ t.pending_stdout = (s.pending_stdout \/ out)
      /\ \/ t.held = put.held /\ t.others = put.others /\ t.delivered = s.delivered
         \/ t.held = 0 /\ t.others = 0 /\ t.delivered = s.delivered + put.held
  <2>1. CASE t = put
    BY <1>2, <2>1
  <2>2. CASE t = Sent(put)
    <3>1. /\ Shape(t) /\ SameFields(put, t) /\ t.flushed = put.flushed
          /\ t.pending_stdout = put.pending_stdout
          /\ t.held = 0 /\ t.others = 0 /\ t.delivered = put.delivered + put.held
      BY <1>2, <2>2, SentFields
    <3> QED
      BY <1>2, <3>1 DEF SameFields
  <2> QED
    BY <1>4, <2>1, <2>2
<1>6. /\ t.held \in Nat /\ t.others \in Nat /\ t.delivered \in Nat
      /\ t.held + t.delivered = s.held + s.delivered + (IF out THEN 1 ELSE 0)
      /\ \/ t.held = 0 /\ t.others = 0
         \/ t.held = s.held + (IF out THEN 1 ELSE 0) /\ (out => t.others = s.others)
  BY <1>1, <1>2, <1>5
<1>7. IsStream(t, errors)
  BY <1>5, <1>6 DEF IsStream, SameFields
<1> QED
  BY <1>5, <1>6, <1>7

LEMMA FlushedIs ==
  ASSUME NEW errors, NEW s, IsStream(s, errors),
         NEW t, t = Sent([s EXCEPT !.pending_stdout = FALSE, !.flushed = TRUE])
  PROVE  /\ IsStream(t, errors)
         /\ SameFields(s, t)
         /\ t.pending_stdout = FALSE
         /\ t.held = 0 /\ t.others = 0 /\ t.delivered = s.delivered + s.held
<1>0. PICK u : u = [s EXCEPT !.pending_stdout = FALSE, !.flushed = TRUE]
  OBVIOUS
<1>1. Shape(s)
  BY DEF IsStream
<1>2. /\ Shape(u) /\ SameFields(s, u)
      /\ u.pending_stdout = FALSE /\ u.flushed = TRUE
      /\ u.held = s.held /\ u.delivered = s.delivered
  BY <1>0, <1>1 DEF Shape, SameFields
<1>3. t = Sent(u)
  BY <1>0
<1>4. /\ Shape(t) /\ SameFields(u, t)
      /\ t.pending_stdout = u.pending_stdout /\ t.flushed = u.flushed
      /\ t.held = 0 /\ t.others = 0 /\ t.delivered = u.delivered + u.held
  BY <1>2, <1>3, SentFields
<1>5. /\ SameFields(s, t) /\ t.pending_stdout = FALSE /\ t.flushed = TRUE
      /\ t.held = 0 /\ t.others = 0 /\ t.delivered = s.delivered + s.held
  BY <1>2, <1>4 DEF SameFields
<1>6. t.held \in Nat /\ t.others \in Nat /\ t.delivered \in Nat
  BY <1>5 DEF IsStream
<1>7. IsStream(t, errors)
  BY <1>4, <1>5, <1>6 DEF IsStream, SameFields
<1> QED
  BY <1>5, <1>7

(* What a flush makes of the stream and of the errors, by its outcome.     *)
SameBooks(s, t) ==
  /\ t.failure = s.failure /\ t.cause = s.cause /\ t.write_failed = s.write_failed
  /\ t.pending_stdout = s.pending_stdout
  /\ t.held = s.held /\ t.others = s.others /\ t.delivered = s.delivered

NotFlushed(o, p, s, role) ==
  /\ SameBooks(o.streams[s], p.streams[s]) /\ p.errors = o.errors
  /\ \/ role \in command.absent \/ o.streams[s].finalized
     \/ o.streams[s].flushed \/ o.streams[s].failure # "none"

FlushFailed(o, p, s, role, fault) ==
  /\ fault \in {"pipe", "disk"} /\ o.streams[s].failure = "none"
  /\ o.streams[s].held + o.streams[s].others > 0
  /\ LET as == Blamed(o.streams[s], role)
     IN  IF as = "stdout" /\ fault # "pipe"
           THEN /\ Len(p.errors) \in 1 .. Len(p.errors)
                /\ FailedAs(o.streams[s], p.streams[s], as, fault, Len(p.errors))
           ELSE /\ p.errors = o.errors
                /\ FailedAs(o.streams[s], p.streams[s], as, fault, Foreign)

Flushed(o, p, s) ==
  /\ o.streams[s].failure = "none" /\ p.streams[s].failure = "none"
  /\ p.streams[s].cause = o.streams[s].cause
  /\ p.streams[s].write_failed = o.streams[s].write_failed
  /\ p.streams[s].pending_stdout = FALSE
  /\ p.streams[s].held = 0 /\ p.streams[s].others = 0
  /\ p.streams[s].delivered = o.streams[s].delivered + o.streams[s].held
  /\ p.errors = o.errors

LEMMA FlushIs ==
  ASSUME command \in AnyCall, NEW o, IsOutput(o), NEW role \in Roles,
         NEW finalizing \in BOOLEAN, NEW fault
  PROVE  LET p == FlushStream(o, role, finalizing, fault)
             s == StreamOf(role)
         IN  /\ IsOutput(p) /\ SameOrOneMore(o.errors, p.errors)
             /\ p.streams[s].finalized \in {o.streams[s].finalized, finalizing}
             /\ \A x \in Roles \ {s} : p.streams[x] = o.streams[x]
             /\ \/ NotFlushed(o, p, s, role)
                \/ FlushFailed(o, p, s, role, fault)
                \/ Flushed(o, p, s)
<1> DEFINE s == StreamOf(role)
           stream == [o.streams[s] EXCEPT !.finalized = finalizing]
           marked == WithStream(o, s, stream)
           done == Sent([stream EXCEPT !.pending_stdout = FALSE, !.flushed = TRUE])
           p == FlushStream(o, role, finalizing, fault)
           Goal == /\ IsOutput(p) /\ SameOrOneMore(o.errors, p.errors)
                   /\ p.streams[s].finalized \in {o.streams[s].finalized, finalizing}
                   /\ \A x \in Roles \ {s} : p.streams[x] = o.streams[x]
                   /\ \/ NotFlushed(o, p, s, role)
                      \/ FlushFailed(o, p, s, role, fault)
                      \/ Flushed(o, p, s)
<1> SUFFICES Goal
  OBVIOUS
<1>1. s \in Roles /\ IsStream(o.streams[s], o.errors)
  BY StreamsAre DEF IsOutput
<1>2. /\ IsStream(stream, o.errors)
      /\ stream.finalized = finalizing
      /\ stream.flushed = o.streams[s].flushed
      /\ SameBooks(o.streams[s], stream)
  <2>1. IsStream(stream, o.errors)
    BY <1>1 DEF IsStream, Shape
  <2>2. /\ stream.finalized = finalizing
        /\ stream.flushed = o.streams[s].flushed
        /\ SameBooks(o.streams[s], stream)
    BY <1>1 DEF IsStream, Shape, SameBooks
  <2> QED
    BY <2>1, <2>2
<1>3. /\ IsStream(done, o.errors) /\ SameFields(stream, done)
      /\ done.pending_stdout = FALSE
      /\ done.held = 0 /\ done.others = 0
      /\ done.delivered = stream.delivered + stream.held
  <2> HIDE DEF stream
  <2>1. done = Sent([stream EXCEPT !.pending_stdout = FALSE, !.flushed = TRUE])
    OBVIOUS
  <2> HIDE DEF done
  <2> QED
    BY <1>2, <2>1, FlushedIs
<1>4. \/ p = o /\ (role \in command.absent \/ o.streams[s].finalized)
      \/ p = marked /\ (stream.flushed \/ stream.failure # "none")
      \/ /\ p = FailStream(marked, role, Blamed(stream, role), "flush", fault)
         /\ fault \in {"pipe", "disk"} /\ stream.failure = "none"
         /\ stream.held + stream.others > 0
      \/ p = WithStream(o, s, done) /\ stream.failure = "none"
  BY DEF FlushStream
<1> HIDE DEF p, done, stream
<1>5. /\ IsOutput(marked) /\ marked.errors = o.errors /\ marked.streams[s] = stream
      /\ \A x \in Roles \ {s} : marked.streams[x] = o.streams[x]
  BY <1>1, <1>2, WithStreamIs
<1> HIDE DEF marked
<1>6. CASE p = o /\ (role \in command.absent \/ o.streams[s].finalized)
  BY <1>6 DEF SameOrOneMore, NotFlushed, SameBooks
<1>7. CASE p = marked /\ (stream.flushed \/ stream.failure # "none")
  <2>1. NotFlushed(o, p, s, role)
    BY <1>2, <1>5, <1>7 DEF NotFlushed, SameBooks
  <2> QED
    BY <1>2, <1>5, <1>7, <2>1 DEF SameOrOneMore
<1>8. CASE /\ p = FailStream(marked, role, Blamed(stream, role), "flush", fault)
           /\ fault \in {"pipe", "disk"} /\ stream.failure = "none"
           /\ stream.held + stream.others > 0
  <2> DEFINE as == Blamed(stream, role)
  <2>1. as \in Roles /\ as = Blamed(o.streams[s], role)
    BY <1>2 DEF Blamed, Roles, SameBooks
  <2> HIDE DEF as
  <2>2. /\ Extends(marked, p)
        /\ p.streams[s].finalized = finalizing
        /\ \A x \in Roles \ {s} : p.streams[x] = marked.streams[x]
        /\ IF as = "stdout" /\ fault # "pipe"
             THEN /\ Len(p.errors) \in 1 .. Len(p.errors)
                  /\ FailedAs(stream, p.streams[s], as, fault, Len(p.errors))
             ELSE /\ p.errors = marked.errors
                  /\ FailedAs(stream, p.streams[s], as, fault, Foreign)
    <3>1. p = FailStream(marked, role, as, "flush", fault)
      BY <1>8 DEF as
    <3> QED
      BY <1>2, <1>5, <1>8, <2>1, <3>1, FailExtends
  <2>3. FlushFailed(o, p, s, role, fault)
    BY <1>2, <1>5, <1>8, <2>1, <2>2 DEF FlushFailed, FailedAs, SameBooks
  <2> QED
    BY <1>5, <2>2, <2>3 DEF Extends
<1>9. CASE p = WithStream(o, s, done) /\ stream.failure = "none"
  <2>1. /\ IsOutput(p) /\ p.errors = o.errors /\ p.streams[s] = done
        /\ \A x \in Roles \ {s} : p.streams[x] = o.streams[x]
    BY <1>1, <1>3, <1>9, WithStreamIs
  <2>2. Flushed(o, p, s)
    BY <1>2, <1>3, <1>9, <2>1 DEF Flushed, SameBooks, SameFields
  <2> QED
    BY <1>2, <1>3, <2>1, <2>2 DEF SameOrOneMore, SameFields
<1> QED
  BY <1>4, <1>6, <1>7, <1>8, <1>9

LEMMA FlushExtends ==
  ASSUME command \in AnyCall, NEW o, IsOutput(o), NEW role \in Roles,
         NEW finalizing \in BOOLEAN, NEW fault
  PROVE  LET p == FlushStream(o, role, finalizing, fault)
         IN  /\ Extends(o, p)
             /\ ~finalizing /\ Unfinished(o) => Unfinished(p)
             /\ role = "stdout" /\ Unfinished(o) => Settled(p)
             /\ role = "stderr" /\ Settled(o) => p.errors = o.errors
<1> DEFINE s == StreamOf(role)
           p == FlushStream(o, role, finalizing, fault)
<1>1. /\ IsOutput(p) /\ SameOrOneMore(o.errors, p.errors)
      /\ p.streams[s].finalized \in {o.streams[s].finalized, finalizing}
      /\ \A x \in Roles \ {s} : p.streams[x] = o.streams[x]
      /\ NotFlushed(o, p, s, role) \/ FlushFailed(o, p, s, role, fault) \/ Flushed(o, p, s)
  BY FlushIs
<1> HIDE DEF p
<1>2. s \in Roles /\ IsStream(o.streams[s], o.errors) /\ (role = "stdout" => s = "stdout")
  BY StreamsAre DEF IsOutput, StreamOf
<1>3. /\ o.streams["stdout"].held \in Nat /\ o.streams["stdout"].delivered \in Nat
      /\ IsStream(o.streams["stdout"], o.errors)
  BY DEF IsOutput, IsStream, Roles
<1>4. Keeps(o.streams["stdout"], p.streams["stdout"])
  <2>1. CASE s # "stdout"
    BY <1>1, <1>3, <2>1 DEF Keeps, Roles
  <2>2. CASE s = "stdout"
    BY <1>1, <1>3, <2>2 DEF Keeps, NotFlushed, FlushFailed, Flushed, SameBooks, FailedAs
  <2> QED
    BY <2>1, <2>2
<1>5. Settled(o) => Settled(p)
  <2>1. CASE s # "stdout"
    BY <1>1, <2>1 DEF Settled, Roles
  <2>2. CASE s = "stdout"
    BY <1>1, <2>2 DEF Settled, NotFlushed, FlushFailed, Flushed, SameBooks, FailedAs
  <2> QED
    BY <2>1, <2>2
<1>6. ~finalizing /\ Unfinished(o) => Unfinished(p)
  BY <1>1, <1>2 DEF Unfinished
<1>7. role = "stdout" /\ Unfinished(o) => Settled(p)
  BY <1>1, <1>2
  DEF Settled, Unfinished, NotFlushed, FlushFailed, Flushed, SameBooks, FailedAs, IsStream
<1>8. role = "stderr" /\ Settled(o) => p.errors = o.errors
  <2>1. role = "stderr" /\ Settled(o) /\ o.streams[s].failure = "none"
          => Blamed(o.streams[s], role) = "stderr"
    BY DEF Settled, Blamed, StreamOf
  <2> QED
    BY <1>1, <2>1 DEF NotFlushed, FlushFailed, Flushed
<1> QED
  BY <1>1, <1>4, <1>5, <1>6, <1>7, <1>8 DEF Extends, p

(***************************************************************************)
(* The books of the output, when n values have been asked for: what is     *)
(* held or delivered of them; that a failure is known means that a value   *)
(* was refused or lies in a broken stream, and a broken stream that holds  *)
(* values has a known failure unless its consumer left.                    *)
(***************************************************************************)
Books(s, errors, n) ==
  /\ s.delivered + s.held <= n
  /\ errors # <<>> => s.delivered + s.held < n \/ (s.failure # "none" /\ s.held > 0)
  /\ s.pending_stdout /\ s.others > 0 /\ s.failure = "none" => s.held > 0
  /\ s.failure \notin {"none", "pipe"} /\ s.held > 0 => errors # <<>>
  /\ s.cause = Foreign /\ s.failure # "pipe"
       /\ (s.failure # "none" \/ "stdout" \in s.write_failed) => command.aliased
  /\ ~command.aliased => s.others = 0
  /\ s.held > 0 => s.pending_stdout

BooksOf(o, n) == Books(o.streams["stdout"], o.errors, n)

(* The consumer of the output has left. *)
Gone(o) == "stdout" \in command.absent \/ o.streams["stdout"].failure = "pipe"

LEMMA FlushBooks ==
  ASSUME command \in AnyCall, NEW o, IsOutput(o), NEW role \in Roles,
         NEW finalizing \in BOOLEAN, NEW fault, NEW n \in Nat, BooksOf(o, n),
         NEW p, p = FlushStream(o, role, finalizing, fault)
  PROVE  /\ BooksOf(p, n)
         /\ role = "stdout" /\ Unfinished(o) =>
              \/ p.errors # <<>> \/ Gone(p)
              \/ p.streams["stdout"].held = 0
<1> DEFINE s == StreamOf(role)
           S == o.streams["stdout"]
           T == p.streams["stdout"]
<1>1. /\ IsOutput(p)
      /\ \A x \in Roles \ {s} : p.streams[x] = o.streams[x]
      /\ NotFlushed(o, p, s, role) \/ FlushFailed(o, p, s, role, fault) \/ Flushed(o, p, s)
  BY FlushIs
<1>2. s \in Roles /\ (role = "stdout" => s = "stdout") /\ (s # "stdout" => role = "stderr" /\ ~command.aliased)
  BY StreamsAre DEF StreamOf, Roles
<1>3. /\ S.held \in Nat /\ S.delivered \in Nat /\ S.others \in Nat
      /\ IsStream(S, o.errors)
  BY DEF IsOutput, IsStream, Roles
<1>4. CASE s # "stdout"
  <2>1. T = S
    BY <1>1, <1>2, <1>4 DEF Roles
  <2>2. p.errors = o.errors
    BY <1>1, <1>2, <1>4 DEF NotFlushed, FlushFailed, Flushed, Blamed
  <2> QED
    BY <1>2, <1>4, <2>1, <2>2 DEF BooksOf
<1>5. CASE s = "stdout"
  <2>1. CASE NotFlushed(o, p, s, role)
    <3>1. BooksOf(p, n)
      BY <1>5, <2>1 DEF NotFlushed, SameBooks, BooksOf, Books
    <3>2. role = "stdout" /\ Unfinished(o) => p.errors # <<>> \/ Gone(p) \/ T.held = 0
      BY <1>3, <1>5, <2>1
      DEF NotFlushed, SameBooks, BooksOf, Books, Gone, Unfinished, IsStream, Roles
    <3> QED
      BY <3>1, <3>2
  <2>2. CASE FlushFailed(o, p, s, role, fault)
    <3> DEFINE as == Blamed(S, role)
    <3>1. as = "stdout" => S.held > 0
      BY <1>2, <1>3, <1>5, <2>2 DEF Blamed, BooksOf, Books, FlushFailed
    <3>2. as # "stdout" => S.held = 0 /\ command.aliased
      BY <1>2, <1>3, <1>5 DEF Blamed, BooksOf, Books, StreamOf
    <3>3. /\ fault \in {"pipe", "disk"} /\ S.failure = "none"
          /\ IF as = "stdout" /\ fault # "pipe"
               THEN /\ Len(p.errors) \in 1 .. Len(p.errors)
                    /\ FailedAs(S, T, as, fault, Len(p.errors))
               ELSE /\ p.errors = o.errors
                    /\ FailedAs(S, T, as, fault, Foreign)
      BY <1>5, <2>2 DEF FlushFailed
    <3> HIDE DEF as
    <3>4. CASE as = "stdout" /\ fault # "pipe"
      <4>1. p.errors # <<>> /\ Len(p.errors) # 0
        BY <3>3, <3>4
      <4> QED
        BY <1>3, <3>1, <3>3, <3>4, <4>1 DEF FailedAs, BooksOf, Books, Foreign
    <3>5. CASE ~(as = "stdout" /\ fault # "pipe")
      <4>1. p.errors = o.errors /\ FailedAs(S, T, as, fault, Foreign)
        BY <3>3, <3>5
      <4>2. T.failure = fault /\ T.held = S.held /\ T.others = S.others
            /\ T.delivered = S.delivered /\ T.pending_stdout = S.pending_stdout
        BY <3>3, <4>1 DEF FailedAs
      <4>3. fault = "pipe" \/ (S.held = 0 /\ command.aliased)
        BY <3>2, <3>5
      <4>4. BooksOf(p, n)
        BY <3>3, <4>1, <4>2, <4>3, <1>3 DEF BooksOf, Books
      <4>5. Gone(p) \/ T.held = 0
        BY <4>2, <4>3 DEF Gone
      <4> QED
        BY <4>4, <4>5
    <3> QED
      BY <3>4, <3>5
  <2>3. CASE Flushed(o, p, s)
    BY <1>3, <1>5, <2>3 DEF Flushed, BooksOf, Books
  <2> QED
    BY <1>1, <2>1, <2>2, <2>3
<1> QED
  BY <1>4, <1>5

LEMMA WriteErrExtends ==
  ASSUME command \in AnyCall, NEW o, IsOutput(o),
         NEW flushing, NEW fault \in Faults
  PROVE  LET p == WriteErr(o, flushing, fault)
         IN  /\ Extends(o, p) /\ (Unfinished(o) => Unfinished(p))
             /\ \A n \in Nat : BooksOf(o, n) /\ Unfinished(o) => BooksOf(p, n)
<1> DEFINE s == StreamOf("stderr")
           flush == command.aliased /\ o.streams[s].pending_stdout
           flushed == IF flush THEN FlushStream(o, "stdout", FALSE, flushing) ELSE o
           stream == flushed.streams[s]
           accepted == Accept(stream, "stderr", fault)
           p == WriteErr(o, flushing, fault)
           Kept(q) == \A n \in Nat : BooksOf(o, n) /\ Unfinished(o) => BooksOf(q, n)
<1> SUFFICES Extends(o, p) /\ (Unfinished(o) => Unfinished(p)) /\ Kept(p)
  OBVIOUS
<1>1. \/ p = o
      \/ p = flushed
      \/ /\ p = FailStream(flushed, "stderr", "stderr", "write", fault)
         /\ fault \in {"pipe", "disk", "encode"} /\ stream.failure = "none"
      \/ p = WithStream(flushed, s, accepted) /\ stream.failure = "none"
  BY DEF WriteErr
<1>2. /\ s \in Roles /\ "stderr" \in Roles /\ "stdout" \in Roles
      /\ s = IF command.aliased THEN "stdout" ELSE "stderr"
  BY StreamsAre DEF Roles, StreamOf
<1>3. Extends(o, o) /\ Kept(o)
  <2>1. Keeps(o.streams["stdout"], o.streams["stdout"])
    BY DEF Keeps, IsOutput, IsStream, Roles
  <2> QED
    BY <2>1 DEF Extends, SameOrOneMore
<1>4. /\ Extends(o, flushed) /\ (Unfinished(o) => Unfinished(flushed))
      /\ Kept(flushed)
      /\ Unfinished(o) => Settled(flushed)
  <2>1. CASE flush
    <3>1. flushed = FlushStream(o, "stdout", FALSE, flushing)
      BY <2>1
    <3> HIDE DEF flushed
    <3>2. \A n \in Nat : BooksOf(o, n) => BooksOf(flushed, n)
      BY <1>2, <3>1, FlushBooks
    <3>3. /\ Extends(o, flushed) /\ (Unfinished(o) => Unfinished(flushed))
          /\ Unfinished(o) => Settled(flushed)
      BY <1>2, <3>1, FlushExtends
    <3> QED
      BY <3>2, <3>3
  <2>2. CASE ~flush
    BY <1>2, <1>3, <2>2 DEF Settled
  <2> QED
    BY <2>1, <2>2
<1> HIDE DEF p, flushed
<1>5. /\ IsOutput(flushed) /\ flushed.errors \in Seq(Errors)
      /\ IsStream(stream, flushed.errors)
      /\ flushed.streams["stdout"].held \in Nat /\ flushed.streams["stdout"].delivered \in Nat
      /\ flushed.streams["stdout"].others \in Nat
  BY <1>2, <1>4 DEF Extends, IsOutput, IsStream
<1>6. CASE p = o
  BY <1>3, <1>6
<1>7. CASE p = flushed
  BY <1>4, <1>7
<1>8. CASE /\ p = FailStream(flushed, "stderr", "stderr", "write", fault)
           /\ fault \in {"pipe", "disk", "encode"} /\ stream.failure = "none"
  <2>1. /\ Extends(flushed, p) /\ p.errors = flushed.errors
        /\ p.streams[s].finalized = stream.finalized
        /\ \A x \in Roles \ {s} : p.streams[x] = flushed.streams[x]
        /\ FailedAs(stream, p.streams[s], "stderr", fault, Foreign)
    <3>1. "write" \in {"write", "flush"} /\ "stderr" # "stdout"
      OBVIOUS
    <3> QED
      BY <1>2, <1>5, <1>8, <3>1, FailExtends
  <2>2. Extends(o, p)
    BY <1>4, <2>1, KeepsOn DEF Extends
  <2>3. Unfinished(o) => Unfinished(p)
    BY <1>4, <2>1 DEF Unfinished
  <2>4. ASSUME NEW n \in Nat, BooksOf(o, n), Unfinished(o)
        PROVE  BooksOf(p, n)
    <3>1. BooksOf(flushed, n) /\ Settled(flushed)
      BY <1>4, <2>4
    <3>2. CASE command.aliased
      BY <1>2, <1>5, <1>8, <2>1, <3>1, <3>2 DEF BooksOf, Books, Settled, FailedAs
    <3>3. CASE ~command.aliased
      BY <1>2, <2>1, <3>1, <3>3 DEF BooksOf
    <3> QED
      BY <3>2, <3>3
  <2> QED
    BY <2>2, <2>3, <2>4
<1>9. CASE p = WithStream(flushed, s, accepted) /\ stream.failure = "none"
  <2>1. /\ IsStream(accepted, flushed.errors) /\ SameFields(stream, accepted)
        /\ accepted.pending_stdout = stream.pending_stdout
        /\ accepted.held + accepted.delivered = stream.held + stream.delivered
        /\ accepted.held \in {0, stream.held}
    <3>1. accepted = Accept(stream, "stderr", fault)
      OBVIOUS
    <3> HIDE DEF accepted, stream
    <3>2. /\ IsStream(accepted, flushed.errors) /\ SameFields(stream, accepted)
          /\ accepted.pending_stdout = (stream.pending_stdout \/ "stderr" = "stdout")
          /\ accepted.held + accepted.delivered = stream.held + stream.delivered + 0
          /\ accepted.held = 0 \/ accepted.held = stream.held + 0
      BY <1>2, <1>5, <3>1, AcceptIs
    <3> QED
      BY <1>5, <3>2 DEF IsStream
  <2> HIDE DEF accepted
  <2>2. /\ IsOutput(p) /\ p.errors = flushed.errors /\ p.streams[s] = accepted
        /\ \A x \in Roles \ {s} : p.streams[x] = flushed.streams[x]
    BY <1>2, <1>5, <1>9, <2>1, WithStreamIs
  <2>3. /\ Settled(flushed) => Settled(p)
        /\ Unfinished(flushed) => Unfinished(p)
    BY <1>2, <2>1, <2>2 DEF Settled, Unfinished, SameFields, Roles
  <2>4. Keeps(flushed.streams["stdout"], p.streams["stdout"])
    <3>1. CASE command.aliased
      <4>1. /\ accepted.held \in Nat /\ accepted.delivered \in Nat
            /\ stream.held \in Nat /\ stream.delivered \in Nat
        BY <1>5, <2>1 DEF IsStream
      <4>2. Keeps(stream, accepted)
        BY <1>9, <2>1, <4>1 DEF Keeps, SameFields
      <4> QED
        BY <1>2, <2>2, <3>1, <4>2
    <3>2. CASE ~command.aliased
      BY <1>2, <1>5, <2>2, <3>2 DEF Keeps
    <3> QED
      BY <3>1, <3>2
  <2>5. Extends(o, p)
    BY <1>4, <2>2, <2>3, <2>4, KeepsOn DEF Extends
  <2>6. ASSUME NEW n \in Nat, BooksOf(o, n), Unfinished(o)
        PROVE  BooksOf(p, n)
    <3>1. BooksOf(flushed, n) /\ Settled(flushed)
      BY <1>4, <2>6
    <3>2. CASE command.aliased
      <4>1. stream.held = 0 /\ accepted.held = 0 /\ ~accepted.pending_stdout
        BY <1>2, <1>5, <1>9, <2>1, <3>1, <3>2 DEF BooksOf, Books, Settled
      <4>2. s = "stdout" /\ accepted.delivered = stream.delivered
        <5>1. accepted.delivered \in Nat /\ stream.delivered \in Nat
          BY <1>5, <2>1 DEF IsStream
        <5> QED
          BY <1>2, <2>1, <3>2, <4>1, <5>1
      <4>3. Books(stream, flushed.errors, n) => Books(accepted, flushed.errors, n)
        BY <1>9, <2>1, <3>2, <4>1, <4>2 DEF Books, SameFields
      <4> QED
        BY <2>2, <3>1, <4>2, <4>3 DEF BooksOf
    <3>3. CASE ~command.aliased
      BY <1>2, <2>2, <3>1, <3>3 DEF BooksOf
    <3> QED
      BY <3>2, <3>3
  <2> QED
    BY <1>4, <2>3, <2>5, <2>6
<1> QED
  BY <1>1, <1>6, <1>7, <1>8, <1>9

LEMMA WriteOutExtends ==
  ASSUME command \in AnyCall, NEW o, IsOutput(o), NEW fault \in Faults
  PROVE  LET w == WriteOut(o, fault)
         IN  /\ IsOutput(w[1]) /\ SameOrOneMore(o.errors, w[1].errors)
             /\ Unfinished(o) => Unfinished(w[1])
             /\ w[2] \in {Nothing, PipeClosed} \cup 0 .. Len(w[1].errors)
             /\ w[2] = PipeClosed => Gone(w[1])
             /\ \A n \in Nat : BooksOf(o, n) =>
                  /\ BooksOf(w[1], n + 1)
                  /\ w[2] = Foreign => command.aliased
                  /\ w[2] > 0 => w[1].errors # <<>>
             /\ LET T == w[1].streams["stdout"]
                    S == o.streams["stdout"]
                IN  T.delivered + T.held
                      = S.delivered + S.held + (IF w[2] = Nothing THEN 1 ELSE 0)
<1> DEFINE stream == o.streams["stdout"]
           failed == FailStream(o, "stdout", "stdout", "write", fault)
           accepted == Accept(stream, "stdout", fault)
           w == WriteOut(o, fault)
           T == w[1].streams["stdout"]
           Goal == 
             /\ IsOutput(w[1]) /\ SameOrOneMore(o.errors, w[1].errors)
             /\ Unfinished(o) => Unfinished(w[1])
             /\ w[2] \in {Nothing, PipeClosed} \cup 0 .. Len(w[1].errors)
             /\ w[2] = PipeClosed => Gone(w[1])
             /\ \A n \in Nat : BooksOf(o, n) =>
                  /\ BooksOf(w[1], n + 1)
                  /\ w[2] = Foreign => command.aliased
                  /\ w[2] > 0 => w[1].errors # <<>>
             /\ T.delivered + T.held
                  = stream.delivered + stream.held + (IF w[2] = Nothing THEN 1 ELSE 0)
<1> SUFFICES Goal
  OBVIOUS
<1>1. \/ w = <<o, PipeClosed>> /\ ("stdout" \in command.absent \/ stream.failure = "pipe")
      \/ /\ w = <<o, stream.cause>> /\ stream.failure # "pipe"
         /\ stream.failure # "none" \/ "stdout" \in stream.write_failed
      \/ w = <<failed, PipeClosed>> /\ fault = "pipe" /\ stream.failure = "none"
      \/ /\ w = <<failed, Len(failed.errors)>> /\ fault \in {"disk", "encode"}
         /\ stream.failure = "none"
      \/ /\ w = <<WithStream(o, "stdout", accepted), Nothing>>
         /\ "stdout" \notin command.absent /\ stream.failure = "none"
         /\ "stdout" \notin stream.write_failed
  BY DEF WriteOut
<1>2. "stdout" \in Roles /\ StreamOf("stdout") = "stdout"
  BY DEF Roles, StreamOf
<1>3. /\ IsStream(stream, o.errors) /\ o.errors \in Seq(Errors) /\ Len(o.errors) \in Nat
      /\ stream.held \in Nat /\ stream.others \in Nat /\ stream.delivered \in Nat
  BY <1>2 DEF IsOutput, IsStream
<1>4. fault \in {"pipe", "disk", "encode"} /\ stream.failure = "none" =>
        /\ Extends(o, failed)
        /\ Unfinished(o) => Unfinished(failed)
        /\ IF fault # "pipe"
             THEN /\ Len(failed.errors) \in 1 .. Len(failed.errors)
                  /\ FailedAs(stream, failed.streams["stdout"], "stdout", fault,
                              Len(failed.errors))
             ELSE /\ failed.errors = o.errors
                  /\ FailedAs(stream, failed.streams["stdout"], "stdout", fault, Foreign)
  <2> HAVE fault \in {"pipe", "disk", "encode"} /\ stream.failure = "none"
  <2> HIDE DEF failed
  <2>1. /\ Extends(o, failed)
        /\ failed.streams["stdout"].finalized = stream.finalized
        /\ \A x \in Roles \ {"stdout"} : failed.streams[x] = o.streams[x]
        /\ IF "stdout" = "stdout" /\ fault # "pipe"
             THEN /\ Len(failed.errors) \in 1 .. Len(failed.errors)
                  /\ FailedAs(stream, failed.streams["stdout"], "stdout", fault,
                              Len(failed.errors))
             ELSE /\ failed.errors = o.errors
                  /\ FailedAs(stream, failed.streams["stdout"], "stdout", fault, Foreign)
    BY <1>2, FailExtends DEF failed
  <2>2. Unfinished(o) => Unfinished(failed)
    BY <2>1 DEF Unfinished, Roles
  <2> QED
    BY <2>1, <2>2
<1> HIDE DEF w, failed
<1>5. CASE w = <<o, PipeClosed>> /\ ("stdout" \in command.absent \/ stream.failure = "pipe")
  <2>1. w[1] = o /\ w[2] = PipeClosed /\ T = stream
    BY <1>5
  <2>2. \A n \in Nat : BooksOf(o, n) => BooksOf(o, n + 1)
    BY <1>3 DEF BooksOf, Books
  <2>3. Gone(w[1])
    BY <1>5, <2>1 DEF Gone
  <2> QED
    BY <1>3, <2>1, <2>2, <2>3 DEF SameOrOneMore, PipeClosed, Foreign, Nothing
<1>6. CASE /\ w = <<o, stream.cause>> /\ stream.failure # "pipe"
           /\ stream.failure # "none" \/ "stdout" \in stream.write_failed
  <2>1. w[1] = o /\ w[2] = stream.cause /\ T = stream /\ stream.cause \in 0 .. Len(o.errors)
    BY <1>3, <1>6 DEF IsStream
  <2>2. \A n \in Nat : BooksOf(o, n) =>
          BooksOf(o, n + 1) /\ (stream.cause = Foreign => command.aliased)
    BY <1>3, <1>6 DEF BooksOf, Books
  <2>3. stream.cause > 0 => o.errors # <<>>
    BY <1>3, <2>1
  <2> QED
    BY <1>3, <2>1, <2>2, <2>3 DEF SameOrOneMore, PipeClosed, Nothing
<1>7. CASE w = <<failed, PipeClosed>> /\ fault = "pipe" /\ stream.failure = "none"
  <2>1. w[1] = failed /\ w[2] = PipeClosed /\ T = failed.streams["stdout"]
    BY <1>7
  <2>2. /\ Extends(o, failed) /\ (Unfinished(o) => Unfinished(failed))
        /\ failed.errors = o.errors
        /\ FailedAs(stream, T, "stdout", "pipe", Foreign)
    BY <1>4, <1>7, <2>1
  <2>3. \A n \in Nat : BooksOf(o, n) => BooksOf(failed, n + 1)
    BY <1>3, <1>7, <2>1, <2>2 DEF BooksOf, Books, FailedAs
  <2>4. Gone(w[1]) /\ T.delivered + T.held = stream.delivered + stream.held
    BY <2>1, <2>2 DEF Gone, FailedAs
  <2> QED
    BY <1>3, <2>1, <2>2, <2>3, <2>4 DEF Extends, PipeClosed, Foreign, Nothing
<1>8. CASE /\ w = <<failed, Len(failed.errors)>> /\ fault \in {"disk", "encode"}
           /\ stream.failure = "none"
  <2>1. w[1] = failed /\ w[2] = Len(failed.errors) /\ T = failed.streams["stdout"]
    BY <1>8
  <2>2. /\ Extends(o, failed) /\ (Unfinished(o) => Unfinished(failed))
        /\ Len(failed.errors) \in 1 .. Len(failed.errors)
        /\ FailedAs(stream, T, "stdout", fault, Len(failed.errors))
    BY <1>4, <1>8, <2>1
  <2>3. failed.errors # <<>> /\ Len(failed.errors) > 0 /\ Len(failed.errors) \in Nat
    <3>1. failed.errors \in Seq(Errors)
      BY <2>2 DEF Extends, IsOutput
    <3> QED
      BY <2>2, <3>1
  <2>4. \A n \in Nat : BooksOf(o, n) => BooksOf(failed, n + 1)
    BY <1>3, <1>8, <2>1, <2>2, <2>3 DEF BooksOf, Books, FailedAs, Foreign
  <2>5. T.delivered + T.held = stream.delivered + stream.held
    BY <2>2 DEF FailedAs
  <2> QED
    BY <1>3, <2>1, <2>2, <2>3, <2>4, <2>5 DEF Extends, PipeClosed, Foreign, Nothing
<1>9. CASE /\ w = <<WithStream(o, "stdout", accepted), Nothing>>
           /\ "stdout" \notin command.absent /\ stream.failure = "none"
           /\ "stdout" \notin stream.write_failed
  <2>1. /\ IsStream(accepted, o.errors) /\ SameFields(stream, accepted)
        /\ accepted.pending_stdout = TRUE
        /\ accepted.held + accepted.delivered = stream.held + stream.delivered + 1
        /\ \/ accepted.held = 0 /\ accepted.others = 0
           \/ accepted.held = stream.held + 1 /\ accepted.others = stream.others
    <3>1. accepted = Accept(stream, "stdout", fault)
      OBVIOUS
    <3> HIDE DEF accepted, stream
    <3>2. /\ IsStream(accepted, o.errors) /\ SameFields(stream, accepted)
          /\ accepted.pending_stdout = (stream.pending_stdout \/ "stdout" = "stdout")
          /\ accepted.held + accepted.delivered
               = stream.held + stream.delivered + (IF "stdout" = "stdout" THEN 1 ELSE 0)
          /\ \/ accepted.held = 0 /\ accepted.others = 0
             \/ accepted.held = stream.held + (IF "stdout" = "stdout" THEN 1 ELSE 0)
                /\ ("stdout" = "stdout" => accepted.others = stream.others)
      BY <1>2, <1>3, <1>9, <3>1, AcceptIs
    <3> QED
      BY <3>2
  <2> HIDE DEF accepted
  <2>2. /\ IsOutput(w[1]) /\ w[1].errors = o.errors /\ T = accepted /\ w[2] = Nothing
        /\ \A x \in Roles \ {"stdout"} : w[1].streams[x] = o.streams[x]
    BY <1>2, <1>9, <2>1, WithStreamIs
  <2>3. accepted.held \in Nat /\ accepted.delivered \in Nat
    BY <2>1 DEF IsStream
  <2>4. \A n \in Nat : BooksOf(o, n) => BooksOf(w[1], n + 1)
    <3> SUFFICES ASSUME NEW n \in Nat, Books(stream, o.errors, n)
                 PROVE  Books(accepted, o.errors, n + 1)
      BY <2>2 DEF BooksOf
    <3>1. stream.delivered + stream.held <= n /\ (o.errors # <<>> => stream.delivered + stream.held < n)
      BY <1>9 DEF Books
    <3>2. /\ accepted.delivered + accepted.held <= n + 1
          /\ o.errors # <<>> => accepted.delivered + accepted.held < n + 1
      <4>1. accepted.delivered + accepted.held = stream.delivered + stream.held + 1
        BY <1>3, <2>1, <2>3
      <4>2. accepted.delivered + accepted.held \in Nat /\ stream.delivered + stream.held \in Nat
        BY <1>3, <2>3
      <4> QED
        BY <3>1, <4>1, <4>2
    <3>3. accepted.others > 0 => accepted.held > 0
      BY <1>3, <2>1
    <3>4. ~command.aliased => accepted.others = 0
      BY <2>1 DEF Books
    <3> QED
      BY <1>9, <2>1, <3>2, <3>3, <3>4 DEF Books, SameFields
  <2>5. Unfinished(o) => Unfinished(w[1])
    BY <2>1, <2>2 DEF Unfinished, SameFields
  <2> QED
    BY <1>3, <2>1, <2>2, <2>3, <2>4, <2>5 DEF SameOrOneMore, PipeClosed, Foreign, Nothing
<1> QED
  BY <1>1, <1>5, <1>6, <1>7, <1>8, <1>9

LEMMA ReportExtends ==
  ASSUME command \in AnyCall, NEW o, IsOutput(o), NEW i \in DOMAIN o.errors,
         ~o.errors[i].reported, NEW flushing, NEW fault \in Faults
  PROVE  LET p == ReportFailure(o, i, flushing, fault)
         IN  /\ IsOutput(p)
             /\ Settled(o) => Settled(p)
             /\ Unfinished(o) => Unfinished(p)
             /\ Keeps(o.streams["stdout"], p.streams["stdout"])
             /\ o.errors # <<>> /\ p.errors # <<>>
             /\ \A n \in Nat : BooksOf(o, n) /\ Unfinished(o) => BooksOf(p, n)
<1> DEFINE e == Told(o.errors[i])
           told == Telling(o, i)
           p == ReportFailure(o, i, flushing, fault)
<1> SUFFICES /\ IsOutput(p)
             /\ Settled(o) => Settled(p)
             /\ Unfinished(o) => Unfinished(p)
             /\ Keeps(o.streams["stdout"], p.streams["stdout"])
             /\ o.errors # <<>> /\ p.errors # <<>>
             /\ \A n \in Nat : BooksOf(o, n) /\ Unfinished(o) => BooksOf(p, n)
  OBVIOUS
<1>1. PICK operation \in {"write", "flush"} : o.errors[i] = NewError(operation)
  <2>1. o.errors[i] \in Errors
    BY DEF IsOutput
  <2> QED
    BY <2>1 DEF Errors, NewErrors, NewError
<1>2. e \in Errors
  <2>1. e = [NewError(operation) EXCEPT !.reported = TRUE, !.diagnostics = 1]
    BY <1>1 DEF NewError, Told
  <2> QED
    BY <2>1 DEF Errors, NewErrors
<1>3. /\ told = [streams |-> told.streams, errors |-> told.errors]
      /\ told.streams = o.streams
      /\ told.errors = [o.errors EXCEPT ![i] = e]
  BY DEF IsOutput, Telling
<1>4. p = WriteErr(told, flushing, fault)
  BY DEF ReportFailure
<1> HIDE DEF told, e, p
<1>5. told.errors \in Seq(Errors) /\ Len(told.errors) = Len(o.errors)
  BY <1>2, <1>3 DEF IsOutput
<1>6. IsOutput(told)
  BY <1>3, <1>5 DEF IsOutput, IsStream
<1>7. (Settled(o) => Settled(told)) /\ (Unfinished(o) => Unfinished(told))
  BY <1>3 DEF Settled, Unfinished
<1>8. o.errors # <<>> /\ told.errors # <<>>
  BY <1>3
<1>9. \A n \in Nat : BooksOf(o, n) => BooksOf(told, n)
  BY <1>3, <1>8 DEF BooksOf, Books
<1>10. /\ Extends(told, p) /\ (Unfinished(told) => Unfinished(p))
       /\ \A n \in Nat : BooksOf(told, n) /\ Unfinished(told) => BooksOf(p, n)
  BY <1>4, <1>6, WriteErrExtends
<1>11. p.errors # <<>>
  BY <1>5, <1>8, <1>10 DEF Extends, SameOrOneMore
<1> QED
  BY <1>3, <1>7, <1>8, <1>9, <1>10, <1>11 DEF Extends

-----------------------------------------------------------------------------
CommandInv ==
  /\ command \in AnyCall
  /\ IsOutput(output)
  /\ phase \in {"run", "flush", "report", "end"}
  /\ phase = "run" => /\ output.errors \in Seq(NewErrors)
                      /\ raised \in {Nothing, PipeClosed} \cup 0 .. Len(output.errors)
  /\ phase # "end" => Unfinished(output)
  /\ phase = "report" => Settled(output)
  /\ phase = "end" => Unreported = {}

LEMMA CommandInitInv == ASSUME NEW c \in AnyCall, CommandInit(c) PROVE CommandInv
<1>1. IsOutput(output)
  <2>1. IsStream(FreshStream, <<>>)
    BY DEF IsStream, Shape, FreshStream, Foreign
  <2>2. output.errors = <<>> /\ output.streams = [role \in Roles |-> FreshStream]
    BY DEF CommandInit
  <2>3. output = [streams |-> output.streams, errors |-> output.errors]
    BY DEF CommandInit
  <2> QED
    BY <2>1, <2>2, <2>3 DEF IsOutput
<1>2. Unfinished(output)
  BY DEF CommandInit, Unfinished, FreshStream
<1> QED
  BY <1>1, <1>2 DEF CommandInit, CommandInv

LEMMA StillNew ==
  ASSUME NEW errors \in Seq(NewErrors), NEW more, SameOrOneMore(errors, more)
  PROVE  more \in Seq(NewErrors) /\ Len(more) \in Nat /\ Len(errors) <= Len(more)
BY DEF SameOrOneMore

LEMMA CommandNextInv ==
  ASSUME CommandInv, [CommandNext]_commandVars
  PROVE  CommandInv'
<1> USE DEF CommandInv
<1>1. CASE PrintOut
  <2>1. PICK fault \in Faults :
          /\ output' = WriteOut(output, fault)[1]
          /\ raised' = IF command.parser THEN Nothing ELSE WriteOut(output, fault)[2]
    BY <1>1 DEF PrintOut
  <2>2. /\ IsOutput(output') /\ SameOrOneMore(output.errors, output'.errors)
        /\ Unfinished(output')
        /\ raised' \in {Nothing, PipeClosed} \cup 0 .. Len(output'.errors)
    BY <1>1, <2>1, WriteOutExtends DEF PrintOut
  <2> QED
    BY <1>1, <2>2, StillNew DEF PrintOut, IsOutput, IsStream, Unfinished
<1>2. CASE PrintErr
  <2>1. /\ IsOutput(output') /\ SameOrOneMore(output.errors, output'.errors)
        /\ Unfinished(output')
    BY <1>2, WriteErrExtends DEF PrintErr, Extends
  <2> QED
    BY <1>2, <2>1, StillNew DEF PrintErr, IsOutput, IsStream, Unfinished
<1>3. CASE MainQuiet
  BY <1>3 DEF MainQuiet, IsOutput, IsStream, Unfinished
<1>4. CASE MainError
  <2>1. IsOutput(output') /\ Unfinished(output')
    BY <1>4, WriteErrExtends DEF MainError, Extends
  <2> QED
    BY <1>4, <2>1 DEF MainError, IsOutput, IsStream, Unfinished
<1>5. CASE MainOutputError
  <2>1. PICK flushing \in FlushFaults, fault \in Faults :
          output' = IF raised = Foreign THEN WriteErr(output, flushing, fault)
                    ELSE ReportFailure(output, raised, flushing, fault)
    BY <1>5 DEF MainOutputError
  <2>2. ASSUME raised = Foreign PROVE IsOutput(output') /\ Unfinished(output')
    BY <1>5, <2>1, <2>2, WriteErrExtends DEF MainOutputError, Extends
  <2>3. ASSUME raised # Foreign PROVE IsOutput(output') /\ Unfinished(output')
    <3>1. raised \in DOMAIN output.errors /\ output.errors[raised] \in NewErrors
      BY <1>5, <2>3 DEF MainOutputError, Foreign
    <3>2. ~output.errors[raised].reported
      BY <3>1 DEF NewErrors, NewError
    <3> QED
      BY <1>5, <2>1, <2>3, <3>1, <3>2, ReportExtends DEF MainOutputError
  <2> QED
    BY <1>5, <2>2, <2>3 DEF MainOutputError, IsOutput, IsStream, Unfinished
<1>6. CASE FlushOutput
  <2>1. IsOutput(output') /\ Settled(output') /\ Unfinished(output')
    BY <1>6, FlushExtends DEF FlushOutput, Extends, Roles
  <2> QED
    BY <1>6, <2>1 DEF FlushOutput, IsOutput, IsStream, Settled, Unfinished
<1>7. CASE ReportNext
  <2>1. IsOutput(output') /\ Settled(output') /\ Unfinished(output')
    BY <1>7, ReportExtends DEF ReportNext, Unreported
  <2> QED
    BY <1>7, <2>1 DEF ReportNext, IsOutput, IsStream, Settled, Unfinished
<1>8. CASE FlushDiagnostics
  <2>1. IsOutput(output') /\ output'.errors = output.errors
    BY <1>8, FlushExtends DEF FlushDiagnostics, Extends, Roles
  <2> QED
    BY <1>8, <2>1 DEF FlushDiagnostics, IsOutput, IsStream, Unreported
<1>9. CASE UNCHANGED commandVars
  BY <1>9 DEF commandVars, IsOutput, IsStream, Unfinished, Settled, Unreported
<1> QED
  BY <1>1, <1>2, <1>3, <1>4, <1>5, <1>6, <1>7, <1>8, <1>9 DEF CommandNext

-----------------------------------------------------------------------------
(* The status of the call, and what it says of the output.                 *)
Held == output.streams["stdout"].held

Answers ==
  /\ raised \in {Nothing, PipeClosed} \cup Nat
  /\ raised # Nothing => left = <<>> /\ ~command.parser
  /\ raised = PipeClosed => Gone(output)
  /\ raised = Foreign => command.aliased /\ Delivered + Held < asked
  /\ raised > Foreign => output.errors # <<>>

Statuses ==
  /\ phase = "run" /\ raised = Nothing /\ ~command.parser => Delivered + Held = asked
  /\ phase # "run" =>
       \/ status = command.ends
       \/ /\ status = 1 /\ ~command.parser
          /\ raised \in Nat \/ (phase # "flush" /\ output.errors # <<>>)
  /\ phase = "flush" /\ ~command.parser =>
       status = 1 \/ Gone(output) \/ Delivered + Held = asked
  /\ phase \in {"report", "end"} /\ ~command.parser =>
       status = 1 \/ Gone(output) \/ Delivered = asked

AccountInv == asked \in Nat /\ BooksOf(output, asked) /\ Answers /\ Statuses

LEMMA AccountInit == ASSUME NEW c \in AnyCall, CommandInit(c) PROVE AccountInv
<1>1. output.streams["stdout"] = FreshStream /\ output.errors = <<>>
  BY DEF CommandInit, Roles
<1>2. BooksOf(output, 0)
  BY <1>1 DEF BooksOf, Books, FreshStream
<1>3. Delivered = 0 /\ Held = 0
  BY <1>1 DEF Delivered, Held, FreshStream
<1> QED
  BY <1>1, <1>2, <1>3
  DEF CommandInit, AccountInv, Answers, Statuses, Nothing, PipeClosed, Foreign

(* Once the output is settled, what remains keeps the answer.              *)
LEMMA CountsNext ==
  ASSUME CommandInv'
  PROVE  /\ Held' = output'.streams["stdout"].held
         /\ Delivered' = output'.streams["stdout"].delivered
         /\ Held' \in Nat /\ Delivered' \in Nat
BY DEF CommandInv, IsOutput, IsStream, Roles, Held, Delivered

LEMMA AnswersKept ==
  ASSUME CommandInv, AccountInv, CommandInv', BooksOf(output', asked),
         Keeps(output.streams["stdout"], output'.streams["stdout"]),
         output.errors # <<>> => output'.errors # <<>>,
         UNCHANGED <<command, raised, asked>>, left' = left \/ raised = Nothing
  PROVE  /\ asked' \in Nat /\ BooksOf(output, asked)' /\ Answers'
         /\ Delivered' + Held' = Delivered + Held
         /\ Gone(output) => Gone(output')
         /\ Delivered = asked => Delivered' = asked
<1>1. /\ Held \in Nat /\ Delivered \in Nat /\ Held' \in Nat /\ Delivered' \in Nat
  BY OutCounts, CountsNext DEF CommandInv, Held, Delivered
<1>2. asked' \in Nat /\ BooksOf(output, asked)'
  BY DEF AccountInv, BooksOf, Books, Gone
<1>3. Delivered' + Held' = Delivered + Held /\ Delivered <= Delivered'
  BY <1>1 DEF Keeps, Held, Delivered
<1>4. Gone(output) => Gone(output')
  BY DEF Keeps, Gone
<1>5. Delivered' + Held' <= asked
  BY DEF BooksOf, Books, Held, Delivered
<1>6. Delivered = asked => Delivered' = asked
  BY <1>1, <1>3, <1>5 DEF AccountInv
<1>7. Answers'
  BY <1>3, <1>4 DEF AccountInv, Answers, Gone
<1> QED
  BY <1>2, <1>3, <1>4, <1>6, <1>7

LEMMA AccountNext ==
  ASSUME CommandInv, AccountInv, [CommandNext]_commandVars
  PROVE  AccountInv'
<1> USE DEF CommandInv
<1>1. CommandInv'
  BY CommandNextInv
<1>2. asked \in Nat /\ BooksOf(output, asked) /\ Answers /\ Statuses
  BY DEF AccountInv
<1>3. ASSUME NEW flushing, NEW fault \in Faults, phase # "end",
             output' = WriteErr(output, flushing, fault)
      PROVE  /\ BooksOf(output', asked)
             /\ Keeps(output.streams["stdout"], output'.streams["stdout"])
             /\ output.errors # <<>> => output'.errors # <<>>
  BY <1>2, <1>3, WriteErrExtends, ErrorsStay DEF Extends
<1>4. ASSUME NEW i \in DOMAIN output.errors, ~output.errors[i].reported,
             NEW flushing, NEW fault \in Faults, phase # "end",
             output' = ReportFailure(output, i, flushing, fault)
      PROVE  /\ BooksOf(output', asked)
             /\ Keeps(output.streams["stdout"], output'.streams["stdout"])
             /\ output.errors # <<>> /\ output'.errors # <<>>
  BY <1>2, <1>4, ReportExtends
<1>5. CASE PrintOut
  <2>1. PICK fault \in Faults :
          /\ output' = WriteOut(output, fault)[1]
          /\ raised' = IF command.parser THEN Nothing ELSE WriteOut(output, fault)[2]
    BY <1>5 DEF PrintOut
  <2> DEFINE w == WriteOut(output, fault)
             S == output.streams["stdout"]
             T == output'.streams["stdout"]
  <2>2. /\ SameOrOneMore(output.errors, output'.errors)
        /\ w[2] \in {Nothing, PipeClosed} \cup 0 .. Len(output'.errors)
        /\ w[2] = PipeClosed => Gone(output')
        /\ BooksOf(output', asked + 1)
        /\ w[2] = Foreign => command.aliased
        /\ w[2] > 0 => output'.errors # <<>>
        /\ T.delivered + T.held = S.delivered + S.held + (IF w[2] = Nothing THEN 1 ELSE 0)
    BY <1>2, <2>1, WriteOutExtends
  <2> HIDE DEF w
  <2>3. raised = Nothing /\ phase = "run" /\ phase' = "run" /\ command' = command
        /\ asked' = asked + 1 /\ left' = IF raised' = Nothing THEN Tail(left) ELSE <<>>
    BY <1>2, <1>5 DEF PrintOut, Answers
  <2>4. raised' = IF command.parser THEN Nothing ELSE w[2]
    BY <2>1 DEF w
  <2>5. S.delivered + S.held <= asked
    BY <1>2 DEF BooksOf, Books
  <2>6. /\ S.delivered \in Nat /\ S.held \in Nat /\ T.delivered \in Nat /\ T.held \in Nat
    BY <1>1, OutCounts, CountsNext
  <2>7. Answers'
    <3>1. raised' \in {Nothing, PipeClosed} \cup Nat
      BY <1>1, <2>2, <2>4
    <3>2. raised' = PipeClosed => Gone(output')
      BY <2>2, <2>4 DEF PipeClosed, Nothing
    <3>3. raised' = Foreign => command.aliased /\ Delivered' + Held' < asked'
      BY <1>2, <2>2, <2>3, <2>4, <2>5, <2>6 DEF Foreign, Nothing, Delivered, Held
    <3>4. raised' > Foreign => output'.errors # <<>>
      BY <2>2, <2>4 DEF Foreign, Nothing
    <3> QED
      BY <2>3, <2>4, <3>1, <3>2, <3>3, <3>4 DEF Answers, Gone
  <2>8. Statuses'
    <3>1. raised' = Nothing /\ ~command.parser => Delivered' + Held' = asked'
      BY <1>2, <2>2, <2>3, <2>4, <2>6 DEF Statuses, Delivered, Held
    <3> QED
      BY <2>3, <3>1 DEF Statuses
  <2>9. asked' \in Nat /\ BooksOf(output, asked)'
    BY <1>2, <2>2, <2>3 DEF BooksOf, Books
  <2> QED
    BY <2>7, <2>8, <2>9 DEF AccountInv
<1>6. CASE PrintErr
  <2>1. PICK flushing \in FlushFaults, fault \in Faults :
          output' = WriteErr(output, flushing, fault)
    BY <1>6 DEF PrintErr
  <2>2. /\ phase = "run" /\ phase' = "run" /\ raised = Nothing
        /\ UNCHANGED <<command, raised, asked>>
    BY <1>2, <1>6 DEF PrintErr, Answers
  <2>3. /\ BooksOf(output', asked)
        /\ Keeps(output.streams["stdout"], output'.streams["stdout"])
        /\ output.errors # <<>> => output'.errors # <<>>
    BY <1>3, <2>1, <2>2
  <2>4. /\ asked' \in Nat /\ BooksOf(output, asked)' /\ Answers'
        /\ Delivered' + Held' = Delivered + Held
    BY <1>1, <2>2, <2>3, AnswersKept
  <2>5. Statuses'
    BY <1>2, <2>2, <2>4 DEF Statuses
  <2> QED
    BY <2>4, <2>5 DEF AccountInv
<1>7. CASE MainQuiet
  <2>1. /\ asked' \in Nat /\ BooksOf(output, asked)' /\ Answers'
        /\ Delivered' = Delivered /\ Held' = Held
    BY <1>2, <1>7 DEF MainQuiet, BooksOf, Books, Answers, Gone, Delivered, Held
  <2>2. Statuses'
    BY <1>2, <1>7, <2>1 DEF MainQuiet, Statuses, Answers, Gone
  <2> QED
    BY <2>1, <2>2 DEF AccountInv
<1>8. CASE MainError
  <2>1. PICK flushing \in FlushFaults, fault \in Faults :
          output' = WriteErr(output, flushing, fault)
    BY <1>8 DEF MainError
  <2>2. /\ phase = "run" /\ phase' = "flush" /\ raised = Nothing /\ status' = command.ends
        /\ UNCHANGED <<command, raised, asked, left>>
    BY <1>8 DEF MainError
  <2>3. /\ BooksOf(output', asked)
        /\ Keeps(output.streams["stdout"], output'.streams["stdout"])
        /\ output.errors # <<>> => output'.errors # <<>>
    BY <1>3, <2>1, <2>2
  <2>4. /\ asked' \in Nat /\ BooksOf(output, asked)' /\ Answers'
        /\ Delivered' + Held' = Delivered + Held
    BY <1>1, <2>2, <2>3, AnswersKept
  <2>5. Statuses'
    BY <1>2, <2>2, <2>4 DEF Statuses
  <2> QED
    BY <2>4, <2>5 DEF AccountInv
<1>9. CASE MainOutputError
  <2>1. PICK flushing \in FlushFaults, fault \in Faults :
          output' = IF raised = Foreign THEN WriteErr(output, flushing, fault)
                    ELSE ReportFailure(output, raised, flushing, fault)
    BY <1>9 DEF MainOutputError
  <2>2. /\ phase = "run" /\ phase' = "flush" /\ raised \in Nat /\ status' = 1
        /\ ~command.parser
        /\ UNCHANGED <<command, raised, asked, left>>
    BY <1>2, <1>9 DEF MainOutputError, Answers
  <2>3. /\ BooksOf(output', asked)
        /\ Keeps(output.streams["stdout"], output'.streams["stdout"])
        /\ output.errors # <<>> => output'.errors # <<>>
    <3>1. CASE raised = Foreign
      BY <1>3, <2>1, <2>2, <3>1
    <3>2. CASE raised # Foreign
      <4>1. raised \in DOMAIN output.errors /\ output.errors[raised] \in NewErrors
        BY <2>2, <3>2 DEF Foreign, Nothing, PipeClosed
      <4>2. ~output.errors[raised].reported
        BY <4>1 DEF NewErrors, NewError
      <4> QED
        BY <1>4, <2>1, <2>2, <3>2, <4>1, <4>2
    <3> QED
      BY <3>1, <3>2
  <2>4. asked' \in Nat /\ BooksOf(output, asked)' /\ Answers'
    BY <1>1, <2>2, <2>3, AnswersKept
  <2>5. Statuses'
    BY <2>2 DEF Statuses
  <2> QED
    BY <2>4, <2>5 DEF AccountInv
<1>10. CASE FlushOutput
  <2>1. PICK fault \in FlushFaults : output' = FlushStream(output, "stdout", FALSE, fault)
    BY <1>10 DEF FlushOutput
  <2>2. /\ phase = "flush" /\ phase' = "report" /\ status' = StatusAfter(output'.errors)
        /\ UNCHANGED <<command, raised, asked, left>>
    BY <1>10 DEF FlushOutput
  <2>3. /\ BooksOf(output', asked)
        /\ \/ output'.errors # <<>> \/ Gone(output')
           \/ output'.streams["stdout"].held = 0
    BY <1>2, <2>1, <2>2, FlushBooks DEF Roles
  <2>4. /\ Keeps(output.streams["stdout"], output'.streams["stdout"])
        /\ output.errors # <<>> => output'.errors # <<>>
    BY <2>1, FlushExtends, ErrorsStay DEF Extends, Roles
  <2>5. /\ asked' \in Nat /\ BooksOf(output, asked)' /\ Answers'
        /\ Delivered' + Held' = Delivered + Held
        /\ Gone(output) => Gone(output')
    BY <1>1, <2>2, <2>3, <2>4, AnswersKept
  <2>6. Held' = output'.streams["stdout"].held /\ Delivered' \in Nat
    BY <1>1, CountsNext
  <2>7. Statuses'
    <3>1. status' = IF output'.errors # <<>> /\ ~command.parser THEN 1 ELSE status
      BY <2>2 DEF StatusAfter
    <3>2. \/ status' = command.ends
          \/ /\ status' = 1 /\ ~command.parser
             /\ raised \in Nat \/ output'.errors # <<>>
      BY <1>2, <2>2, <3>1 DEF Statuses
    <3>3. ~command.parser => status' = 1 \/ Gone(output') \/ Delivered' = asked
      BY <1>2, <2>2, <2>3, <2>5, <2>6, <3>1 DEF Statuses
    <3> QED
      BY <2>2, <3>2, <3>3 DEF Statuses, Gone
  <2> QED
    BY <2>5, <2>7 DEF AccountInv
<1>11. CASE ReportNext
  <2>1. PICK i \in Unreported, flushing \in FlushFaults, fault \in Faults :
          output' = ReportFailure(output, i, flushing, fault)
    BY <1>11 DEF ReportNext
  <2>2. phase = "report" /\ UNCHANGED <<command, left, raised, status, phase, asked>>
    BY <1>11 DEF ReportNext
  <2>3. /\ BooksOf(output', asked)
        /\ Keeps(output.streams["stdout"], output'.streams["stdout"])
        /\ output.errors # <<>> /\ output'.errors # <<>>
    BY <1>4, <2>1, <2>2 DEF Unreported
  <2>4. /\ asked' \in Nat /\ BooksOf(output, asked)' /\ Answers'
        /\ Gone(output) => Gone(output')
        /\ Delivered = asked => Delivered' = asked
    BY <1>1, <2>2, <2>3, AnswersKept
  <2>5. Statuses'
    BY <1>2, <2>2, <2>3, <2>4 DEF Statuses, Gone
  <2> QED
    BY <2>4, <2>5 DEF AccountInv
<1>12. CASE FlushDiagnostics
  <2>1. PICK fault \in FlushFaults : output' = FlushStream(output, "stderr", TRUE, fault)
    BY <1>12 DEF FlushDiagnostics
  <2>2. phase = "report" /\ phase' = "end" /\ UNCHANGED <<command, left, raised, status, asked>>
    BY <1>12 DEF FlushDiagnostics
  <2>3. BooksOf(output', asked)
    BY <1>2, <2>1, FlushBooks DEF Roles
  <2>4. /\ Keeps(output.streams["stdout"], output'.streams["stdout"])
        /\ output.errors # <<>> => output'.errors # <<>>
    BY <2>1, FlushExtends, ErrorsStay DEF Extends, Roles
  <2>5. /\ asked' \in Nat /\ BooksOf(output, asked)' /\ Answers'
        /\ Gone(output) => Gone(output')
        /\ Delivered = asked => Delivered' = asked
    BY <1>1, <2>2, <2>3, <2>4, AnswersKept
  <2>6. Statuses'
    BY <1>2, <2>2, <2>4, <2>5 DEF Statuses, Gone
  <2> QED
    BY <2>5, <2>6 DEF AccountInv
<1>13. CASE UNCHANGED commandVars
  BY <1>2, <1>13
  DEF commandVars, AccountInv, BooksOf, Books, Answers, Statuses, Gone, Delivered, Held
<1> QED
  BY <1>5, <1>6, <1>7, <1>8, <1>9, <1>10, <1>11, <1>12, <1>13 DEF CommandNext

(***************************************************************************)
(* No output is lost silently: a call that ends with the status it has     *)
(* chosen has passed on every value it wrote (or its consumer has left),   *)
(* for any command, streams and faults (cli.py, _main and                  *)
(* _flush_command_output).                                                 *)
(***************************************************************************)
THEOREM OutputAccountedAlways == CommandSpec => []OutputAccounted
<1>1. (\E c \in AnyCall : CommandInit(c)) => CommandInv /\ AccountInv
  BY CommandInitInv, AccountInit
<1>2. CommandInv /\ AccountInv /\ [CommandNext]_commandVars => CommandInv' /\ AccountInv'
  BY CommandNextInv, AccountNext
<1>3. CommandInv /\ AccountInv => OutputAccounted
  <2> SUFFICES ASSUME CommandInv, AccountInv PROVE OutputAccounted
    OBVIOUS
  <2>1. Delivered \in Nat /\ asked \in Nat
    BY OutCounts DEF CommandInv, AccountInv, Delivered
  <2> QED
    BY <2>1 DEF OutputAccounted, Ended, AccountInv, Statuses, Gone
<1> QED
  BY <1>1, <1>2, <1>3, PTL DEF CommandSpec

(***************************************************************************)
(* Diagnostics do not change the answer: when all the output got through,  *)
(* or no failure is known, the status is the chosen one, whatever happened *)
(* to stderr, unless what it shares with the output was broken under it    *)
(* (cli.py, _write_stderr and _main).                                      *)
(***************************************************************************)
THEOREM DiagnosticsHarmlessAlways == CommandSpec => []DiagnosticsHarmless
<1>1. (\E c \in AnyCall : CommandInit(c)) => CommandInv /\ AccountInv
  BY CommandInitInv, AccountInit
<1>2. CommandInv /\ AccountInv /\ [CommandNext]_commandVars => CommandInv' /\ AccountInv'
  BY CommandNextInv, AccountNext
<1>3. CommandInv /\ AccountInv => DiagnosticsHarmless
  <2> SUFFICES ASSUME CommandInv, AccountInv, Ended,
                      command.parser \/ Delivered = asked \/ output.errors = <<>>,
                      status # command.ends
               PROVE  command.aliased /\ Delivered < asked /\ raised = Foreign
    BY DEF DiagnosticsHarmless
  <2>1. Delivered \in Nat /\ Held \in Nat /\ asked \in Nat
    BY OutCounts DEF CommandInv, AccountInv, Delivered, Held
  <2>2. ~command.parser /\ (raised \in Nat \/ output.errors # <<>>)
    BY DEF AccountInv, Statuses, Ended
  <2>3. output.errors = <<>>
    <3>1. ASSUME output.errors # <<>> PROVE FALSE
      <4>1. /\ Delivered = asked
            /\ Delivered + Held <= asked
            /\ Delivered + Held < asked \/ Held > 0
        BY <2>2, <3>1 DEF AccountInv, BooksOf, Books, Delivered, Held
      <4> QED
        BY <2>1, <4>1
    <3> QED
      BY <3>1
  <2>4. raised = Foreign
    BY <2>2, <2>3 DEF AccountInv, Answers, Foreign
  <2>5. command.aliased /\ Delivered + Held < asked
    BY <2>4 DEF AccountInv, Answers
  <2> QED
    BY <2>1, <2>4, <2>5
<1> QED
  BY <1>1, <1>2, <1>3, PTL DEF CommandSpec

(***************************************************************************)
(* Each failure of the output is reported once, and none appears after the *)
(* last report, for any command, streams and faults (cli.py, _main and     *)
(* _flush_stream).                                                         *)
(***************************************************************************)
THEOREM FailuresReportedOnceAlways == CommandSpec => []FailuresReportedOnce
<1>1. (\E c \in AnyCall : CommandInit(c)) => CommandInv
  BY CommandInitInv
<1>2. CommandInv => FailuresReportedOnce
  <2> SUFFICES ASSUME CommandInv, Ended, NEW i \in DOMAIN output.errors
               PROVE  output.errors[i].reported /\ output.errors[i].diagnostics = 1
    BY DEF FailuresReportedOnce
  <2>1. output.errors[i] \in Errors /\ output.errors[i].reported
    BY DEF CommandInv, Ended, Unreported, IsOutput
  <2>2. PICK operation \in {"write", "flush"} :
          output.errors[i] \in {NewError(operation),
            [NewError(operation) EXCEPT !.reported = TRUE, !.diagnostics = 1]}
    BY <2>1 DEF Errors, NewErrors
  <2>3. ~NewError(operation).reported
    BY DEF NewError
  <2>4. output.errors[i] = [NewError(operation) EXCEPT !.reported = TRUE, !.diagnostics = 1]
    BY <2>1, <2>2, <2>3
  <2>5. output.errors[i].diagnostics = 1
    BY <2>4 DEF NewError
  <2> QED
    BY <2>1, <2>5
<1> QED
  BY <1>1, <1>2, CommandNextInv, PTL DEF CommandSpec
================================================================================
