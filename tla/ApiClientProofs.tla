--------------------------- MODULE ApiClientProofs ---------------------------
(***************************************************************************)
(* What holds of the client for any number of tasks and any configuration: *)
(* its requests are paced, a throttle answer is honoured by its receiver,  *)
(* and writes are not repeated.                                            *)
(***************************************************************************)
EXTENDS ApiClient, TLAPS

USE ClientAssumption DEF ClientAssumption

(* The types that the properties rest on: all but the order of the lock.   *)
TimerTypes ==
  /\ gap \in 0 .. Interval
  /\ throttle \in Nat
  /\ quiet \in 0 .. Interval
  /\ wake \in [Callers -> Nat]
  /\ owed \in [Callers -> Nat]
  /\ pc \in [Callers -> {"idle", "queued", "pacing", "sent", "backoff"}]

CallTypes ==
  /\ job \in [Callers -> Jobs]
  /\ attempt \in [Callers -> Nat]
  /\ done \in [Callers -> Nat]
  /\ applied \in [Callers -> [Slots -> Nat]]

(* Only the holder of the lock sleeps before a request, and it sleeps past *)
(* the instants that were set when it began.                               *)
Pacing ==
  \A c \in Callers :
    pc[c] = "pacing" => holder = c /\ gap <= wake[c] /\ owed[c] <= wake[c]

(* The next instant lies an interval after the last request.               *)
Spaced == gap + quiet >= Interval

Covered == \A c \in Callers : owed[c] <= throttle

(* Until the answer that ends it, a call that may not be repeated is at    *)
(* its first attempt, and no item after the accepted ones was carried out. *)
FirstAttempt ==
  \A c \in Callers :
    pc[c] # "idle" /\ job[c] \in {"write", "batch"} =>
      pc[c] # "backoff" /\ attempt[c] = 0 /\ \A i \in Slots : i > done[c] => applied[c][i] = 0

TimerInv == TimerTypes /\ Pacing /\ Spaced /\ Covered /\ ThrottleBounded
WriteInv == CallTypes /\ FirstAttempt /\ AtMostOnce /\ PrefixIsTrue
ClientInv == TimerInv /\ WriteInv

-----------------------------------------------------------------------------
LEMMA ClientInit == Init => ClientInv
<1> SUFFICES ASSUME Init PROVE ClientInv
  OBVIOUS
<1> USE DEF Init
<1>1. TimerInv
  BY DEF TimerInv, TimerTypes, Pacing, Spaced, Covered, ThrottleBounded
<1>2. CallTypes
  BY DEF CallTypes, Jobs, Writing, NotSent
<1>3. FirstAttempt /\ AtMostOnce /\ PrefixIsTrue
  BY DEF FirstAttempt, AtMostOnce, PrefixIsTrue, NotSent, Writing, Batches
<1> QED
  BY <1>1, <1>2, <1>3 DEF ClientInv, WriteInv

LEMMA CarryOutType ==
  ASSUME CallTypes, NEW c \in Callers, CarryOut(c)
  PROVE  applied' \in [Callers -> [Slots -> Nat]]
<1> DEFINE item == done[c] + 1
           row == [applied[c] EXCEPT ![item] = applied[c][item] + 1]
<1>1. CASE job[c] \in Writing
  <2>1. applied' = [applied EXCEPT ![c] = row]
    BY <1>1 DEF CarryOut
  <2>2. applied[c] \in [Slots -> Nat]
    BY DEF CallTypes
  <2>3. \A i \in Slots : row[i] \in Nat
    BY <2>2
  <2>4. row \in [Slots -> Nat]
    <3>1. row = [i \in Slots |-> row[i]]
      BY <2>2
    <3> HIDE DEF row
    <3> QED
      BY <2>3, <3>1
  <2> HIDE DEF row
  <2> QED
    BY <2>1, <2>4 DEF CallTypes
<1>2. CASE job[c] \notin Writing
  BY <1>2 DEF CarryOut, CallTypes
<1> QED
  BY <1>1, <1>2

(* Carrying out a request changes the entry of the item after the accepted *)
(* ones, and no other.                                                     *)
LEMMA CarryOutEffect ==
  ASSUME CallTypes, NEW c \in Callers, CarryOut(c),
         NEW d \in Callers, NEW i \in Slots
  PROVE  applied'[d][i] =
           IF d = c /\ job[c] \in Writing /\ i = done[c] + 1
             THEN applied[d][i] + 1 ELSE applied[d][i]
<1> DEFINE item == done[c] + 1
<1>1. CASE job[c] \in Writing
  <2>1. applied' = [applied EXCEPT ![c] = [applied[c] EXCEPT ![item] = applied[c][item] + 1]]
    BY <1>1 DEF CarryOut
  <2> QED
    BY <1>1, <2>1 DEF CallTypes
<1>2. CASE job[c] \notin Writing
  BY <1>2 DEF CarryOut
<1> QED
  BY <1>1, <1>2

(***************************************************************************)
(* The timers: only a tick, a request and a 429 touch them.                *)
(***************************************************************************)
LEMMA TimersKept ==
  ASSUME TimerInv, [Next]_vars
  PROVE  TimerInv'
<1> USE DEF TimerInv, TimerTypes, Pacing, Spaced, Covered, ThrottleBounded
<1>1. CASE Tick
  BY <1>1 DEF Tick, Less, lockVars
<1>2. ASSUME NEW c \in Callers, Start(c)
      PROVE  TimerInv'
  BY <1>2 DEF Start, timers
<1>3. ASSUME NEW c \in Callers, Pace(c)
      PROVE  TimerInv'
  BY <1>3 DEF Pace, Later
<1>4. ASSUME NEW c \in Callers, Send(c)
      PROVE  TimerInv'
  BY <1>4 DEF Send
<1>5. ASSUME NEW c \in Callers, Succeed(c) \/ Misread(c) \/ Refuse(c) \/ GiveUp(c)
      PROVE  TimerInv'
  BY <1>5 DEF Succeed, Misread, FollowLink, NextItem, Refuse, GiveUp, Again, End, timers
<1>6. ASSUME NEW c \in Callers, Falter(c)
      PROVE  TimerInv'
  BY <1>6 DEF Falter, End
<1>7. ASSUME NEW c \in Callers, WakeUp(c)
      PROVE  TimerInv'
  BY <1>7 DEF WakeUp, Again, timers
<1>8. ASSUME NEW c \in Callers, Throttle(c)
      PROVE  TimerInv'
  <2>1. PICK d \in Nat : /\ d <= MaxRetryAfter
                         /\ throttle' = Later(d, throttle)
                         /\ owed' = [owed EXCEPT ![c] = d]
    BY <1>8 DEF Throttle, Waits
  <2>2. throttle' \in Nat /\ throttle <= throttle' /\ d <= throttle' /\ ThrottleBounded'
    BY <2>1 DEF Later
  <2>3. pc[c] = "sent" /\ UNCHANGED <<gap, wake, quiet, holder>>
    BY <1>8 DEF Throttle
  <2>4. pc' = [pc EXCEPT ![c] = "queued"] \/ pc' = [pc EXCEPT ![c] = "idle"]
    BY <1>8 DEF Throttle, Again, End
  <2> QED
    BY <2>1, <2>2, <2>3, <2>4
<1>9. ASSUME NEW c \in Callers, Cancel(c)
      PROVE  TimerInv'
  BY <1>9 DEF Cancel
<1>10. CASE UNCHANGED vars
  BY <1>10 DEF vars, timers, lockVars
<1> QED
  BY <1>1, <1>2, <1>3, <1>4, <1>5, <1>6, <1>7, <1>8, <1>9, <1>10
  DEF Next, Proceed, Answer

(***************************************************************************)
(* The writes: an answer that may stand for a write carried out either     *)
(* accepts the item or, for a call that is not repeated, ends it.          *)
(***************************************************************************)
LEMMA SucceedKeeps ==
  ASSUME ClientInv, NEW c \in Callers, Succeed(c)
  PROVE  WriteInv'
<1> USE DEF ClientInv, TimerInv, TimerTypes, WriteInv
<1>1. CallTypes'
  BY CarryOutType DEF Succeed, CallTypes
<1>2. /\ pc[c] = "sent" /\ job' = job
      /\ done' = [done EXCEPT ![c] = IF job[c] = "list" THEN @ ELSE @ + 1]
      /\ attempt' = [attempt EXCEPT ![c] = 0]
  BY DEF Succeed
<1>3. /\ \A d \in Callers : d # c => pc'[d] = pc[d]
      /\ pc'[c] # "backoff"
  BY DEF Succeed, FollowLink, NextItem, Again, End
<1>4. \A d \in Callers, i \in Slots :
        applied'[d][i] = IF d = c /\ job[c] \in Writing /\ i = done[c] + 1
                           THEN applied[d][i] + 1 ELSE applied[d][i]
  BY CarryOutEffect DEF Succeed
<1>5. /\ \A d \in Callers, i \in Slots : applied[d][i] \in Nat
      /\ \A d \in Callers : done[d] \in Nat /\ attempt[d] \in Nat
      /\ \A i \in Slots : i \in Nat
  BY DEF CallTypes, Slots
<1>6. FirstAttempt'
  BY <1>2, <1>3, <1>4, <1>5 DEF FirstAttempt, CallTypes
<1>7. AtMostOnce'
  BY <1>2, <1>4, <1>5 DEF FirstAttempt, AtMostOnce
<1>8. PrefixIsTrue'
  <2>1. ASSUME NEW d \in Callers
        PROVE  done'[d] = done[d] \/ (d = c /\ done'[d] = done[d] + 1)
    <3>1. CASE job[c] = "list"
      BY <1>2, <3>1 DEF CallTypes
    <3>2. CASE job[c] # "list"
      BY <1>2, <3>2 DEF CallTypes
    <3> QED
      BY <3>1, <3>2
  <2>2. job[c] \in Writing => done'[c] = done[c] + 1
    BY <1>2 DEF CallTypes, Writing, Batches
  <2>3. ASSUME NEW d \in Callers, NEW i \in Slots
        PROVE  /\ job'[d] \in Writing /\ i <= done'[d] => applied'[d][i] > 0
               /\ i > done'[d] + 1 => applied'[d][i] = 0
    BY <1>2, <1>4, <1>5, <2>1, <2>2 DEF PrefixIsTrue
  <2> QED
    BY <2>3 DEF PrefixIsTrue, Writing, Batches, Slots
<1> QED
  BY <1>1, <1>6, <1>7, <1>8

(* A request that was carried out, in a call that then ends or that may be *)
(* repeated: the item is not accepted.                                     *)
LEMMA UnansweredKeeps ==
  ASSUME ClientInv, NEW c \in Callers, CarryOut(c), pc[c] # "idle",
         UNCHANGED <<job, attempt, done>>,
         pc'[c] = "idle" \/ job[c] \notin {"write", "batch"},
         \A d \in Callers : d # c => pc'[d] = pc[d]
  PROVE  WriteInv'
<1> USE DEF ClientInv, TimerInv, TimerTypes, WriteInv
<1>1. CallTypes'
  BY CarryOutType DEF CallTypes
<1>2. \A d \in Callers, i \in Slots :
        applied'[d][i] = IF d = c /\ job[c] \in Writing /\ i = done[c] + 1
                           THEN applied[d][i] + 1 ELSE applied[d][i]
  BY CarryOutEffect
<1>3. /\ \A d \in Callers, i \in Slots : applied[d][i] \in Nat
      /\ \A d \in Callers : done[d] \in Nat
      /\ \A i \in Slots : i \in Nat
  BY DEF CallTypes, Slots
<1>4. FirstAttempt'
  BY <1>2, <1>3 DEF FirstAttempt
<1>5. AtMostOnce'
  BY <1>2, <1>3 DEF FirstAttempt, AtMostOnce
<1>6. PrefixIsTrue'
  BY <1>2, <1>3 DEF PrefixIsTrue
<1> QED
  BY <1>1, <1>4, <1>5, <1>6

(* A call whose writes stay as they were may end, and one that may be      *)
(* repeated may come to any attempt.                                       *)
LEMMA UntouchedKeeps ==
  ASSUME ClientInv, UNCHANGED <<job, done, applied>>,
         attempt' \in [Callers -> Nat],
         \A d \in Callers :
           \/ job[d] \notin {"write", "batch"}
           \/ pc'[d] \in {"idle", pc[d]}
           \/ pc[d] # "idle" /\ pc'[d] # "backoff",
         \A d \in Callers : job[d] \in {"write", "batch"} => attempt'[d] = attempt[d]
  PROVE  WriteInv'
<1> USE DEF ClientInv, TimerInv, TimerTypes, WriteInv
<1>1. CallTypes'
  BY DEF CallTypes
<1>2. FirstAttempt'
  BY DEF FirstAttempt
<1>3. AtMostOnce' /\ PrefixIsTrue'
  BY DEF AtMostOnce, PrefixIsTrue
<1> QED
  BY <1>1, <1>2, <1>3

(* A call that may be sent once is never ready for another attempt.        *)
LEMMA NoSecondAttempt ==
  ASSUME ClientInv, NEW c \in Callers, pc[c] # "idle", CanRetry(c)
  PROVE  job[c] \notin {"write", "batch"}
BY DEF ClientInv, WriteInv, FirstAttempt, CanRetry, Attempts

LEMMA WritesKept ==
  ASSUME ClientInv, [Next]_vars
  PROVE  WriteInv'
<1>t. TimerTypes /\ CallTypes
  BY DEF ClientInv, TimerInv, WriteInv
<1>1. ASSUME NEW c \in Callers, Start(c)
      PROVE  WriteInv'
  <2>1. /\ pc[c] = "idle"
        /\ \E j \in Jobs : job' = [job EXCEPT ![c] = j]
        /\ attempt' = [attempt EXCEPT ![c] = 0]
        /\ done' = [done EXCEPT ![c] = 0]
        /\ applied' = [applied EXCEPT ![c] = NotSent]
        /\ pc' = [pc EXCEPT ![c] = "queued"]
    BY <1>1 DEF Start
  <2>2. NotSent \in [Slots -> Nat] /\ \A i \in Slots : NotSent[i] = 0 /\ i \in Nat /\ i > 0
    BY DEF NotSent, Slots
  <2>3. CallTypes'
    BY <1>t, <2>1, <2>2 DEF CallTypes
  <2>4. \A d \in Callers : d # c => /\ job'[d] = job[d] /\ attempt'[d] = attempt[d]
                                    /\ done'[d] = done[d] /\ pc'[d] = pc[d]
                                    /\ applied'[d] = applied[d]
    BY <1>t, <2>1 DEF CallTypes, TimerTypes
  <2>5. attempt'[c] = 0 /\ done'[c] = 0 /\ applied'[c] = NotSent /\ pc'[c] = "queued"
    BY <1>t, <2>1 DEF CallTypes, TimerTypes
  <2>6. FirstAttempt' /\ AtMostOnce' /\ PrefixIsTrue'
    BY <2>2, <2>4, <2>5
    DEF ClientInv, WriteInv, FirstAttempt, AtMostOnce, PrefixIsTrue
  <2> QED
    BY <2>3, <2>6 DEF WriteInv
<1>2. ASSUME NEW c \in Callers, Pace(c) \/ Send(c) \/ Refuse(c) \/ GiveUp(c)
      PROVE  WriteInv'
  BY <1>2, <1>t, UntouchedKeeps
  DEF Pace, Send, Refuse, GiveUp, End, TimerTypes, CallTypes
<1>3. ASSUME NEW c \in Callers, Misread(c)
      PROVE  WriteInv'
  BY <1>3, <1>t, UnansweredKeeps DEF Misread, End, TimerTypes
<1>4. ASSUME NEW c \in Callers, Falter(c)
      PROVE  WriteInv'
  <2>1. /\ pc[c] = "sent" /\ UNCHANGED <<job, attempt, done>>
        /\ \A d \in Callers : d # c => pc'[d] = pc[d]
        /\ pc'[c] = "idle" \/ CanRetry(c)
    BY <1>4, <1>t DEF Falter, End, TimerTypes
  <2>2. pc'[c] = "idle" \/ job[c] \notin {"write", "batch"}
    BY <2>1, NoSecondAttempt
  <2>3. CASE CarryOut(c)
    BY <2>1, <2>2, <2>3, UnansweredKeeps
  <2>4. CASE UNCHANGED applied
    <3>1. \A d \in Callers : job[d] \notin {"write", "batch"} \/ pc'[d] \in {"idle", pc[d]}
      BY <2>1, <2>2
    <3> QED
      BY <2>1, <2>4, <3>1, <1>t, UntouchedKeeps DEF CallTypes
  <2> QED
    BY <1>4, <2>3, <2>4 DEF Falter
<1>5. ASSUME NEW c \in Callers, WakeUp(c)
      PROVE  WriteInv'
  <2>1. /\ pc[c] = "backoff" /\ UNCHANGED <<job, done, applied>>
        /\ attempt' = [attempt EXCEPT ![c] = @ + 1]
        /\ pc' = [pc EXCEPT ![c] = "queued"]
    BY <1>5 DEF WakeUp, Again
  <2>2. job[c] \notin {"write", "batch"}
    BY <2>1 DEF ClientInv, WriteInv, FirstAttempt
  <2> QED
    BY <2>1, <2>2, <1>t, UntouchedKeeps DEF TimerTypes, CallTypes
<1>6. ASSUME NEW c \in Callers, Throttle(c)
      PROVE  WriteInv'
  <2>1. /\ pc[c] = "sent" /\ UNCHANGED <<job, done, applied>>
        /\ \/ CanRetry(c) /\ attempt' = [attempt EXCEPT ![c] = @ + 1]
           \/ attempt' = attempt
    BY <1>6 DEF Throttle
  <2>2. \E q \in {"queued", "idle"} : pc' = [pc EXCEPT ![c] = q]
    BY <1>6 DEF Throttle, Again, End
  <2>3. \A d \in Callers : job[d] \in {"write", "batch"} => attempt'[d] = attempt[d]
    BY <2>1, <1>t, NoSecondAttempt DEF CallTypes
  <2>4. attempt' \in [Callers -> Nat]
    BY <2>1, <1>t DEF CallTypes
  <2>5. \A d \in Callers : pc'[d] = pc[d] \/ (pc[d] # "idle" /\ pc'[d] # "backoff")
    BY <2>1, <2>2, <1>t DEF TimerTypes
  <2> QED
    BY <2>1, <2>3, <2>4, <2>5, UntouchedKeeps
<1>7. ASSUME NEW c \in Callers, Cancel(c)
      PROVE  WriteInv'
  <2>1. /\ pc[c] # "idle" /\ UNCHANGED <<job, attempt, done>>
        /\ pc' = [pc EXCEPT ![c] = "idle"]
        /\ CarryOut(c) \/ UNCHANGED applied
    BY <1>7 DEF Cancel
  <2>2. CASE CarryOut(c)
    BY <2>1, <2>2, <1>t, UnansweredKeeps DEF TimerTypes
  <2>3. CASE UNCHANGED applied
    BY <2>1, <2>3, <1>t, UntouchedKeeps DEF TimerTypes, CallTypes
  <2> QED
    BY <2>1, <2>2, <2>3
<1>8. CASE Tick \/ UNCHANGED vars
  BY <1>8, <1>t, UntouchedKeeps DEF Tick, vars, CallTypes
<1> QED
  BY <1>1, <1>2, <1>3, <1>4, <1>5, <1>6, <1>7, <1>8, SucceedKeeps
  DEF Next, Proceed, Answer

-----------------------------------------------------------------------------
(* Every reachable state satisfies the invariant of the timers and that of *)
(* the writes, whatever the number of tasks.                               *)
THEOREM ClientInvAlways == Spec => []ClientInv
<1>1. ClientInv /\ [Next]_vars => ClientInv'
  BY TimersKept, WritesKept DEF ClientInv
<1> QED
  BY ClientInit, <1>1, PTL DEF Spec

(* A mutation without a retry policy is carried out at most once (_send,   *)
(* max_attempts), whatever is lost, cancelled or answered late.            *)
THEOREM AtMostOnceAlways == Spec => []AtMostOnce
<1>1. ClientInv => AtMostOnce
  BY DEF ClientInv, WriteInv
<1> QED
  BY ClientInvAlways, <1>1, PTL

(* What a sequential batch reports as accepted was carried out, and beyond *)
(* it at most one item (add_user_part_list_parts_sequential).              *)
THEOREM PrefixIsTrueAlways == Spec => []PrefixIsTrue
<1>1. ClientInv => PrefixIsTrue
  BY DEF ClientInv, WriteInv
<1> QED
  BY ClientInvAlways, <1>1, PTL

(* The throttle never exceeds max_retry_after (_send, the 429 branch).     *)
THEOREM ThrottleBoundedAlways == Spec => []ThrottleBounded
<1>1. ClientInv => ThrottleBounded
  BY DEF ClientInv, TimerInv
<1> QED
  BY ClientInvAlways, <1>1, PTL

(* Requests are an interval apart (_pace): the task that sends has slept   *)
(* past the instant that the last request set.                             *)
THEOREM PacedApartAlways == Spec => PacedApart
<1>1. ClientInv /\ [Next]_vars => [\A c \in Callers : Send(c) => quiet = Interval]_vars
  BY DEF ClientInv, TimerInv, TimerTypes, Pacing, Spaced, Send
<1> QED
  BY ClientInvAlways, <1>1, PTL DEF Spec, PacedApart

(* A task that was answered 429 waits as long as it was asked to (_pace    *)
(* and the 429 branch of _send).                                           *)
THEOREM OwnThrottleHonouredAlways == Spec => OwnThrottleHonoured
<1>1. ClientInv /\ [Next]_vars => [\A c \in Callers : Send(c) => owed[c] = 0]_vars
  BY DEF ClientInv, TimerInv, TimerTypes, Pacing, Send
<1> QED
  BY ClientInvAlways, <1>1, PTL DEF Spec, OwnThrottleHonoured
=============================================================================
