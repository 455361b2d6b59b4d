------------------------------ MODULE ApiClient ------------------------------
(***************************************************************************)
(* RebrickableClient: tasks that share one client make calls, each a       *)
(* series of requests (pages of a list, items of a sequential batch).      *)
(* Before each request a task waits its turn for the pacing lock (a fair   *)
(* asyncio.Lock), sleeps until the client may send, and sends; the answer  *)
(* ends the call, starts its next request or repeats the same one.         *)
(*                                                                         *)
(*   idle -> queued -> pacing -> sent -> idle                              *)
(*             ^                   |                                       *)
(*             +----- backoff <----+                                       *)
(*                                                                         *)
(* Times are what remains of them: each is an instant of the code's clock  *)
(* minus now, so that a tick counts down and no clock grows.               *)
(***************************************************************************)
EXTENDS Naturals, Sequences

CONSTANTS
  Callers,         \* tasks that use the client
  MaxRetries,      \* Config.max_retries
  Interval,        \* Config.request_interval
  MaxRetryAfter,   \* Config.max_retry_after
  Delays,          \* what a 429 may ask for; 0 is no usable value
  Backoffs,        \* lengths of the client's own backoff
  Urls,            \* `next' links of the pages of a list
  Items,           \* length of a sequential batch
  None             \* nobody

ASSUME ClientAssumption ==
  /\ MaxRetries \in Nat
  /\ Interval \in Nat
  /\ MaxRetryAfter \in Nat \ {0}
  /\ Delays \subseteq Nat
  /\ Backoffs \subseteq Nat
  /\ Items \in Nat \ {0}
  /\ None \notin Callers

VARIABLES
  gap,        \* _next_request_at
  throttle,   \* _throttle_until
  holder,     \* the task that holds _pace_lock
  waiting,    \* those that wait for it, in order
  pc,         \* where each task is
  job,        \* its call
  attempt,    \* the attempt at the present request, from 0
  done,       \* requests of the call that were answered with success
  visited,    \* `next' links that it has followed
  wake,       \* the end of its sleep
  applied,    \* how often the server carried out each write of the call
  quiet,      \* time since the last request, up to Interval
  owed        \* how long a 429 asked the task to wait

timers == <<gap, throttle, wake, quiet, owed>>
lockVars == <<holder, waiting>>
vars == <<timers, lockVars, pc, job, attempt, done, visited, applied>>

(***************************************************************************)
(* read: a GET or DELETE, list: an iter_ method, write: a mutation, batch: *)
(* a _sequential method; opted: one of either that a retry policy covers.  *)
(***************************************************************************)
Batches == {"batch", "opted batch"}
Writing == Batches \cup {"write", "opted"}
Jobs == Writing \cup {"read", "list"}

Slots == 1 .. Items

TypeOK ==
  /\ gap \in 0 .. Interval
  /\ throttle \in Nat
  /\ holder \in Callers \cup {None}
  /\ waiting \in Seq(Callers)
  /\ pc \in [Callers -> {"idle", "queued", "pacing", "sent", "backoff"}]
  /\ job \in [Callers -> Jobs]
  /\ attempt \in [Callers -> 0 .. MaxRetries]
  /\ done \in [Callers -> Nat]
  /\ visited \in [Callers -> SUBSET Urls]
  /\ wake \in [Callers -> Nat]
  /\ applied \in [Callers -> [Slots -> Nat]]
  /\ quiet \in 0 .. Interval
  /\ owed \in [Callers -> Nat]

Later(a, b) == IF a > b THEN a ELSE b

NotSent == [i \in Slots |-> 0]

Init ==
  /\ gap = 0
  /\ throttle = 0
  /\ holder = None
  /\ waiting = <<>>
  /\ pc = [c \in Callers |-> "idle"]
  /\ job = [c \in Callers |-> "read"]
  /\ attempt = [c \in Callers |-> 0]
  /\ done = [c \in Callers |-> 0]
  /\ visited = [c \in Callers |-> {}]
  /\ wake = [c \in Callers |-> 0]
  /\ applied = [c \in Callers |-> NotSent]
  /\ quiet = Interval
  /\ owed = [c \in Callers |-> 0]

-----------------------------------------------------------------------------
(* Sending *)

(* Mutant: a mutation is repeated like a read. *)
AttemptsForAll(j) == MaxRetries + 1

(* max_attempts *)
Attempts(j) == IF j \in {"write", "batch"} THEN 1 ELSE MaxRetries + 1

Start(c) ==
  /\ pc[c] = "idle"
  /\ \E j \in Jobs : job' = [job EXCEPT ![c] = j]
  /\ pc' = [pc EXCEPT ![c] = "queued"]
  /\ waiting' = Append(waiting, c)
  /\ attempt' = [attempt EXCEPT ![c] = 0]
  /\ done' = [done EXCEPT ![c] = 0]
  /\ visited' = [visited EXCEPT ![c] = {}]
  /\ applied' = [applied EXCEPT ![c] = NotSent]
  /\ UNCHANGED <<timers, holder>>

(* Mutant: tasks sleep side by side, without the lock. *)
PaceTogether(c) ==
  /\ pc[c] = "queued"
  /\ pc' = [pc EXCEPT ![c] = "pacing"]
  /\ wake' = [wake EXCEPT ![c] = Later(gap, throttle)]
  /\ UNCHANGED <<gap, throttle, quiet, owed, lockVars, job, attempt, done, visited, applied>>

(* _pace: the lock is taken and the length of the sleep determined. *)
Pace(c) ==
  /\ pc[c] = "queued"
  /\ holder = None
  /\ c = Head(waiting)
  /\ holder' = c
  /\ waiting' = Tail(waiting)
  /\ pc' = [pc EXCEPT ![c] = "pacing"]
  /\ wake' = [wake EXCEPT ![c] = Later(gap, throttle)]
  /\ UNCHANGED <<gap, throttle, quiet, owed, job, attempt, done, visited, applied>>

(* After it, the next instant is set, the lock released, the request sent. *)
Send(c) ==
  /\ pc[c] = "pacing"
  /\ wake[c] = 0
  /\ pc' = [pc EXCEPT ![c] = "sent"]
  /\ gap' = Interval
  /\ holder' = None
  /\ quiet' = 0
  /\ UNCHANGED <<throttle, wake, waiting, owed, job, attempt, done, visited, applied>>

-----------------------------------------------------------------------------
(* Answers *)

(* The server carried out the request: it matters when it is a write. *)
CarryOut(c) ==
  applied' = IF job[c] \in Writing
               THEN [applied EXCEPT ![c][done[c] + 1] = @ + 1]
               ELSE applied

Again(c) ==
  /\ pc' = [pc EXCEPT ![c] = "queued"]
  /\ waiting' = Append(waiting, c)

End(c) ==
  /\ pc' = [pc EXCEPT ![c] = "idle"]
  /\ UNCHANGED waiting

(* Mutant: a link is followed wherever it leads. *)
FollowAnyLink(c) ==
  \/ End(c) /\ UNCHANGED visited
  \/ \E next \in Urls : Again(c) /\ visited' = [visited EXCEPT ![c] = @ \cup {next}]

(***************************************************************************)
(* _iter: the page is the last one, or names the next, which is asked for  *)
(* unless it was before (PaginationCycleError) or leaves the server.       *)
(***************************************************************************)
FollowLink(c) ==
  \/ End(c) /\ UNCHANGED visited
  \/ \E next \in Urls \ visited[c] :
       Again(c) /\ visited' = [visited EXCEPT ![c] = @ \cup {next}]

NextItem(c) ==
  /\ IF job[c] \in Batches /\ done[c] + 1 < Items THEN Again(c) ELSE End(c)
  /\ UNCHANGED visited

Succeed(c) ==
  /\ pc[c] = "sent"
  /\ CarryOut(c)
  /\ done' = [done EXCEPT ![c] = IF job[c] = "list" THEN @ ELSE @ + 1]
  /\ attempt' = [attempt EXCEPT ![c] = 0]
  /\ IF job[c] = "list" THEN FollowLink(c) ELSE NextItem(c)
  /\ UNCHANGED <<timers, holder, job>>

(* Mutant: a batch goes on after a failed item. *)
RefuseAndGoOn(c) ==
  /\ pc[c] = "sent"
  /\ done' = [done EXCEPT ![c] = @ + 1]
  /\ IF job[c] \in Batches /\ done[c] + 1 < Items THEN Again(c) ELSE End(c)
  /\ UNCHANGED <<timers, holder, job, attempt, visited, applied>>

(* Any other status from 300 on that is neither 429 nor transient. *)
Refuse(c) ==
  /\ pc[c] = "sent"
  /\ End(c)
  /\ UNCHANGED <<timers, holder, job, attempt, done, visited, applied>>

(* A success that cannot be read (decode_model) ends the call as an error. *)
Misread(c) ==
  /\ pc[c] = "sent"
  /\ CarryOut(c)
  /\ End(c)
  /\ UNCHANGED <<timers, holder, job, attempt, done, visited>>

CanRetry(c) == attempt[c] + 1 < Attempts(job[c])

(***************************************************************************)
(* A transport failure or a transient status: the request may have been    *)
(* carried out.                                                            *)
(***************************************************************************)
Falter(c) ==
  /\ pc[c] = "sent"
  /\ CarryOut(c) \/ UNCHANGED applied
  /\ \/ /\ CanRetry(c)
        /\ \E b \in Backoffs : wake' = [wake EXCEPT ![c] = b]
        /\ pc' = [pc EXCEPT ![c] = "backoff"]
        /\ UNCHANGED waiting
     \/ ~CanRetry(c) /\ End(c) /\ wake' = wake
  /\ UNCHANGED <<gap, throttle, quiet, owed, holder, job, attempt, done, visited>>

WakeUp(c) ==
  /\ pc[c] = "backoff"
  /\ wake[c] = 0
  /\ Again(c)
  /\ attempt' = [attempt EXCEPT ![c] = @ + 1]
  /\ UNCHANGED <<timers, holder, job, done, visited, applied>>

(* What a 429 asks for: an unusable or zero value leaves the backoff. *)
Waits == (Delays \ {0}) \cup (IF 0 \in Delays THEN Backoffs ELSE {})

(* Mutant: the last 429 decides. *)
ThrottleLast(c) ==
  /\ pc[c] = "sent"
  /\ \E d \in Waits :
       /\ d <= MaxRetryAfter
       /\ throttle' = d
       /\ owed' = [owed EXCEPT ![c] = d]
  /\ \/ CanRetry(c) /\ Again(c) /\ attempt' = [attempt EXCEPT ![c] = @ + 1]
     \/ ~CanRetry(c) /\ End(c) /\ attempt' = attempt
  /\ UNCHANGED <<gap, wake, quiet, holder, job, done, visited, applied>>

(* A 429 with a delay that the client accepts holds up every task. *)
Throttle(c) ==
  /\ pc[c] = "sent"
  /\ \E d \in Waits :
       /\ d <= MaxRetryAfter
       /\ throttle' = Later(d, throttle)
       /\ owed' = [owed EXCEPT ![c] = d]
  /\ \/ CanRetry(c) /\ Again(c) /\ attempt' = [attempt EXCEPT ![c] = @ + 1]
     \/ ~CanRetry(c) /\ End(c) /\ attempt' = attempt
  /\ UNCHANGED <<gap, wake, quiet, holder, job, done, visited, applied>>

(* One with a longer delay ends the call and changes nothing. *)
GiveUp(c) ==
  /\ pc[c] = "sent"
  /\ \E d \in Waits : d > MaxRetryAfter
  /\ End(c)
  /\ UNCHANGED <<timers, holder, job, attempt, done, visited, applied>>

(* The task is cancelled; what it has sent may still be carried out.       *)
Cancel(c) ==
  /\ pc[c] # "idle"
  /\ pc' = [pc EXCEPT ![c] = "idle"]
  /\ wake' = [wake EXCEPT ![c] = 0]
  /\ holder' = IF holder = c THEN None ELSE holder
  /\ waiting' = SelectSeq(waiting, LAMBDA d : d # c)
  /\ IF pc[c] = "sent" THEN CarryOut(c) \/ UNCHANGED applied ELSE UNCHANGED applied
  /\ UNCHANGED <<gap, throttle, quiet, owed, job, attempt, done, visited>>

-----------------------------------------------------------------------------
Less(t) == IF t = 0 THEN 0 ELSE t - 1

Tick ==
  /\ \/ \E t \in {gap, throttle} : t > 0
     \/ quiet < Interval
     \/ \E c \in Callers : wake[c] > 0 \/ owed[c] > 0
  /\ gap' = Less(gap)
  /\ throttle' = Less(throttle)
  /\ wake' = [c \in Callers |-> Less(wake[c])]
  /\ owed' = [c \in Callers |-> Less(owed[c])]
  /\ quiet' = IF quiet < Interval THEN quiet + 1 ELSE quiet
  /\ UNCHANGED <<lockVars, pc, job, attempt, done, visited, applied>>

Answer(c) ==
  Succeed(c) \/ Misread(c) \/ Refuse(c) \/ Falter(c) \/ Throttle(c) \/ GiveUp(c)

Proceed(c) == Pace(c) \/ Send(c) \/ Answer(c) \/ WakeUp(c)

Next == Tick \/ \E c \in Callers : Start(c) \/ Proceed(c) \/ Cancel(c)

Spec == Init /\ [][Next]_vars

(***************************************************************************)
(* Time passes, sleeps end, and every request is answered, if only by the  *)
(* transport's timeouts.                                                   *)
(***************************************************************************)
FairSpec == Spec /\ WF_vars(Tick) /\ \A c \in Callers : WF_vars(Proceed(c))
-----------------------------------------------------------------------------
(***************************************************************************)
(* Requests of one client are at least request_interval apart, however     *)
(* many tasks use it and whenever one is cancelled (_pace).                *)
(***************************************************************************)
PacedApart == [][\A c \in Callers : Send(c) => quiet = Interval]_vars

(***************************************************************************)
(* A task that was answered 429 sends nothing before the time that the     *)
(* answer asked for has passed, in this call or the next, whatever other   *)
(* tasks are answered meanwhile (_throttle_until only grows).              *)
(***************************************************************************)
OwnThrottleHonoured == [][\A c \in Callers : Send(c) => owed[c] = 0]_vars

(***************************************************************************)
(* No task sends while a throttle is in force (docs/api.md: "A 429 honors  *)
(* `Retry-After'").                                                        *)
(***************************************************************************)
ThrottleHonoured == [][\A c \in Callers : Send(c) => throttle = 0]_vars

(***************************************************************************)
(* A 429 never blocks the client for longer than max_retry_after, though   *)
(* the delays of several tasks add up to more.                             *)
(***************************************************************************)
ThrottleBounded == throttle <= MaxRetryAfter

(***************************************************************************)
(* A mutation without a retry policy is carried out at most once, also     *)
(* when its answer is lost or the server fails after the fact              *)
(* (docs/api.md: "Mutations are not replayed").                            *)
(***************************************************************************)
AtMostOnce ==
  \A c \in Callers, i \in Slots :
    job[c] \in {"write", "batch"} => applied[c][i] <= 1

(***************************************************************************)
(* The accepted prefix that a sequential batch reports is true: those      *)
(* items were carried out, and of the rest at most the next one, whose     *)
(* answer failed (BatchMutationError).                                     *)
(***************************************************************************)
PrefixIsTrue ==
  \A c \in Callers, i \in Slots :
    /\ job[c] \in Writing /\ i <= done[c] => applied[c][i] > 0
    /\ i > done[c] + 1 => applied[c][i] = 0

(***************************************************************************)
(* Every call ends: retries are counted, waits for the lock are in order,  *)
(* and an iteration over pages stops when the server's links form a cycle. *)
(***************************************************************************)
CallEnds == \A c \in Callers : pc[c] # "idle" ~> pc[c] = "idle"
=============================================================================
