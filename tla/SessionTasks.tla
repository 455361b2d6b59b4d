----------------------------- MODULE SessionTasks -----------------------------
(***************************************************************************)
(* The asyncio tasks of one RebrickableSession, on top of CatalogSystem:   *)
(* one of its readers is the session's connection.  The first task that    *)
(* needs the catalog opens it, under a lock that the others wait for; a    *)
(* call reads it in several awaits, in between which other tasks may close *)
(* the session and open it again, on whatever snapshot is then active.     *)
(*                                                                         *)
(* A call is a sequence of steps; what the code does between two awaits is *)
(* one step:                                                               *)
(*   pin     get the connection, and with it the snapshot that the answer  *)
(*           names (_pinned_state; search and external_ids do the same)    *)
(*   attach  get the connection only (_connection)                         *)
(*   read    a query on the connection that the call got last              *)
(*   opened  name the snapshot in _opened_state (part-colour checks)       *)
(*   active  name the snapshot of the active pointer (translate_bom)       *)
(*   refresh wait for refresh_catalog                                      *)
(*   close   close the session                                             *)
(***************************************************************************)
EXTENDS CatalogSystem, Sequences

CONSTANTS
  Session,    \* the reader that is this session's connection
  Callers,    \* tasks that query the catalog
  Closers     \* tasks that ask for its state, close and refresh it

Tasks == Callers \cup Closers

ASSUME SessionAssumption ==
  /\ Session \in Readers
  /\ Callers \cap Closers = {}

VARIABLES
  attached,   \* whether _db is set
  opened,     \* the snapshot in _opened_state, or None
  queue,      \* _open_lock: its holder and those that wait, in their order
  job,        \* the call that a task makes, or "none"
  steps,      \* the steps it still has to take
  using,      \* what has become of the connection that it got last
  seen,       \* history: the snapshots that the call has read
  named,      \* the snapshots that its answer names
  disturbed,  \* history: whether the session was closed during the call
  superseded  \* history: whether the pointer changed since the catalog was opened

sessionVars == <<attached, opened, queue, superseded>>
callVars    == <<job, steps, using, seen, named, disturbed>>
taskVars    == <<vars, sessionVars, callVars>>

(* Mutant: a search asks for the snapshot when it has its hits. *)
SearchNamedLate == <<"attach", "read", "read", "opened", "end">>

Search == <<"pin", "read", "read", "end">>

Calls == [search    |-> Search,
          check     |-> <<"pin", "read", "attach", "read", "opened", "end">>,
          translate |-> <<"pin", "read", "pin", "read", "active", "end">>,
          pinned    |-> <<"pin", "end">>,
          close     |-> <<"close", "end">>,
          refresh   |-> <<"refresh", "close", "end">>]

CallsOf(t) ==
  IF t \in Callers THEN {"search", "check", "translate"} ELSE {"pinned", "close", "refresh"}

Doing(t)   == job[t] # "none"
At(t, st)  == Doing(t) /\ Head(steps[t]) = st
Holder     == IF queue = <<>> THEN None ELSE Head(queue)
Waiting(t) == \E i \in 1 .. Len(queue) : queue[i] = t
Without(t) == SelectSeq(queue, LAMBDA u : u # t)

SessionInit ==
  /\ Init
  /\ attached = FALSE
  /\ opened = None
  /\ queue = <<>>
  /\ job = [t \in Tasks |-> "none"]
  /\ steps = [t \in Tasks |-> <<>>]
  /\ using = [t \in Tasks |-> "none"]
  /\ seen = [t \in Tasks |-> {}]
  /\ named = [t \in Tasks |-> {}]
  /\ disturbed = [t \in Tasks |-> FALSE]
  /\ superseded = FALSE

-----------------------------------------------------------------------------
(* Calls *)

Call(t) ==
  /\ ~Doing(t)
  /\ \E call \in CallsOf(t) :
       /\ job' = [job EXCEPT ![t] = call]
       /\ steps' = [steps EXCEPT ![t] = Calls[call]]
  /\ UNCHANGED <<vars, sessionVars, using, seen, named, disturbed>>

Advance(t) == steps' = [steps EXCEPT ![t] = Tail(@)]

(* The call returns, raises or is cancelled. *)
Finish(t) ==
  /\ job' = [job EXCEPT ![t] = "none"]
  /\ steps' = [steps EXCEPT ![t] = <<>>]
  /\ using' = [using EXCEPT ![t] = "none"]
  /\ seen' = [seen EXCEPT ![t] = {}]
  /\ named' = [named EXCEPT ![t] = {}]
  /\ disturbed' = [disturbed EXCEPT ![t] = FALSE]

Return(t) == At(t, "end") /\ Finish(t) /\ UNCHANGED <<vars, sessionVars>>

(* The task has the connection, and goes on without an await. *)
Take(t, snapshot) ==
  /\ using' = [using EXCEPT ![t] = "open"]
  /\ named' = [named EXCEPT ![t] = IF At(t, "pin") THEN @ \cup {snapshot} ELSE @]
  /\ Advance(t)
  /\ UNCHANGED <<job, seen, disturbed>>

Needs(t) == At(t, "pin") \/ At(t, "attach")

Attach(t) ==
  /\ Needs(t) /\ attached /\ ~Waiting(t)
  /\ Take(t, opened)
  /\ UNCHANGED <<vars, sessionVars>>

(* Whoever finds no connection, and whoever closes, asks for the lock. *)
Enqueue(t) ==
  /\ ~Waiting(t)
  /\ (Needs(t) /\ ~attached) \/ At(t, "close")
  /\ queue' = Append(queue, t)
  /\ UNCHANGED <<vars, attached, opened, superseded, callVars>>

(* The second look: a task before this one may have opened the catalog.    *)
MayOpen(t) == Holder = t /\ Needs(t) /\ ~attached

FindOpened(t) ==
  /\ Holder = t /\ Needs(t) /\ attached
  /\ queue' = Tail(queue)
  /\ Take(t, opened)
  /\ UNCHANGED <<vars, attached, opened, superseded>>

-----------------------------------------------------------------------------
(* Opening: open_catalog, as in ReaderSessions *)

ReaderOnly == UNCHANGED <<refresherVars, writerVars>>

BeginOpen(t) ==
  /\ MayOpen(t)
  /\ StartOpen(Session) \/ StartUnlocked(Session)
  /\ superseded' = FALSE
  /\ ReaderOnly
  /\ UNCHANGED <<attached, opened, queue, callVars>>

GoOnOpening(t) ==
  /\ MayOpen(t)
  /\ ResolveActive(Session)
  /\ ReaderOnly
  /\ UNCHANGED <<sessionVars, callVars>>

EndOpening(t) ==
  /\ MayOpen(t)
  /\ Connect(Session)
  /\ attached' = TRUE
  /\ opened' = pin[Session]
  /\ queue' = Tail(queue)
  /\ Take(t, pin[Session])
  /\ ReaderOnly
  /\ UNCHANGED superseded

(* Mutant: a failure leaves the session's lock taken. *)
FailOpeningLocked(t) ==
  /\ MayOpen(t)
  /\ FailOpen(Session)
  /\ Finish(t)
  /\ ReaderOnly
  /\ UNCHANGED <<attached, opened, queue, superseded>>

(* The catalog cannot be opened, or the task is cancelled: open_catalog    *)
(* gives back what it has, and `async with' the session's lock.            *)
FailOpening(t) ==
  /\ MayOpen(t)
  /\ FailOpen(Session)
  /\ queue' = Tail(queue)
  /\ Finish(t)
  /\ ReaderOnly
  /\ UNCHANGED <<attached, opened, superseded>>

(* The wait for the promotion lock ends with an error. *)
TimeOut(t) ==
  /\ MayOpen(t)
  /\ rpc[Session] = "closed"
  /\ queue' = Tail(queue)
  /\ Finish(t)
  /\ UNCHANGED <<vars, attached, opened, superseded>>

-----------------------------------------------------------------------------
(* Closing: settle() lets it end before the lock is given back *)

Becomes(from, to) == using' = [u \in Tasks |-> IF using[u] = from THEN to ELSE using[u]]

Detach(t) ==
  /\ Holder = t /\ At(t, "close") /\ attached
  /\ attached' = FALSE
  /\ opened' = None
  /\ Becomes("open", "closing")
  /\ disturbed' = [u \in Tasks |-> disturbed[u] \/ using[u] = "open"]
  /\ UNCHANGED <<vars, queue, superseded, job, steps, seen, named>>

EndClose(t) ==
  /\ Holder = t /\ At(t, "close") /\ ~attached
  /\ IF rpc[Session] = "open" THEN Close(Session) ELSE UNCHANGED <<diskVars, readerVars>>
  /\ queue' = Tail(queue)
  /\ Becomes("closing", "closed")
  /\ Advance(t)
  /\ ReaderOnly
  /\ UNCHANGED <<attached, opened, superseded, job, seen, named, disturbed>>

-----------------------------------------------------------------------------
(* The other steps *)

Alive(t) == using[t] \in {"open", "closing"}

Read(t) ==
  /\ At(t, "read") /\ Alive(t)
  /\ seen' = [seen EXCEPT ![t] = @ \cup {pin[Session]}]
  /\ Advance(t)
  /\ UNCHANGED <<vars, sessionVars, job, using, named, disturbed>>

(* A closed connection raises, and one that is being closed may. *)
ReadClosed(t) ==
  /\ At(t, "read") /\ using[t] # "open"
  /\ Finish(t)
  /\ UNCHANGED <<vars, sessionVars>>

Name(t, st, snapshot) ==
  /\ At(t, st)
  /\ named' = [named EXCEPT ![t] = {snapshot}]
  /\ Advance(t)
  /\ UNCHANGED <<vars, sessionVars, job, using, seen, disturbed>>

NameOpened(t) == Name(t, "opened", opened)
NameActive(t) == Name(t, "active", pointer.id)

(* A task may be cancelled at any await.  One that holds the lock gives it *)
(* back in an orderly way: FailOpening, EndClose.                          *)
CancelCall(t) ==
  /\ Doing(t) /\ Holder # t
  /\ queue' = Without(t)
  /\ Finish(t)
  /\ UNCHANGED <<vars, attached, opened, superseded>>

(* refresh: the session is closed after an attempt that raises nothing. *)
EndRefresh(t) ==
  /\ At(t, "refresh")
  /\ \A r \in Refreshers : pc[r] = "idle"
  /\ Advance(t)
  /\ UNCHANGED <<vars, sessionVars, job, using, seen, named, disturbed>>

(* The other processes, and the refresher of this one. *)
Elsewhere ==
  /\ RefresherStep \/ WriterStep
  /\ superseded' = (superseded \/ pointer'.id # pointer.id)
  /\ UNCHANGED <<attached, opened, queue, callVars>>

ProceedTask(t) ==
  \/ Return(t) \/ Attach(t) \/ Enqueue(t) \/ FindOpened(t)
  \/ BeginOpen(t) \/ GoOnOpening(t) \/ EndOpening(t) \/ FailOpening(t) \/ TimeOut(t)
  \/ Detach(t) \/ EndClose(t) \/ Read(t) \/ ReadClosed(t)
  \/ NameOpened(t) \/ NameActive(t) \/ EndRefresh(t)

SessionNext ==
  \/ Elsewhere
  \/ \E t \in Tasks : Call(t) \/ ProceedTask(t) \/ CancelCall(t)

(***************************************************************************)
(* The event loop runs every task that can go on, and the other processes  *)
(* run as in CatalogSystem.  Nobody has to call, to cancel or to begin.    *)
(***************************************************************************)
SessionSpec ==
  /\ SessionInit
  /\ [][SessionNext]_taskVars
  /\ \A r \in Refreshers : WF_taskVars(Proceed(r) /\ Elsewhere)
  /\ \A w \in Writers : WF_taskVars(ProceedWrite(w) /\ Elsewhere)
  /\ \A t \in Tasks : WF_taskVars(ProceedTask(t))

-----------------------------------------------------------------------------
(***************************************************************************)
(* An answer names the snapshot that it was read from: a search always, a  *)
(* part-colour check unless the session was closed during the call, and a  *)
(* translation report, which names the active snapshot, unless there was a *)
(* newer one than the session's.                                           *)
(***************************************************************************)
AnswersNamed ==
  \A t \in Callers : At(t, "end") =>
    /\ job[t] = "search" => seen[t] = named[t]
    /\ job[t] = "check" => (disturbed[t] \/ seen[t] = named[t])
    /\ job[t] = "translate" => (disturbed[t] \/ superseded \/ seen[t] = named[t])

(***************************************************************************)
(* Every call returns or raises: no task waits for the session's lock for  *)
(* ever, whoever fails to open, closes or is cancelled before it.          *)
(***************************************************************************)
CallsEnd == \A t \in Tasks : Doing(t) ~> ~Doing(t)
==============================================================================
