-------------------------- MODULE SessionTasksProofs --------------------------
(***************************************************************************)
(* The answers of a session name the snapshots that they were read from,   *)
(* for any number of tasks, and of processes beside this one.              *)
(*                                                                         *)
(* A session is one reader of CatalogSystem, so everything proved there    *)
(* holds here too.  What an answer names follows from where each call is:  *)
(* its remaining steps say what it has read and named so far.              *)
(***************************************************************************)
EXTENDS SessionTasks, CatalogSystemProofs

USE SessionAssumption, DiskAssumption DEF DiskAssumption

LEMMA SessionStep == [SessionNext]_taskVars => [Next]_vars
<1> SUFFICES ASSUME [SessionNext]_taskVars PROVE [Next]_vars
  OBVIOUS
<1>1. CASE Elsewhere
  BY <1>1 DEF Elsewhere, Next
<1>2. ASSUME NEW t \in Tasks, BeginOpen(t) \/ GoOnOpening(t) \/ EndOpening(t) \/ FailOpening(t)
      PROVE  Next
  <2>1. Open(Session) /\ ReaderOnly
    BY <1>2 DEF BeginOpen, GoOnOpening, EndOpening, FailOpening, Open, ProceedOpen
  <2> QED
    BY <2>1, SessionAssumption DEF Next, ReaderStep, ReaderOnly
<1>3. ASSUME NEW t \in Tasks, EndClose(t)
      PROVE  [Next]_vars
  <2>1. CASE rpc[Session] = "open"
    BY <1>3, <2>1, SessionAssumption DEF EndClose, Open, Next, ReaderStep, ReaderOnly
  <2>2. CASE rpc[Session] # "open"
    BY <1>3, <2>2 DEF EndClose, ReaderOnly, vars
  <2> QED
    BY <2>1, <2>2
<1>4. ASSUME NEW t \in Tasks,
             \/ Call(t) \/ CancelCall(t)
             \/ Return(t) \/ Attach(t) \/ Enqueue(t) \/ FindOpened(t) \/ TimeOut(t)
             \/ Detach(t) \/ Read(t) \/ ReadClosed(t)
             \/ NameOpened(t) \/ NameActive(t) \/ EndRefresh(t)
      PROVE  UNCHANGED vars
  BY <1>4 DEF Call, CancelCall, Return, Attach, Enqueue, FindOpened, TimeOut, Detach,
       Read, ReadClosed, NameOpened, NameActive, Name, EndRefresh
<1>5. CASE UNCHANGED taskVars
  BY <1>5 DEF taskVars
<1> QED
  BY <1>1, <1>2, <1>3, <1>4, <1>5 DEF SessionNext, ProceedTask

(***************************************************************************)
(* A session, whatever its tasks do, is a reader of the catalog: all that  *)
(* is proved of CatalogSystem holds with it.                               *)
(***************************************************************************)
THEOREM SessionReads == SessionSpec => Spec
<1>1. SessionInit => Init
  BY DEF SessionInit
<1> QED
  BY <1>1, SessionStep, PTL DEF SessionSpec, Spec

-----------------------------------------------------------------------------
(* Where the calls are *)

(* The connection and those who use it agree. *)
Connected ==
  /\ attached => rpc[Session] = "open" /\ opened = pin[Session]
  /\ \A t \in Tasks : using[t] = "open" => attached
  /\ \A t \in Tasks : using[t] = "closing" => ~attached /\ rpc[Session] = "open"

UpToDate ==
  ~superseded /\ rpc[Session] \in {"resolved", "glimpsed", "open"} =>
    pin[Session] = pointer.id

(* Unless the session was closed meanwhile, the call still has its          *)
(* connection, and has read this snapshot only.                             *)
Undisturbed(t) == ~disturbed[t] => using[t] = "open"
ReadThis(t)    == ~disturbed[t] => using[t] = "open" /\ seen[t] = {pin[Session]}
NamedThis(t)   == Alive(t) => named[t] = {pin[Session]}

SearchSoFar(t) ==
  \/ steps[t] = <<"pin", "read", "read", "end">> /\ seen[t] = {} /\ named[t] = {}
  \/ steps[t] = <<"read", "read", "end">> /\ seen[t] = {} /\ NamedThis(t)
  \/ steps[t] = <<"read", "end">> /\ seen[t] = named[t] /\ NamedThis(t)
  \/ steps[t] = <<"end">> /\ seen[t] = named[t]

CheckSoFar(t) ==
  \/ steps[t] = <<"pin", "read", "attach", "read", "opened", "end">> /\ seen[t] = {}
  \/ steps[t] = <<"read", "attach", "read", "opened", "end">>
       /\ seen[t] = {} /\ Undisturbed(t)
  \/ steps[t] = <<"attach", "read", "opened", "end">> /\ ReadThis(t)
  \/ steps[t] = <<"read", "opened", "end">> /\ ReadThis(t)
  \/ steps[t] = <<"opened", "end">> /\ ReadThis(t)
  \/ steps[t] = <<"end">> /\ (disturbed[t] \/ seen[t] = named[t])

TranslateSoFar(t) ==
  \/ steps[t] = <<"pin", "read", "pin", "read", "active", "end">> /\ seen[t] = {}
  \/ steps[t] = <<"read", "pin", "read", "active", "end">>
       /\ seen[t] = {} /\ Undisturbed(t)
  \/ steps[t] = <<"pin", "read", "active", "end">> /\ ReadThis(t)
  \/ steps[t] = <<"read", "active", "end">> /\ ReadThis(t)
  \/ steps[t] = <<"active", "end">> /\ ReadThis(t)
  \/ steps[t] = <<"end">> /\ Undisturbed(t)
       /\ (disturbed[t] \/ superseded \/ seen[t] = named[t])

SoFar(t) ==
  /\ job[t] = "search" => SearchSoFar(t)
  /\ job[t] = "check" => CheckSoFar(t)
  /\ job[t] = "translate" => TranslateSoFar(t)
  /\ job[t] = "none" => seen[t] = {} /\ named[t] = {}

Jobs == {"none", "search", "check", "translate", "pinned", "close", "refresh"}

SessionTypeOK ==
  /\ job \in [Tasks -> Jobs]
  /\ steps = [t \in Tasks |-> steps[t]]
  /\ using \in [Tasks -> {"none", "open", "closing", "closed"}]
  /\ seen = [t \in Tasks |-> seen[t]]
  /\ named = [t \in Tasks |-> named[t]]
  /\ disturbed \in [Tasks -> BOOLEAN]
  /\ attached \in BOOLEAN
  /\ superseded \in BOOLEAN

SessionInv ==
  SessionTypeOK /\ Connected /\ UpToDate /\ \A t \in Tasks : SoFar(t)

LEMMA SessionInitInv == SessionInit => SessionInv
<1> SUFFICES ASSUME SessionInit PROVE SessionInv
  OBVIOUS
<1>2. SessionTypeOK
  BY DEF SessionInit, SessionTypeOK, Jobs
<1>3. Connected /\ UpToDate /\ \A t \in Tasks : SoFar(t)
  BY DEF SessionInit, Connected, UpToDate, SoFar, Init, ReadersInit
<1> QED
  BY <1>2, <1>3 DEF SessionInv

(* A call that does not move keeps what it has read and named, if it keeps  *)
(* its connection, or knows that it has not.                                *)
LEMMA Unmoved ==
  ASSUME SessionInv, NEW t \in Tasks,
         job'[t] = job[t], steps'[t] = steps[t], seen'[t] = seen[t], named'[t] = named[t],
         disturbed[t] => disturbed'[t],
         Alive(t)' => Alive(t) /\ pin'[Session] = pin[Session],
         using[t] = "open" /\ ~disturbed'[t] =>
           /\ using'[t] = "open"
           /\ pin'[Session] = pin[Session]
           /\ superseded => superseded'
  PROVE  SoFar(t)'
<1> USE DEF SessionInv, SessionTypeOK, SoFar
<1>1. CASE job[t] = "search"
  BY <1>1 DEF SearchSoFar, NamedThis
<1>2. CASE job[t] = "check"
  BY <1>2 DEF CheckSoFar, ReadThis, Undisturbed
<1>3. CASE job[t] = "translate"
  BY <1>3 DEF TranslateSoFar, ReadThis, Undisturbed
<1> QED
  BY <1>1, <1>2, <1>3


(* Where each of the calls may be, by its next step. *)
LEMMA NextSteps ==
  /\ Head(<<"pin", "read", "read", "end">>) = "pin"
  /\ Head(<<"read", "read", "end">>) = "read"
  /\ Head(<<"read", "end">>) = "read"
  /\ Head(<<"end">>) = "end"
  /\ Head(<<"pin", "read", "attach", "read", "opened", "end">>) = "pin"
  /\ Head(<<"read", "attach", "read", "opened", "end">>) = "read"
  /\ Head(<<"attach", "read", "opened", "end">>) = "attach"
  /\ Head(<<"read", "opened", "end">>) = "read"
  /\ Head(<<"opened", "end">>) = "opened"
  /\ Head(<<"pin", "read", "pin", "read", "active", "end">>) = "pin"
  /\ Head(<<"read", "pin", "read", "active", "end">>) = "read"
  /\ Head(<<"pin", "read", "active", "end">>) = "pin"
  /\ Head(<<"read", "active", "end">>) = "read"
  /\ Head(<<"active", "end">>) = "active"
OBVIOUS

LEMMA StepsAfter ==
  /\ Tail(<<"pin", "read", "read", "end">>) = <<"read", "read", "end">>
  /\ Tail(<<"read", "read", "end">>) = <<"read", "end">>
  /\ Tail(<<"read", "end">>) = <<"end">>
  /\ Tail(<<"pin", "read", "attach", "read", "opened", "end">>) = <<"read", "attach", "read", "opened", "end">>
  /\ Tail(<<"read", "attach", "read", "opened", "end">>) = <<"attach", "read", "opened", "end">>
  /\ Tail(<<"attach", "read", "opened", "end">>) = <<"read", "opened", "end">>
  /\ Tail(<<"read", "opened", "end">>) = <<"opened", "end">>
  /\ Tail(<<"opened", "end">>) = <<"end">>
  /\ Tail(<<"pin", "read", "pin", "read", "active", "end">>) = <<"read", "pin", "read", "active", "end">>
  /\ Tail(<<"read", "pin", "read", "active", "end">>) = <<"pin", "read", "active", "end">>
  /\ Tail(<<"pin", "read", "active", "end">>) = <<"read", "active", "end">>
  /\ Tail(<<"read", "active", "end">>) = <<"active", "end">>
  /\ Tail(<<"active", "end">>) = <<"end">>
OBVIOUS

(* What a step of the call itself does to what it has read and named.      *)
LEMMA CallStarts ==
  ASSUME SessionInv, NEW t \in Tasks, Call(t)
  PROVE  SoFar(t)'
BY DEF Call, Doing, CallsOf, Calls, Search, SessionInv, SessionTypeOK, Jobs, SoFar,
  SearchSoFar, CheckSoFar, TranslateSoFar

LEMMA FinishEnds ==
  ASSUME SessionInv, NEW t \in Tasks, Finish(t)
  PROVE  SoFar(t)'
BY DEF Finish, SessionInv, SessionTypeOK, SoFar

LEMMA TakeMoves ==
  ASSUME SessionInv, NEW t \in Tasks, Needs(t),
         Take(t, pin'[Session]),
         using[t] = "open" => pin'[Session] = pin[Session]
  PROVE  SoFar(t)'
<1> USE DEF SessionInv, SessionTypeOK
<1>1. steps'[t] = Tail(steps[t])
  BY DEF Take, Advance
<1>2. Head(steps[t]) \in {"pin", "attach"}
  BY DEF Needs, At
<1>3. /\ job'[t] = job[t] /\ seen'[t] = seen[t] /\ disturbed'[t] = disturbed[t]
      /\ using'[t] = "open"
      /\ named'[t] = IF Head(steps[t]) = "pin" THEN named[t] \cup {pin'[Session]} ELSE named[t]
  BY <1>2 DEF Take, At, Needs
<1>4. CASE job[t] = "search"
  <2>1. /\ steps[t] = <<"pin", "read", "read", "end">>
        /\ seen[t] = {} /\ named[t] = {}
    BY <1>2, <1>4, NextSteps, Zenon DEF SoFar, SearchSoFar
  <2>2. steps'[t] = <<"read", "read", "end">> /\ Head(steps[t]) = "pin"
    BY <1>1, <2>1, NextSteps, StepsAfter
  <2> QED
    BY <1>3, <1>4, <2>1, <2>2 DEF SoFar, SearchSoFar, NamedThis
<1>5. CASE job[t] = "check"
  <2>1. CASE steps[t] = <<"pin", "read", "attach", "read", "opened", "end">> /\ seen[t] = {}
    <3>1. steps'[t] = <<"read", "attach", "read", "opened", "end">>
      BY <1>1, <2>1, NextSteps, StepsAfter
    <3> QED
      BY <1>3, <1>5, <2>1, <3>1 DEF SoFar, CheckSoFar, Undisturbed
  <2>2. CASE steps[t] = <<"attach", "read", "opened", "end">> /\ ReadThis(t)
    <3>1. steps'[t] = <<"read", "opened", "end">>
      BY <1>1, <2>2, NextSteps, StepsAfter
    <3> QED
      BY <1>3, <1>5, <2>2, <3>1 DEF SoFar, CheckSoFar, ReadThis
  <2> QED
    BY <1>2, <1>5, <2>1, <2>2 DEF SoFar, CheckSoFar
<1>6. CASE job[t] = "translate"
  <2>1. CASE steps[t] = <<"pin", "read", "pin", "read", "active", "end">> /\ seen[t] = {}
    <3>1. steps'[t] = <<"read", "pin", "read", "active", "end">>
      BY <1>1, <2>1, NextSteps, StepsAfter
    <3> QED
      BY <1>3, <1>6, <2>1, <3>1 DEF SoFar, TranslateSoFar, Undisturbed
  <2>2. CASE steps[t] = <<"pin", "read", "active", "end">> /\ ReadThis(t)
    <3>1. steps'[t] = <<"read", "active", "end">>
      BY <1>1, <2>2, NextSteps, StepsAfter
    <3> QED
      BY <1>3, <1>6, <2>2, <3>1 DEF SoFar, TranslateSoFar, ReadThis
  <2> QED
    BY <1>2, <1>6, <2>1, <2>2 DEF SoFar, TranslateSoFar
<1> QED
  BY <1>3, <1>4, <1>5, <1>6, Needs(t) DEF SoFar, Needs, At, Doing

LEMMA ReadMoves ==
  ASSUME SessionInv, NEW t \in Tasks, Read(t)
  PROVE  SoFar(t)'
<1> USE DEF SessionInv, SessionTypeOK
<1>1. steps'[t] = Tail(steps[t]) /\ Head(steps[t]) = "read" /\ Alive(t) /\ job[t] # "none"
  BY DEF Read, Advance, At, Doing
<1>2. /\ job'[t] = job[t] /\ named'[t] = named[t] /\ disturbed'[t] = disturbed[t]
      /\ using'[t] = using[t] /\ pin' = pin
      /\ seen'[t] = seen[t] \cup {pin[Session]}
  BY DEF Read, vars, readerVars
<1>3. CASE job[t] = "search"
  <2>1. CASE /\ steps[t] = <<"read", "read", "end">>
             /\ seen[t] = {} /\ NamedThis(t)
    <3>1. steps'[t] = <<"read", "end">>
      BY <1>1, <2>1, NextSteps, StepsAfter
    <3> QED
      BY <1>1, <1>2, <1>3, <2>1, <3>1 DEF SoFar, SearchSoFar, NamedThis
  <2>2. CASE /\ steps[t] = <<"read", "end">>
             /\ seen[t] = named[t] /\ NamedThis(t)
    <3>1. steps'[t] = <<"end">>
      BY <1>1, <2>2, NextSteps, StepsAfter
    <3> QED
      BY <1>1, <1>2, <1>3, <2>2, <3>1 DEF SoFar, SearchSoFar, NamedThis
  <2> QED
    BY <1>1, <1>3, <2>1, <2>2 DEF SoFar, SearchSoFar
<1>4. CASE job[t] = "check"
  <2>1. CASE /\ steps[t] = <<"read", "attach", "read", "opened", "end">>
             /\ seen[t] = {} /\ Undisturbed(t)
    <3>1. steps'[t] = <<"attach", "read", "opened", "end">>
      BY <1>1, <2>1, NextSteps, StepsAfter
    <3> QED
      BY <1>2, <1>4, <2>1, <3>1 DEF SoFar, CheckSoFar, ReadThis, Undisturbed
  <2>2. CASE steps[t] = <<"read", "opened", "end">> /\ ReadThis(t)
    <3>1. steps'[t] = <<"opened", "end">>
      BY <1>1, <2>2, NextSteps, StepsAfter
    <3> QED
      BY <1>2, <1>4, <2>2, <3>1 DEF SoFar, CheckSoFar, ReadThis
  <2> QED
    BY <1>1, <1>4, <2>1, <2>2 DEF SoFar, CheckSoFar
<1>5. CASE job[t] = "translate"
  <2>1. CASE /\ steps[t] = <<"read", "pin", "read", "active", "end">>
             /\ seen[t] = {} /\ Undisturbed(t)
    <3>1. steps'[t] = <<"pin", "read", "active", "end">>
      BY <1>1, <2>1, NextSteps, StepsAfter
    <3> QED
      BY <1>2, <1>5, <2>1, <3>1 DEF SoFar, TranslateSoFar, ReadThis, Undisturbed
  <2>2. CASE steps[t] = <<"read", "active", "end">> /\ ReadThis(t)
    <3>1. steps'[t] = <<"active", "end">>
      BY <1>1, <2>2, NextSteps, StepsAfter
    <3> QED
      BY <1>2, <1>5, <2>2, <3>1 DEF SoFar, TranslateSoFar, ReadThis
  <2> QED
    BY <1>1, <1>5, <2>1, <2>2 DEF SoFar, TranslateSoFar
<1> QED
  BY <1>1, <1>2, <1>3, <1>4, <1>5 DEF SoFar

LEMMA NameMoves ==
  ASSUME SessionInv, NEW t \in Tasks, NameOpened(t) \/ NameActive(t)
  PROVE  SoFar(t)'
<1> USE DEF SessionInv, SessionTypeOK
<1> DEFINE what == IF Head(steps[t]) = "opened" THEN opened ELSE pointer.id
<1>1. /\ steps'[t] = Tail(steps[t]) /\ Head(steps[t]) \in {"opened", "active"}
      /\ job[t] # "none"
  BY DEF NameOpened, NameActive, Name, Advance, At, Doing
<1>2. /\ job'[t] = job[t] /\ named'[t] = {what} /\ disturbed'[t] = disturbed[t]
      /\ using'[t] = using[t] /\ pin' = pin /\ seen'[t] = seen[t]
      /\ superseded' = superseded
  BY DEF NameOpened, NameActive, Name, At, vars, readerVars, sessionVars
<1>3. using[t] = "open" =>
        /\ opened = pin[Session]
        /\ ~superseded => pointer.id = pin[Session]
  BY DEF Connected, UpToDate
<1>4. CASE job[t] = "search"
  BY <1>1, <1>4, NextSteps DEF SoFar, SearchSoFar
<1>5. CASE job[t] = "check"
  <2>1. steps[t] = <<"opened", "end">> /\ ReadThis(t)
    BY <1>1, <1>5, NextSteps DEF SoFar, CheckSoFar
  <2>2. steps'[t] = <<"end">> /\ what = opened
    BY <1>1, <2>1, NextSteps, StepsAfter
  <2> QED
    BY <1>2, <1>3, <1>5, <2>1, <2>2 DEF SoFar, CheckSoFar, ReadThis
<1>6. CASE job[t] = "translate"
  <2>1. steps[t] = <<"active", "end">> /\ ReadThis(t)
    BY <1>1, <1>6, NextSteps DEF SoFar, TranslateSoFar
  <2>2. steps'[t] = <<"end">> /\ what = pointer.id
    BY <1>1, <2>1, NextSteps, StepsAfter
  <2> QED
    BY <1>2, <1>3, <1>6, <2>1, <2>2 DEF SoFar, TranslateSoFar, ReadThis, Undisturbed
<1> QED
  BY <1>1, <1>2, <1>4, <1>5, <1>6 DEF SoFar

(* Only closers close and refresh. *)
LEMMA OtherStepMoves ==
  ASSUME SessionInv, NEW t \in Tasks, At(t, "close") \/ At(t, "refresh"),
         job' = job
  PROVE  SoFar(t)'
BY DEF SessionInv, SessionTypeOK, SoFar, At, Doing,
  SearchSoFar, CheckSoFar, TranslateSoFar

-----------------------------------------------------------------------------
(* Every step keeps the invariant. *)

(* What a step leaves as it was, for a task. *)
Same(t) ==
  /\ job'[t] = job[t] /\ steps'[t] = steps[t]
  /\ seen'[t] = seen[t] /\ named'[t] = named[t]

(* A step of one call that leaves the session and its connection alone.    *)
LEMMA OneCall ==
  ASSUME SessionInv, NEW t \in Tasks, SessionTypeOK', SoFar(t)',
         UNCHANGED <<vars, attached, opened, superseded>>,
         \A u \in Tasks \ {t} :
           Same(u) /\ using'[u] = using[u] /\ disturbed'[u] = disturbed[u],
         using'[t] = "open" => attached,
         using'[t] = "closing" => using[t] = "closing"
  PROVE  SessionInv'
<1>1. Connected' /\ UpToDate'
  BY DEF SessionInv, SessionTypeOK, Connected, UpToDate, vars, readerVars, diskVars
<1>2. ASSUME NEW u \in Tasks \ {t} PROVE SoFar(u)'
  BY <1>2, Unmoved DEF Same, Alive, vars, readerVars
<1> QED
  BY <1>1, <1>2 DEF SessionInv

LEMMA CallKeeps == ASSUME SessionInv, NEW t \in Tasks, Call(t) PROVE SessionInv'
<1>1. SessionTypeOK'
  BY SMTT(40) DEF Call, CallsOf, Jobs, SessionInv, SessionTypeOK, sessionVars
<1> QED
  BY <1>1, CallStarts, OneCall DEF Call, Same, sessionVars, SessionInv, SessionTypeOK, Connected

LEMMA FinishKeeps ==
  ASSUME SessionInv, NEW t \in Tasks, Finish(t),
         UNCHANGED <<vars, attached, opened, superseded>>
  PROVE  SessionInv'
<1>1. SessionTypeOK'
  BY DEF Finish, Jobs, SessionInv, SessionTypeOK
<1> QED
  BY <1>1, FinishEnds, OneCall DEF Finish, Same, SessionInv, SessionTypeOK

LEMMA TakeTypes ==
  ASSUME SessionInv, NEW t \in Tasks, NEW s, Take(t, s), attached' \in BOOLEAN,
         superseded' \in BOOLEAN
  PROVE  SessionTypeOK'
BY DEF Take, Advance, SessionInv, SessionTypeOK

LEMMA TakeKeeps ==
  ASSUME SessionInv, NEW t \in Tasks, Needs(t), attached, Take(t, opened),
         UNCHANGED <<vars, attached, opened, superseded>>
  PROVE  SessionInv'
<1>1. opened = pin'[Session] /\ pin' = pin
  BY DEF SessionInv, Connected, vars, readerVars
<1>2. SessionTypeOK' /\ SoFar(t)'
  BY <1>1, TakeTypes, TakeMoves DEF SessionInv, SessionTypeOK
<1> QED
  BY <1>2, OneCall DEF Take, Advance, Same, SessionInv, SessionTypeOK

LEMMA EnqueueKeeps == ASSUME SessionInv, NEW t \in Tasks, Enqueue(t) PROVE SessionInv'
<1>1. SessionTypeOK' /\ SoFar(t)'
  BY Unmoved DEF Enqueue, callVars, SessionInv, SessionTypeOK, vars, readerVars, Alive
<1> QED
  BY <1>1, OneCall DEF Enqueue, callVars, Same, SessionInv, Connected

LEMMA ReadKeeps == ASSUME SessionInv, NEW t \in Tasks, Read(t) PROVE SessionInv'
<1>1. SessionTypeOK'
  BY DEF Read, Advance, SessionInv, SessionTypeOK, sessionVars
<1> QED
  BY <1>1, ReadMoves, OneCall DEF Read, Advance, Same, sessionVars, SessionInv, SessionTypeOK, Connected

LEMMA NameKeeps ==
  ASSUME SessionInv, NEW t \in Tasks, NameOpened(t) \/ NameActive(t) PROVE SessionInv'
<1>1. SessionTypeOK'
  BY DEF NameOpened, NameActive, Name, Advance, SessionInv, SessionTypeOK, sessionVars
<1> QED
  BY <1>1, NameMoves, OneCall
  DEF NameOpened, NameActive, Name, Advance, Same, sessionVars, SessionInv, SessionTypeOK, Connected

LEMMA EndRefreshKeeps == ASSUME SessionInv, NEW t \in Tasks, EndRefresh(t) PROVE SessionInv'
<1>1. SessionTypeOK'
  BY DEF EndRefresh, Advance, SessionInv, SessionTypeOK, sessionVars
<1> QED
  BY <1>1, OtherStepMoves, OneCall
  DEF EndRefresh, Advance, Same, sessionVars, SessionInv, SessionTypeOK, Connected

(* A step after which nobody has the connection that it gives or takes.    *)
LEMMA NobodyCalls ==
  ASSUME SessionInv, NEW t \in Tasks, rpc[Session] # "open"
  PROVE  ~attached /\ ~Alive(t)
BY DEF SessionInv, SessionTypeOK, Connected, Alive

LEMMA BeginOpenKeeps ==
  ASSUME SessionInv, ReadersTypeOK, NEW t \in Tasks, BeginOpen(t)
  PROVE  SessionInv'
<1>1. /\ rpc[Session] = "closed" /\ rpc'[Session] \in {"locked", "unlocked"}
  BY DEF BeginOpen, StartOpen, StartUnlocked, ReadersTypeOK
<1>2. SessionTypeOK'
  BY DEF BeginOpen, callVars, SessionInv, SessionTypeOK
<1>3. Connected' /\ UpToDate'
  BY <1>1, NobodyCalls DEF BeginOpen, callVars, SessionInv, Connected, UpToDate, Alive
<1>4. ASSUME NEW u \in Tasks PROVE SoFar(u)'
  BY <1>1, NobodyCalls, Unmoved DEF BeginOpen, callVars, Alive
<1> QED
  BY <1>2, <1>3, <1>4 DEF SessionInv

LEMMA GoOnOpeningKeeps ==
  ASSUME SessionInv, ReadersTypeOK, NEW t \in Tasks, GoOnOpening(t)
  PROVE  SessionInv'
<1>1. /\ rpc[Session] \in {"locked", "unlocked"} /\ rpc'[Session] \in {"resolved", "glimpsed"}
      /\ pin'[Session] = pointer.id /\ pointer' = pointer
  BY DEF GoOnOpening, ResolveActive, ReadersTypeOK, diskVars
<1>2. SessionTypeOK'
  BY DEF GoOnOpening, callVars, sessionVars, SessionInv, SessionTypeOK
<1>3. Connected' /\ UpToDate'
  BY <1>1, NobodyCalls
  DEF GoOnOpening, callVars, sessionVars, SessionInv, Connected, UpToDate, Alive
<1>4. ASSUME NEW u \in Tasks PROVE SoFar(u)'
  BY <1>1, NobodyCalls, Unmoved DEF GoOnOpening, callVars, sessionVars, Alive
<1> QED
  BY <1>2, <1>3, <1>4 DEF SessionInv

LEMMA EndOpeningKeeps ==
  ASSUME SessionInv, ReadersTypeOK, NEW t \in Tasks, EndOpening(t)
  PROVE  SessionInv'
<1>1. /\ rpc[Session] \in {"resolved", "glimpsed"} /\ rpc'[Session] = "open"
      /\ pin' = pin /\ pointer' = pointer
  BY DEF EndOpening, Connect, ReadersTypeOK
<1>2. SessionTypeOK'
  BY TakeTypes DEF EndOpening, SessionInv, SessionTypeOK
<1>3. Connected' /\ UpToDate'
  <2>1. \A u \in Tasks : using'[u] # "closing"
    BY <1>1, NobodyCalls DEF EndOpening, Take, SessionInv, SessionTypeOK, Alive
  <2> QED
    BY <1>1, <2>1 DEF EndOpening, SessionInv, Connected, UpToDate
<1>4. SoFar(t)'
  BY <1>1, TakeMoves DEF EndOpening, MayOpen
<1>5. ASSUME NEW u \in Tasks \ {t} PROVE SoFar(u)'
  BY <1>1, NobodyCalls, Unmoved
  DEF EndOpening, Take, Advance, Alive, SessionInv, SessionTypeOK
<1> QED
  BY <1>2, <1>3, <1>4, <1>5 DEF SessionInv

LEMMA FailOpeningKeeps ==
  ASSUME SessionInv, ReadersTypeOK, NEW t \in Tasks, FailOpening(t)
  PROVE  SessionInv'
<1>1. rpc[Session] # "open" /\ rpc'[Session] = "closed"
  BY DEF FailOpening, FailOpen, EndOpen, ReadersTypeOK
<1>2. SessionTypeOK'
  BY DEF FailOpening, Finish, SessionInv, SessionTypeOK, Jobs
<1>3. Connected' /\ UpToDate'
  BY <1>1, NobodyCalls
  DEF FailOpening, Finish, SessionInv, SessionTypeOK, Connected, UpToDate, Alive
<1>4. SoFar(t)'
  BY FinishEnds DEF FailOpening
<1>5. ASSUME NEW u \in Tasks \ {t} PROVE SoFar(u)'
  BY <1>1, NobodyCalls, Unmoved
  DEF FailOpening, Finish, Alive, SessionInv, SessionTypeOK
<1> QED
  BY <1>2, <1>3, <1>4, <1>5 DEF SessionInv

LEMMA DetachKeeps ==
  ASSUME SessionInv, NEW t \in Tasks, Detach(t)
  PROVE  SessionInv'
<1>1. SessionTypeOK'
  BY DEF Detach, Becomes, SessionInv, SessionTypeOK
<1>2. Connected' /\ UpToDate'
  BY DEF Detach, Becomes, SessionInv, SessionTypeOK, Connected, UpToDate,
       vars, readerVars, diskVars
<1>3. ASSUME NEW u \in Tasks PROVE SoFar(u)'
  BY Unmoved DEF Detach, Becomes, SessionInv, SessionTypeOK, Alive, vars, readerVars
<1> QED
  BY <1>1, <1>2, <1>3 DEF SessionInv

LEMMA EndCloseKeeps ==
  ASSUME SessionInv, ReadersTypeOK, NEW t \in Tasks, EndClose(t)
  PROVE  SessionInv'
<1>1. ~attached /\ rpc'[Session] # "open" /\ \A u \in Tasks : ~Alive(u)'
  BY DEF EndClose, Close, EndOpen, Becomes, ReadersTypeOK, readerVars,
       SessionInv, SessionTypeOK, Connected, Alive
<1>2. SessionTypeOK'
  BY DEF EndClose, Becomes, Advance, SessionInv, SessionTypeOK
<1>3. Connected' /\ UpToDate'
  <2>1. UpToDate'
    BY <1>1 DEF EndClose, Close, EndOpen, ReadersTypeOK, readerVars, diskVars,
         SessionInv, UpToDate
  <2> QED
    BY <1>1, <2>1 DEF EndClose, Alive, Connected
<1>4. SoFar(t)'
  BY OtherStepMoves DEF EndClose
<1>5. ASSUME NEW u \in Tasks \ {t} PROVE SoFar(u)'
  BY <1>1, Unmoved DEF EndClose, Advance, SessionInv, SessionTypeOK, Connected
<1> QED
  BY <1>2, <1>3, <1>4, <1>5 DEF SessionInv

LEMMA ElsewhereKeeps ==
  ASSUME SessionInv, Elsewhere
  PROVE  SessionInv'
<1>1. UNCHANGED readerVars
  BY DEF Elsewhere, RefresherStep, WriterStep
<1>2. SessionTypeOK'
  BY DEF Elsewhere, callVars, SessionInv, SessionTypeOK
<1>3. Connected' /\ UpToDate'
  BY <1>1 DEF Elsewhere, callVars, SessionInv, SessionTypeOK, Connected, UpToDate, readerVars
<1>4. ASSUME NEW u \in Tasks PROVE SoFar(u)'
  BY <1>1, Unmoved DEF Elsewhere, callVars, readerVars, Alive
<1> QED
  BY <1>2, <1>3, <1>4 DEF SessionInv

LEMMA SessionNextInv ==
  ASSUME SessionInv, ReadersTypeOK, [SessionNext]_taskVars
  PROVE  SessionInv'
<1>1. CASE UNCHANGED taskVars
  <2>1. SessionTypeOK' /\ Connected' /\ UpToDate'
    BY <1>1 DEF taskVars, sessionVars, callVars, vars, readerVars, diskVars,
         SessionInv, SessionTypeOK, Connected, UpToDate
  <2>2. ASSUME NEW u \in Tasks PROVE SoFar(u)'
    BY <1>1, Unmoved DEF taskVars, sessionVars, callVars, vars, readerVars, Alive
  <2> QED
    BY <2>1, <2>2 DEF SessionInv
<1>2. CASE Elsewhere
  BY <1>2, ElsewhereKeeps
<1>3. ASSUME NEW t \in Tasks, Call(t) PROVE SessionInv'
  BY <1>3, CallKeeps
<1>4. ASSUME NEW t \in Tasks, Return(t) \/ TimeOut(t) \/ ReadClosed(t) \/ CancelCall(t)
      PROVE  SessionInv'
  BY <1>4, FinishKeeps DEF Return, TimeOut, ReadClosed, CancelCall, sessionVars
<1>5. ASSUME NEW t \in Tasks, Attach(t) \/ FindOpened(t) PROVE SessionInv'
  BY <1>5, TakeKeeps DEF Attach, FindOpened, sessionVars
<1>6. ASSUME NEW t \in Tasks,
             \/ Enqueue(t) \/ Read(t) \/ NameOpened(t) \/ NameActive(t) \/ EndRefresh(t)
      PROVE  SessionInv'
  BY <1>6, EnqueueKeeps, ReadKeeps, NameKeeps, EndRefreshKeeps
<1>7. ASSUME NEW t \in Tasks,
             BeginOpen(t) \/ GoOnOpening(t) \/ EndOpening(t) \/ FailOpening(t)
      PROVE  SessionInv'
  BY <1>7, BeginOpenKeeps, GoOnOpeningKeeps, EndOpeningKeeps, FailOpeningKeeps
<1>8. ASSUME NEW t \in Tasks, Detach(t) \/ EndClose(t) PROVE SessionInv'
  BY <1>8, DetachKeeps, EndCloseKeeps
<1> QED
  BY <1>1, <1>2, <1>3, <1>4, <1>5, <1>6, <1>7, <1>8 DEF SessionNext, ProceedTask

(* What a call has read and named so far makes its answer true. *)
LEMMA SoFarTrue == ASSUME SessionInv PROVE AnswersNamed
<1> SUFFICES ASSUME NEW t \in Callers, At(t, "end")
             PROVE  /\ job[t] = "search" => seen[t] = named[t]
                    /\ job[t] = "check" => (disturbed[t] \/ seen[t] = named[t])
                    /\ job[t] = "translate" => (disturbed[t] \/ superseded \/ seen[t] = named[t])
  BY DEF AnswersNamed
<1>1. SoFar(t) /\ Head(steps[t]) = "end"
  BY DEF SessionInv, Tasks, At
<1>2. CASE job[t] = "search"
  BY <1>1, <1>2, NextSteps DEF SoFar, SearchSoFar
<1>3. CASE job[t] = "check"
  BY <1>1, <1>3, NextSteps DEF SoFar, CheckSoFar
<1>4. CASE job[t] = "translate"
  BY <1>1, <1>4, NextSteps DEF SoFar, TranslateSoFar
<1> QED
  BY <1>2, <1>3, <1>4

(***************************************************************************)
(* An answer names the snapshot that it was read from, whichever tasks     *)
(* open, close, refresh and are cancelled in between (RebrickableSession,  *)
(* translate_bom, part-colour checks), but for what AnswersNamed excepts.  *)
(***************************************************************************)
THEOREM AnswersNamedAlways == SessionSpec => []AnswersNamed
<1>1. Inv => ReadersTypeOK
  BY DEF Inv, TypeOK
<1> QED
  BY <1>1, SessionInitInv, SessionNextInv, SoFarTrue, SessionReads, InvHolds, PTL DEF SessionSpec
===============================================================================
