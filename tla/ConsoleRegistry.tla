-------------------------- MODULE ConsoleRegistry --------------------------
(***************************************************************************)
(* The broker's registry of console sessions and the rows that mirror it   *)
(* (app/broker/core.py, app/broker/store.py, the console and session       *)
(* routes).  SessionLane models one session from the inside; here a        *)
(* session's lane is a few coarse steps and the subject is who owns which  *)
(* console: attach and take-over by epoch, the session limits, the half    *)
(* done attach, the deleted console, and a crash with its start-up sweep.  *)
(*                                                                         *)
(* Two copies of the truth are kept: `srow`/`strow` are PostgreSQL tables, *)
(* `rt` and `current` are the API process's dictionaries, gone in a crash. *)
(***************************************************************************)
EXTENDS Naturals, FiniteSets

CONSTANTS
    Consoles,        \* the ids of sql_consoles
    Windows,         \* browser windows of the consoles' owner
    Datasources,     \* the datasources a console may be bound to
    Requests,        \* client_request_id values
    MaxSessions,     \* bound: console_sessions rows, over all boots
    MaxEpoch,        \* bound: attaches of one console
    MaxBoots,        \* bound: starts of the API process
    GlobalTotal,     \* SessionLimits.global_total
    PerDatasource    \* SessionLimits.per_datasource

ASSUME RegistryLimits ==
    /\ MaxSessions \in Nat /\ MaxEpoch \in Nat /\ MaxBoots \in Nat
    /\ GlobalTotal \in Nat \ {0} /\ PerDatasource \in Nat \ {0}
    /\ "none" \notin Consoles \union Requests   \* stands for no console, no request

Sids == 1..MaxSessions

(* ACTIVE_CONSOLE_SESSION_STATES; executing and cancelling are SessionLane's *)
(* matter and are `idle` with a running request here.                      *)
ActiveStates == {"connecting", "idle", "closing"}
EndedStates == {"connect_failed", "closed", "session_lost"}
SessionStates == ActiveStates \union EndedStates \union {"none"}

VARIABLES
    console,     \* sql_consoles: [alive, ds, epoch]
    srow,        \* console_sessions: [state, console, ds, epoch, boot]
    strow,       \* console_statements: state of <<session, request>>
    rt,          \* SessionBroker._sessions: the _SessionRuntime records
    current,     \* SessionBroker._console_sessions
    attaching,   \* the attach that holds _attach_lock between its two locks
    boot,        \* broker_boot_id of the running process
    up,          \* start() has swept and the broker serves
    view,        \* what each window holds: [console, session, epoch]
    nextSid,     \* the next session id (uuid4: never used again)
    starts       \* how often a lane started <<session, request>>

registryVars == <<console, srow, strow, rt, current, attaching, boot, up,
                  view, nextSid, starts>>

ConsoleRows == [alive : BOOLEAN, ds : Datasources, epoch : Nat]
SessionRows ==
    [state : SessionStates, console : Consoles \union {"none"},
     ds : Datasources \union {"none"}, epoch : Nat, boot : Nat]
Runtimes ==
    [state : SessionStates, console : Consoles \union {"none"},
     ds : Datasources \union {"none"}, epoch : Nat, lane : {"none", "run", "ended"},
     accepting : BOOLEAN, queued : SUBSET Requests, running : Requests \union {"none"}]
Views == [console : Consoles \union {"none"}, session : Sids \union {0}, epoch : Nat]

NoRow == [state |-> "none", console |-> "none", ds |-> "none", epoch |-> 0,
          boot |-> 0]
NoRuntime == [state |-> "none", console |-> "none", ds |-> "none",
              epoch |-> 0, lane |-> "none", accepting |-> FALSE,
              queued |-> {}, running |-> "none"]
NoAttach == [session |-> 0, window |-> "none"]
NoView == [console |-> "none", session |-> 0, epoch |-> 0]

RegistryInit ==
    /\ console \in [Consoles -> [alive : {TRUE}, ds : Datasources, epoch : {0}]]
    /\ srow = [s \in Sids |-> NoRow]
    /\ strow = [x \in Sids \X Requests |-> "none"]
    /\ rt = [s \in Sids |-> NoRuntime]
    /\ current = [c \in Consoles |-> 0]
    /\ attaching = NoAttach
    /\ boot = 1
    /\ up = FALSE
    /\ view = [w \in Windows |-> NoView]
    /\ nextSid = 1
    /\ starts = [x \in Sids \X Requests |-> 0]

Live(s) == rt[s].state \in ActiveStates
LiveSessions == {s \in Sids : Live(s)}

\* Mutant of NextEpoch: an attach keeps the epoch.
NextEpochKept(c) == console[c].epoch

NextEpoch(c) == console[c].epoch + 1

(***************************************************************************)
(* attach, and the two ways it can fail half way.                          *)
(***************************************************************************)

(* The console has a live session: its epoch is advanced, its row and the  *)
(* runtime take the new one, and the caller becomes the holder.            *)
AttachReuse(w, c) ==
    /\ up /\ attaching = NoAttach
    /\ console[c].alive /\ console[c].epoch < MaxEpoch
    /\ current[c] # 0 /\ Live(current[c])
    /\ srow[current[c]].state \in ActiveStates
    /\ LET e == NextEpoch(c) IN
       /\ console' = [console EXCEPT ![c].epoch = e]
       /\ srow' = [srow EXCEPT ![current[c]].epoch = e]
       /\ rt' = [rt EXCEPT ![current[c]].epoch = e]
       /\ view' = [view EXCEPT ![w] =
                     [console |-> c, session |-> current[c], epoch |-> e]]
    /\ UNCHANGED <<strow, current, attaching, boot, up, nextSid, starts>>

WithinLimits(d) ==
    /\ Cardinality(LiveSessions) < GlobalTotal
    /\ Cardinality({s \in LiveSessions : rt[s].ds = d}) < PerDatasource

(* uq_console_active_session: one active row per console.                  *)
IndexAdmits(c) ==
    \A t \in Sids : srow[t].console = c => srow[t].state \notin ActiveStates

(* PostgresBrokerStore.attach_session without reuse_session_id: the epoch  *)
(* is advanced and a `connecting` row inserted, unless the unique index    *)
(* uq_console_active_session finds another active row of the console.      *)
InsertSession(c, s) ==
    /\ IndexAdmits(c)
    /\ console' = [console EXCEPT ![c].epoch = NextEpoch(c)]
    /\ srow' = [srow EXCEPT ![s] =
                  [state |-> "connecting", console |-> c, ds |-> console[c].ds,
                   epoch |-> NextEpoch(c), boot |-> boot]]

(* The first locked part of a new attach.  connection_factory may raise    *)
(* (`made` = FALSE) once the row is committed; then no runtime is made.    *)
AttachNew(w, c, made) ==
  LET s == nextSid IN
    /\ up /\ attaching = NoAttach
    /\ console[c].alive /\ console[c].epoch < MaxEpoch
    /\ current[c] # 0 => ~Live(current[c])
    /\ s \in Sids /\ nextSid' = s + 1
    /\ WithinLimits(console[c].ds)
    /\ InsertSession(c, s)
    /\ IF made
       THEN /\ rt' = [rt EXCEPT ![s] =
                        [NoRuntime EXCEPT !.state = "connecting", !.console = c,
                           !.ds = console[c].ds, !.epoch = NextEpoch(c),
                           !.accepting = TRUE]]
            /\ current' = [current EXCEPT ![c] = s]
            /\ attaching' = [session |-> s, window |-> w]
       ELSE UNCHANGED <<rt, current, attaching>>
    /\ UNCHANGED <<strow, boot, up, view, starts>>

(* The control lane is ready: the session row is written again and the     *)
(* session lane thread starts.  A row whose console was deleted meanwhile  *)
(* makes update_session raise: no lane is started.                         *)
AttachFinish ==
    LET s == attaching.session
        w == attaching.window IN
    /\ up /\ s # 0
    /\ attaching' = NoAttach
    /\ IF srow[s] # NoRow
       THEN /\ rt' = [rt EXCEPT ![s].lane = "run"]
            /\ view' = [view EXCEPT ![w] = [console |-> srow[s].console,
                                 session |-> s, epoch |-> rt[s].epoch]]
       ELSE UNCHANGED <<rt, view>>
    /\ UNCHANGED <<console, srow, strow, current, boot, up, nextSid, starts>>

(* The cancel channel cannot be built or the control lane is not ready in  *)
(* 5 s: attach raises and leaves the registered runtime without a lane.    *)
AttachStuck ==
    /\ up /\ attaching # NoAttach
    /\ attaching' = NoAttach
    /\ UNCHANGED <<console, srow, strow, rt, current, boot, up, view, nextSid, starts>>

(***************************************************************************)
(* Mutating requests carry the epoch the window holds.                     *)
(***************************************************************************)
HoldsEpoch(w) ==
    /\ view[w].session # 0
    /\ rt[view[w].session] # NoRuntime
    /\ view[w].epoch = rt[view[w].session].epoch

FirstSent(s, r) == strow[<<s, r>>] = "none"

(* A repeated client_request_id returns the first receipt.  create_statement *)
(* locks the session's row, so a deleted console makes it raise.           *)
SubmitStatement(w, r) ==
    LET s == view[w].session IN
    /\ up /\ HoldsEpoch(w)
    /\ rt[s].accepting /\ Live(s) /\ srow[s] # NoRow
    /\ FirstSent(s, r)
    /\ strow' = [strow EXCEPT ![<<s, r>>] = "accepted"]
    /\ rt' = [rt EXCEPT ![s].queued = @ \cup {r}]
    /\ UNCHANGED <<console, srow, current, attaching, boot, up, view, nextSid, starts>>

(* close, and the idle timer: the lane is told, once, to stop accepting.   *)
CloseSession(w) ==
    /\ up /\ HoldsEpoch(w)
    /\ rt[view[w].session].accepting
    /\ rt' = [rt EXCEPT ![view[w].session].accepting = FALSE]
    /\ UNCHANGED <<console, srow, strow, current, attaching, boot, up, view, nextSid, starts>>

(***************************************************************************)
(* The lane, coarsely: what it writes to the rows as it goes.  The runtime *)
(* is changed first; when the row is gone the write raises and the lane's  *)
(* thread ends, whatever state the runtime is in.                          *)
(***************************************************************************)
Moved(runtime, row, state) ==
    [runtime EXCEPT !.state = state,
                    !.accepting = @ /\ state \in ActiveStates,
                    !.lane = IF row = NoRow \/ state \in EndedStates THEN "ended" ELSE @]

LaneMoves(s, state) ==
    /\ rt' = [rt EXCEPT ![s] = Moved(@, srow[s], state)]
    /\ srow' = IF srow[s] = NoRow THEN srow ELSE [srow EXCEPT ![s].state = state]

LaneRuns(s, state) == up /\ rt[s].lane = "run" /\ rt[s].state = state

LaneOpens(s) ==
    /\ LaneRuns(s, "connecting")
    /\ \E st \in {"idle", "connect_failed"} : LaneMoves(s, st)
    /\ UNCHANGED <<console, strow, current, attaching, boot, up, view, nextSid, starts>>

LaneStarts(s, r) ==
    /\ LaneRuns(s, "idle") /\ rt[s].running = "none" /\ r \in rt[s].queued
    /\ rt' = [rt EXCEPT ![s].queued = @ \ {r}, ![s].running = r,
                        ![s].lane = IF srow[s] = NoRow THEN "ended" ELSE @]
    /\ IF srow[s] = NoRow
       THEN UNCHANGED <<strow, starts>>
       ELSE /\ strow' = [strow EXCEPT ![<<s, r>>] = "executing"]
            /\ starts' = [starts EXCEPT ![<<s, r>>] = @ + 1]
    /\ UNCHANGED <<console, srow, current, attaching, boot, up, view, nextSid>>

LaneFinishes(s) ==
    LET r == rt[s].running IN
    /\ LaneRuns(s, "idle") /\ r # "none"
    /\ IF srow[s] = NoRow
       THEN /\ rt' = [rt EXCEPT ![s].lane = "ended"]
            /\ UNCHANGED strow
       ELSE /\ rt' = [rt EXCEPT ![s].running = "none"]
            /\ strow' = [strow EXCEPT ![<<s, r>>] = "finished"]
    /\ UNCHANGED <<console, srow, current, attaching, boot, up, view, nextSid, starts>>

(* _close_on_lane: `closing` is written before the connection is closed    *)
(* and `closed` after it; a lane whose row is gone stops in between.       *)
LaneCloses(s) ==
    /\ \/ LaneRuns(s, "idle") /\ ~rt[s].accepting
          /\ rt[s].running = "none" /\ rt[s].queued = {}
          /\ LaneMoves(s, "closing")
       \/ LaneRuns(s, "closing") /\ LaneMoves(s, "closed")
    /\ UNCHANGED <<console, strow, current, attaching, boot, up, view, nextSid, starts>>

(* The connection is lost: the running statement fails with it.            *)
LaneLoses(s) ==
    /\ LaneRuns(s, "idle")
    /\ LaneMoves(s, "session_lost")
    /\ strow' = [x \in Sids \X Requests |->
                   IF x = <<s, rt[s].running>> /\ srow[s] # NoRow
                   THEN "failed" ELSE strow[x]]
    /\ UNCHANGED <<console, current, attaching, boot, up, view, nextSid, starts>>

(***************************************************************************)
(* The console routes.                                                     *)
(***************************************************************************)
UpdateConsole(c, d) ==
    /\ up /\ console[c].alive /\ console[c].ds # d
    /\ console' = [console EXCEPT ![c].ds = d]
    /\ UNCHANGED <<srow, strow, rt, current, attaching, boot, up, view, nextSid, starts>>

(* Foreign keys cascade to the console's sessions and their statements;    *)
(* the broker is not told.                                                 *)
DeleteConsole(c) ==
    /\ up /\ console[c].alive
    /\ console' = [console EXCEPT ![c].alive = FALSE]
    /\ srow' = [s \in Sids |-> IF srow[s].console = c THEN NoRow ELSE srow[s]]
    /\ strow' = [x \in Sids \X Requests |->
                   IF srow[x[1]].console = c THEN "none" ELSE strow[x]]
    /\ UNCHANGED <<rt, current, attaching, boot, up, view, nextSid, starts>>

(***************************************************************************)
(* The API process dies; the next one sweeps before it serves.             *)
(***************************************************************************)
ApiCrash ==
    /\ up /\ boot < MaxBoots
    /\ up' = FALSE
    /\ boot' = boot + 1
    /\ rt' = [s \in Sids |-> NoRuntime]
    /\ current' = [c \in Consoles |-> 0]
    /\ attaching' = NoAttach
    /\ UNCHANGED <<console, srow, strow, view, nextSid, starts>>

Stale(s) == srow[s].state \in ActiveStates /\ srow[s].boot # boot

SweptStatement(x) ==
    IF Stale(x[1]) /\ strow[x] = "executing" THEN "failed" ELSE strow[x]

(* Statements the console submits are reads, so a swept one is `failed`.   *)
StartupSweep ==
    /\ ~up
    /\ up' = TRUE
    /\ srow' = [s \in Sids |-> IF Stale(s)
                  THEN [srow[s] EXCEPT !.state = "session_lost"] ELSE srow[s]]
    /\ strow' = [x \in Sids \X Requests |-> SweptStatement(x)]
    /\ UNCHANGED <<console, rt, current, attaching, boot, view, nextSid, starts>>

RegistryNext ==
    \/ \E w \in Windows, c \in Consoles : AttachReuse(w, c)
    \/ \E w \in Windows, c \in Consoles, made \in BOOLEAN : AttachNew(w, c, made)
    \/ AttachFinish
    \/ AttachStuck
    \/ \E w \in Windows, r \in Requests : SubmitStatement(w, r)
    \/ \E w \in Windows : CloseSession(w)
    \/ \E s \in Sids : LaneOpens(s)
    \/ \E s \in Sids, r \in Requests : LaneStarts(s, r)
    \/ \E s \in Sids : LaneFinishes(s)
    \/ \E s \in Sids : LaneCloses(s)
    \/ \E s \in Sids : LaneLoses(s)
    \/ \E c \in Consoles, d \in Datasources : UpdateConsole(c, d)
    \/ \E c \in Consoles : DeleteConsole(c)
    \/ ApiCrash
    \/ StartupSweep

RegistrySpec == RegistryInit /\ [][RegistryNext]_registryVars

-----------------------------------------------------------------------------

RegistryTypeOK ==
    /\ console \in [Consoles -> ConsoleRows]
    /\ srow \in [Sids -> SessionRows] /\ rt \in [Sids -> Runtimes]
    /\ strow \in [Sids \X Requests ->
                   {"none", "accepted", "executing", "finished", "failed"}]
    /\ current \in [Consoles -> Sids \cup {0}]
    /\ attaching \in [session : Sids \cup {0}, window : Windows \cup {"none"}]
    /\ boot \in Nat /\ up \in BOOLEAN /\ nextSid \in Nat \ {0}
    /\ view \in [Windows -> Views]
    /\ starts \in [Sids \X Requests -> Nat]

(* At most one window's epoch is accepted by a console's session: the      *)
(* attach of a second window shuts out every earlier one, also when it     *)
(* races a close, a loss or a restart (SessionBroker._require_epoch).      *)
OneHolder ==
    \A c \in Consoles :
        Cardinality({w \in Windows : /\ view[w].console = c /\ HoldsEpoch(w)
                                     /\ Live(view[w].session)}) <= 1

(* The epochs of one console grow from session to session, across restarts *)
(* of the broker, so no window of an older session can pass for a newer    *)
(* one (sql_consoles.session_epoch is advanced with every attach).         *)
EpochsGrow ==
    \A s, t \in Sids :
        s < t /\ srow[s] # NoRow /\ srow[t] # NoRow
              /\ srow[s].console = srow[t].console
        => srow[s].epoch < srow[t].epoch

(* One console never has two live sessions, in the process or in the table, *)
(* and the live one is the one the registry finds (_console_sessions).     *)
OneSessionPerConsole ==
    \A s, t \in Sids :
        /\ s # t /\ srow[s].state \in ActiveStates /\ srow[t].state \in ActiveStates
           => srow[s].console # srow[t].console
        /\ Live(s) => current[rt[s].console] = s

(* While the broker serves, an active row belongs to this boot, and it     *)
(* says what the runtime says; only an attach whose connection could not   *)
(* be built leaves a row without a runtime (startup_sweep, update_session).*)
RowsMirrorRuntimes ==
    up => \A s \in Sids : srow[s].state \in ActiveStates =>
            /\ srow[s].boot = boot
            /\ rt[s] # NoRuntime =>
                 srow[s].state = rt[s].state /\ srow[s].epoch = rt[s].epoch

(* While the broker serves, a statement row that says executing is being   *)
(* executed by a lane of this process: neither a crash nor a lost          *)
(* connection leaves one behind (startup_sweep, _lose_session_locked).     *)
NoOrphanRunning ==
    up => \A s \in Sids, r \in Requests :
            strow[<<s, r>>] = "executing" =>
                rt[s].lane = "run" /\ rt[s].running = r

(* A statement starts at most once however often its request is sent again *)
(* (runtime.requests and UNIQUE(session_id, client_request_id)).           *)
StartsAtMostOnce ==
    \A x \in Sids \X Requests : starts[x] <= 1

(* The limits bound the connections of the process at every moment, also   *)
(* those of deleted or rebound consoles (_enforce_session_limits).         *)
LimitsHold ==
    /\ Cardinality(LiveSessions) <= GlobalTotal
    /\ \A d \in Datasources :
        Cardinality({s \in LiveSessions : rt[s].ds = d}) <= PerDatasource

(* What the registry and its rows promise together: whatever windows        *)
(* attach, take over, submit twice or close, wherever an attach fails and   *)
(* whenever the process dies, a console has one session and one holder, the *)
(* rows say what the runtimes are, no statement starts twice and none stays *)
(* executing after a restart (_attach_serial, submit_statement,             *)
(* close_session, startup_sweep).                                           *)
RegistryInv ==
    /\ RegistryTypeOK
    /\ OneHolder
    /\ EpochsGrow
    /\ OneSessionPerConsole
    /\ RowsMirrorRuntimes
    /\ NoOrphanRunning
    /\ StartsAtMostOnce
    /\ LimitsHold
=============================================================================
