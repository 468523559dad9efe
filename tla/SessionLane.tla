---------------------------- MODULE SessionLane ----------------------------
(***************************************************************************)
(* The runtime of ONE console session of the Session Broker                *)
(* (app/broker/core.py): the lane thread that owns the database            *)
(* connection, the control lane that sends cancel/destroy for it over a    *)
(* connection of its own, the timer thread, the API threads that submit,   *)
(* cancel and close, and the database server on the far side of both       *)
(* connections.                                                            *)
(*                                                                         *)
(* `rt' is the _SessionRuntime: everything the broker lock protects.  A    *)
(* "..._locked" method of the source is an operator from runtime to        *)
(* runtime here, so one critical section is one action that composes them  *)
(* in the order of the code.  Work done outside the lock (the driver       *)
(* calls, the blocking queue reads) is where actions are split.            *)
(*                                                                         *)
(* A statement is identified with its client_request_id: submitting a      *)
(* request id twice returns the first receipt and changes nothing, so each *)
(* member of Stmts is submitted at most once.                              *)
(***************************************************************************)
EXTENDS Naturals, Sequences

CONSTANTS
    Stmts,          \* client request ids, one statement each
    NoStmt,         \* None where a statement id is optional
    CloseCmd,       \* the _LaneCommand("close") in a mailbox
    MailboxSize,    \* BrokerConfig.mailbox_size
    Unlimited       \* the statements submitted with timeout_seconds = 0

ASSUME ConstantsAssumption ==
    /\ NoStmt \notin Stmts
    /\ CloseCmd \notin Stmts
    /\ CloseCmd # NoStmt
    /\ MailboxSize \in Nat \ {0}
    /\ Unlimited \subseteq Stmts

VARIABLES
    rt,     \* the _SessionRuntime, guarded by the broker lock
    lane,   \* the lane thread: program counter and locals
    ctl,    \* the control-lane thread: program counter, command, support
    srv,    \* the server side of the session's connection
    stray   \* history: control commands that hit another statement

vars == <<rt, lane, ctl, srv, stray>>

----------------------------------------------------------------------------
(* States and transition tables: domain/console_session.py, broker/state.py *)

SessionStates == {"connecting", "idle", "executing", "cancelling", "closing",
                  "closed", "session_lost", "connect_failed"}

Active == {"connecting", "idle", "executing", "cancelling", "closing"}

\* "none" is a request id not submitted yet.  OUTCOME_UNKNOWN and SKIPPED are
\* for write statements; submit never creates one (is_write stays False).
StatementStates == {"none", "accepted", "executing", "streaming",
                    "succeeded", "failed", "cancelled", "timeout"}

Terminal == {"succeeded", "failed", "cancelled", "timeout"}

Running == {"executing", "streaming"}

SessionTransitions ==
    {<<"connecting", "idle">>, <<"connecting", "connect_failed">>,
     <<"connecting", "closing">>, <<"idle", "executing">>,
     <<"idle", "closing">>, <<"idle", "closed">>, <<"idle", "session_lost">>,
     <<"executing", "idle">>, <<"executing", "cancelling">>,
     <<"executing", "closing">>, <<"executing", "session_lost">>,
     <<"cancelling", "idle">>, <<"cancelling", "closing">>,
     <<"cancelling", "session_lost">>, <<"closing", "closed">>,
     <<"closing", "session_lost">>}

StatementTransitions ==
    {<<"accepted", "executing">>, <<"accepted", "cancelled">>,
     <<"accepted", "failed">>, <<"executing", "streaming">>}
    \cup (Running \X Terminal)

Runtime ==
    [sess            : SessionStates,
     stmt            : [Stmts -> StatementStates],
     cancelRequested : [Stmts -> BOOLEAN],
     mailbox         : Seq(Stmts \cup {CloseCmd}),
     pending         : Nat,
     accepting       : BOOLEAN,
     current         : Stmts \cup {NoStmt},
     inFlight        : BOOLEAN,               \* cancel_in_flight, the fence
     cancelStmt      : Stmts \cup {NoStmt},
     reason          : {"none", "user", "timeout", "close"},
     controlDone     : BOOLEAN,
     confirmed       : BOOLEAN,
     destroySent     : BOOLEAN,
     closePending    : BOOLEAN,               \* close_reason_pending
     softFlag        : BOOLEAN,               \* the connection's cancel flag
     ctlq            : Seq([kind : {"cancel", "destroy", "stop"},
                            target : Stmts \cup {NoStmt}]),
     stopped         : BOOLEAN]               \* shutdown() ran: timer stopped

LanePcs == {"unstarted", "never", "opening", "get", "decrement", "start",
            "execute", "running", "streaming", "finish", "drain",
            "closeFence", "closing", "ended"}

Init ==
    /\ rt = [sess |-> "connecting", stmt |-> [s \in Stmts |-> "none"],
             cancelRequested |-> [s \in Stmts |-> FALSE], mailbox |-> <<>>,
             pending |-> 0, accepting |-> TRUE, current |-> NoStmt,
             inFlight |-> FALSE, cancelStmt |-> NoStmt, reason |-> "none",
             controlDone |-> FALSE, confirmed |-> FALSE,
             destroySent |-> FALSE, closePending |-> FALSE,
             softFlag |-> FALSE, ctlq |-> <<>>, stopped |-> FALSE]
    /\ lane = [pc |-> "unstarted", s |-> NoStmt, out |-> "none", lost |-> FALSE]
    /\ ctl = [pc |-> "opening", kind |-> "none", support |-> "unknown"]
    /\ srv = [op |-> NoStmt, alive |-> FALSE, interrupted |-> FALSE]
    /\ stray = {}

----------------------------------------------------------------------------
(* The "_locked" helpers, runtime to runtime.                               *)

Control(kind, s) == [kind |-> kind, target |-> s]

BeginCancel(r, s, why) ==
    IF r.inFlight THEN r
    ELSE [r EXCEPT !.inFlight = TRUE,
                   !.cancelStmt = s,
                   !.reason = why,
                   !.controlDone = FALSE,
                   !.confirmed = FALSE,
                   !.destroySent = FALSE,
                   !.softFlag = TRUE,
                   !.cancelRequested[s] = TRUE,
                   !.sess = IF @ = "executing" THEN "cancelling" ELSE @,
                   !.ctlq = Append(@, Control("cancel", s))]

\* The fence of statement s is lifted when the server confirmed the cancel, or
\* when the control lane has reported AND the statement is terminal.
Settles(r, s) ==
    /\ r.inFlight
    /\ r.cancelStmt = s
    /\ r.confirmed \/ (r.controlDone /\ r.stmt[s] \in Terminal)

Settle(r, s) ==
    IF ~Settles(r, s) THEN r
    ELSE [r EXCEPT !.inFlight = FALSE,
                   !.cancelStmt = NoStmt,
                   !.reason = "none",
                   !.destroySent = FALSE,
                   !.softFlag = FALSE,
                   !.sess = IF @ = "cancelling" THEN "idle" ELSE @]

Lose(r) ==
    IF r.sess = "session_lost" THEN r
    ELSE [r EXCEPT !.accepting = FALSE, !.inFlight = FALSE,
                   !.sess = "session_lost"]

CancelQueued(r) ==
    LET queued == {s \in Stmts : r.stmt[s] = "accepted"}
    IN  [r EXCEPT !.stmt = [s \in Stmts |->
                              IF s \in queued THEN "cancelled" ELSE @[s]],
                  !.cancelRequested = [s \in Stmts |-> @[s] \/ s \in queued]]

\* Mutant of PutClose: the close is lost when the mailbox is full.
PutCloseOrDrop(r) ==
    IF Len(r.mailbox) < MailboxSize
    THEN [r EXCEPT !.mailbox = Append(@, CloseCmd)] ELSE r

\* put_nowait(close), or close_reason_pending when the mailbox is full.
PutClose(r) ==
    IF Len(r.mailbox) < MailboxSize
    THEN [r EXCEPT !.mailbox = Append(@, CloseCmd)]
    ELSE [r EXCEPT !.closePending = TRUE]

QueueClose(r, why, cancelCurrent) ==
    LET stopped == [r EXCEPT !.accepting = FALSE]
        fenced  == IF /\ cancelCurrent
                      /\ r.current # NoStmt
                      /\ r.stmt[r.current] \in Running
                   THEN BeginCancel(stopped, r.current, "close")
                   ELSE stopped
        settled == IF why = "shutdown" THEN CancelQueued(fenced) ELSE fenced
    IN  IF r.accepting THEN PutClose(settled) ELSE r

----------------------------------------------------------------------------
(* attach: the part after the runtime is registered.                        *)

ControlOpens ==
    /\ ctl.pc = "opening"
    /\ \E sup \in {"available", "degraded"} :
          ctl' = [ctl EXCEPT !.pc = "get", !.support = sup]
    /\ UNCHANGED <<rt, lane, srv, stray>>

AttachReady ==
    /\ lane.pc = "unstarted"
    /\ ctl.pc # "opening"
    /\ lane' = [lane EXCEPT !.pc = "opening"]
    /\ UNCHANGED <<rt, ctl, srv, stray>>

\* wait_ready raises "control lane did not start": the runtime is registered
\* already and its lane thread is never created.
AttachGivesUp ==
    /\ lane.pc = "unstarted"
    /\ ctl.pc = "opening"
    /\ lane' = [lane EXCEPT !.pc = "never"]
    /\ UNCHANGED <<rt, ctl, srv, stray>>

----------------------------------------------------------------------------
(* The API threads.                                                         *)

CanSubmit(s) ==
    /\ rt.stmt[s] = "none"
    /\ rt.accepting
    /\ rt.sess \in Active
    /\ rt.pending < MailboxSize

Submit(s) ==
    /\ CanSubmit(s)
    /\ rt' = [rt EXCEPT !.stmt[s] = "accepted",
                        !.mailbox = Append(@, s),
                        !.pending = @ + 1]
    /\ UNCHANGED <<lane, ctl, srv, stray>>

\* results.register raises: the statement is failed and never queued.
SubmitWithoutResultSet(s) ==
    /\ CanSubmit(s)
    /\ rt' = [rt EXCEPT !.stmt[s] = "failed"]
    /\ UNCHANGED <<lane, ctl, srv, stray>>

Cancel(s) ==
    /\ \/ /\ rt.stmt[s] = "accepted"
          /\ rt' = [rt EXCEPT !.stmt[s] = "cancelled",
                              !.cancelRequested[s] = TRUE]
       \/ /\ rt.current = s
          /\ rt.stmt[s] \in Running
          /\ ~rt.inFlight
          /\ rt' = BeginCancel(rt, s, "user")
    /\ UNCHANGED <<lane, ctl, srv, stray>>

Close ==
    /\ rt.accepting
    /\ rt' = QueueClose(rt, "user", TRUE)
    /\ UNCHANGED <<lane, ctl, srv, stray>>

Shutdown ==
    /\ ~rt.stopped
    /\ LET r == [rt EXCEPT !.stopped = TRUE]
       IN  rt' = IF r.sess \in Active THEN QueueClose(r, "shutdown", TRUE)
                 ELSE r
    /\ UNCHANGED <<lane, ctl, srv, stray>>

\* The second half of shutdown: join(timeout=5) on the lane, then stop the
\* control lane whether or not the lane has ended.
ControlStop ==
    /\ rt.stopped
    /\ \A i \in 1..Len(rt.ctlq) : rt.ctlq[i].kind # "stop"
    /\ ctl.pc # "ended"
    /\ rt' = [rt EXCEPT !.ctlq = Append(@, Control("stop", NoStmt))]
    /\ UNCHANGED <<lane, ctl, srv, stray>>

----------------------------------------------------------------------------
(* The timer thread.  `due' is the set of deadlines that have passed; the   *)
(* grace deadline of a cancel begun in this very round is in the future.    *)

Deadlines == {"statement", "grace", "idle"}

TimeOutStatement(r, due) ==
    IF /\ "statement" \in due
       /\ r.current \notin Unlimited \cup {NoStmt}
       /\ ~r.inFlight
    THEN BeginCancel(r, r.current, "timeout") ELSE r

\* Mutant of Escalate: a cancel past its grace is not escalated.
EscalateNever(r, due) == r

Escalate(r, due) ==
    IF "grace" \in due /\ r.inFlight /\ ~r.destroySent
    THEN [r EXCEPT !.destroySent = TRUE,
                   !.ctlq = Append(@, Control("destroy", r.cancelStmt))]
    ELSE r

ReclaimIdle(r, due) ==
    IF "idle" \in due /\ r.accepting /\ r.sess = "idle"
    THEN QueueClose(r, "idle_timeout", FALSE) ELSE r

RunTimersOnce(due) ==
    /\ ~rt.stopped
    /\ "grace" \in due => rt.inFlight
    /\ rt' = ReclaimIdle(Escalate(TimeOutStatement(rt, due), due), due)
    /\ UNCHANGED <<lane, ctl, srv, stray>>

----------------------------------------------------------------------------
(* The lane thread.                                                         *)

Goto(pc) == lane' = [lane EXCEPT !.pc = pc]

LaneOpens ==
    /\ lane.pc = "opening"
    /\ \/ /\ rt' = [rt EXCEPT !.sess = "idle"]
          /\ srv' = [srv EXCEPT !.alive = TRUE]
          /\ Goto("get")
       \/ /\ rt' = [rt EXCEPT !.sess = "connect_failed", !.accepting = FALSE]
          /\ Goto("ended")
          /\ UNCHANGED srv
    /\ UNCHANGED <<ctl, stray>>

LaneGets ==
    /\ lane.pc = "get"
    /\ rt.mailbox # <<>>
    /\ rt' = [rt EXCEPT !.mailbox = Tail(@)]
    /\ IF Head(rt.mailbox) = CloseCmd
       THEN Goto("closeFence")
       ELSE lane' = [lane EXCEPT !.pc = "decrement", !.s = Head(rt.mailbox)]
    /\ UNCHANGED <<ctl, srv, stray>>

LaneDecrements ==
    /\ lane.pc = "decrement"
    /\ rt' = [rt EXCEPT !.pending = @ - 1]
    /\ Goto("start")
    /\ UNCHANGED <<ctl, srv, stray>>

Fenced == rt.inFlight /\ rt.sess \in Active

MayStart(s) ==
    /\ rt.stmt[s] = "accepted"
    /\ rt.accepting \/ rt.sess \in {"idle", "executing"}

LaneStarts ==
    /\ lane.pc = "start"
    /\ ~Fenced
    /\ IF MayStart(lane.s)
       THEN /\ rt' = [rt EXCEPT !.softFlag = FALSE,
                                !.current = lane.s,
                                !.sess = "executing",
                                !.stmt[lane.s] = "executing"]
            /\ lane' = [lane EXCEPT !.pc = "execute", !.out = "none",
                                    !.lost = FALSE]
       ELSE /\ Goto("drain")
            /\ UNCHANGED rt
    /\ UNCHANGED <<ctl, srv, stray>>

\* The reason read under the lock when a cancellation is classified.
CancelOutcome == IF rt.reason = "timeout" THEN "timeout" ELSE "cancelled"

\* connection.execute: the soft-cancel check, then the statement reaches the
\* server.
LaneExecutes ==
    /\ lane.pc = "execute"
    /\ IF rt.softFlag
       THEN /\ lane' = [lane EXCEPT !.pc = "finish", !.out = CancelOutcome]
            /\ UNCHANGED srv
       ELSE /\ Goto("running")
            /\ srv' = IF srv.alive
                      THEN [srv EXCEPT !.op = lane.s, !.interrupted = FALSE]
                      ELSE srv
    /\ UNCHANGED <<rt, ctl, stray>>

\* cursor.execute returned; the first batch is about to be fetched.
LaneStreams ==
    /\ lane.pc = "running"
    /\ srv.alive
    /\ Goto("streaming")
    /\ rt' = [rt EXCEPT !.stmt[lane.s] =
                  IF @ = "executing" THEN "streaming" ELSE @]
    /\ UNCHANGED <<ctl, srv, stray>>

\* The driver call is over and the statement no longer runs on the server.
DriverReturns(out) ==
    /\ lane' = [lane EXCEPT !.pc = "finish", !.out = out]
    /\ srv' = [srv EXCEPT !.op = NoStmt, !.interrupted = FALSE]
    /\ UNCHANGED <<ctl, stray>>

LaneSucceeds ==
    /\ lane.pc = "streaming"
    /\ srv.alive
    /\ DriverReturns("succeeded")
    /\ UNCHANGED rt

\* A statement error, a result-store error, or the server's own time limit.
LaneFails ==
    /\ lane.pc \in {"running", "streaming"}
    /\ srv.alive
    /\ \/ DriverReturns("failed")
       \/ lane.s \notin Unlimited /\ DriverReturns("timeout")
    /\ UNCHANGED rt

\* The server reports the statement interrupted (server_confirmed).
LaneInterrupted ==
    /\ lane.pc \in {"running", "streaming"}
    /\ srv.alive
    /\ srv.interrupted
    /\ DriverReturns(CancelOutcome)
    /\ rt' = [rt EXCEPT !.confirmed = TRUE]

\* The soft-cancel check between two batches.
LaneSoftCancels ==
    /\ lane.pc = "streaming"
    /\ rt.softFlag
    /\ DriverReturns(CancelOutcome)
    /\ UNCHANGED rt

\* connection_aborted, or an unknown error followed by a failing ping.
LaneFindsDead ==
    /\ lane.pc \in {"running", "streaming"}
    /\ ~srv.alive
    /\ lane' = [lane EXCEPT !.pc = "finish", !.out = "failed", !.lost = TRUE]
    /\ UNCHANGED <<rt, ctl, srv, stray>>

\* The last critical section of _execute_statement: the outcome, unless the
\* control lane recorded one, then the current statement, then the session.
\* Mutant of Ended: the outcome overwrites one recorded by the control lane.
EndedAnyway(r, s, out) == [r EXCEPT !.stmt[s] = out]

Ended(r, s, out) ==
    IF r.stmt[s] \in Terminal THEN r ELSE [r EXCEPT !.stmt[s] = out]

Vacated(r, s) == [r EXCEPT !.current = IF @ = s THEN NoStmt ELSE @]

Rested(r) ==
    IF ~r.inFlight /\ r.sess \in {"executing", "cancelling"}
    THEN [r EXCEPT !.sess = "idle"] ELSE r

LostIf(lost, r) == IF lost THEN Lose(r) ELSE r

Finished(r, s, out, lost) ==
    Rested(Settle(Vacated(LostIf(lost, Ended(r, s, out)), s), s))

LaneFinishes ==
    /\ lane.pc = "finish"
    /\ rt' = Finished(rt, lane.s, lane.out, lane.lost)
    /\ srv' = IF rt'.sess = "session_lost"
              THEN [srv EXCEPT !.alive = FALSE] ELSE srv
    /\ Goto("drain")
    /\ UNCHANGED <<ctl, stray>>

LaneDrains ==
    /\ lane.pc = "drain"
    /\ IF rt.closePending /\ rt.mailbox = <<>>
       THEN /\ rt' = [rt EXCEPT !.closePending = FALSE]
            /\ Goto("closeFence")
       ELSE /\ Goto("get")
            /\ UNCHANGED rt
    /\ UNCHANGED <<ctl, srv, stray>>

LaneBeginsClose ==
    /\ lane.pc = "closeFence"
    /\ ~Fenced
    /\ IF rt.sess \in {"closed", "session_lost", "connect_failed"}
       THEN /\ Goto("ended")
            /\ UNCHANGED rt
       ELSE /\ Goto("closing")
            /\ rt' = [rt EXCEPT !.sess = "closing"]
    /\ UNCHANGED <<ctl, srv, stray>>

LaneCloses ==
    /\ lane.pc = "closing"
    /\ rt' = [rt EXCEPT !.sess = "closed"]
    /\ srv' = [srv EXCEPT !.alive = FALSE]
    /\ Goto("ended")
    /\ UNCHANGED <<ctl, stray>>

\* What the lane thread does without waiting for the driver to return.
LaneInBroker ==
    \/ LaneOpens \/ LaneGets \/ LaneDecrements \/ LaneStarts \/ LaneExecutes
    \/ LaneFinishes \/ LaneDrains \/ LaneBeginsClose \/ LaneCloses

LaneInDriver ==
    \/ LaneStreams \/ LaneSucceeds \/ LaneFails \/ LaneInterrupted
    \/ LaneSoftCancels \/ LaneFindsDead

----------------------------------------------------------------------------
(* The control lane and the server.                                         *)

\* What a command that reached the server does to whatever runs there now.
Strikes(cmd) ==
    /\ srv' = IF cmd.kind = "destroy"
              THEN [op |-> NoStmt, alive |-> FALSE, interrupted |-> FALSE]
              ELSE [srv EXCEPT !.interrupted = srv.op # NoStmt]
    /\ stray' = IF srv.op \in {NoStmt, cmd.target} THEN stray
                ELSE stray \cup {[kind |-> cmd.kind, target |-> cmd.target,
                                  victim |-> srv.op]}

ControlRuns ==
    /\ ctl.pc = "get"
    /\ rt.ctlq # <<>>
    /\ LET cmd == Head(rt.ctlq)
       IN  /\ rt' = [rt EXCEPT !.ctlq = Tail(@)]
           /\ ctl' = [ctl EXCEPT !.pc = IF cmd.kind = "stop" THEN "ended"
                                        ELSE "report",
                                 !.kind = cmd.kind]
           /\ \/ /\ cmd.kind # "stop"
                 /\ srv.alive
                 /\ cmd.kind = "destroy" \/ ctl.support = "available"
                 /\ Strikes(cmd)
              \/ UNCHANGED <<srv, stray>>
    /\ UNCHANGED lane

OnCancelDone(r) ==
    IF r.cancelStmt = NoStmt THEN r
    ELSE Settle([r EXCEPT !.controlDone = TRUE], r.cancelStmt)

\* Mutant of OnDestroyDone: the statement is called cancelled.
OnDestroyDoneCancelled(r) ==
    IF r.cancelStmt = NoStmt THEN r
    ELSE LET ended == IF r.stmt[r.cancelStmt] \in Terminal THEN r
                      ELSE [r EXCEPT !.stmt[r.cancelStmt] = "cancelled"]
         IN  [Lose(ended) EXCEPT !.current = NoStmt]

OnDestroyDone(r) ==
    IF r.cancelStmt = NoStmt THEN r
    ELSE LET ended == IF r.stmt[r.cancelStmt] \in Terminal THEN r
                      ELSE [r EXCEPT !.stmt[r.cancelStmt] = "failed"]
         IN  [Lose(ended) EXCEPT !.current = NoStmt]

ControlReports ==
    /\ ctl.pc = "report"
    /\ rt' = IF ctl.kind = "cancel" THEN OnCancelDone(rt) ELSE OnDestroyDone(rt)
    /\ ctl' = [ctl EXCEPT !.pc = "get", !.kind = "none"]
    /\ UNCHANGED <<lane, srv, stray>>

\* The network or the server drops the connection.
ServerDrops ==
    /\ srv.alive
    /\ srv' = [op |-> NoStmt, alive |-> FALSE, interrupted |-> FALSE]
    /\ UNCHANGED <<rt, lane, ctl, stray>>

----------------------------------------------------------------------------
Next ==
    \/ ControlOpens \/ AttachReady \/ AttachGivesUp
    \/ \E s \in Stmts : Submit(s) \/ SubmitWithoutResultSet(s) \/ Cancel(s)
    \/ Close \/ Shutdown \/ ControlStop
    \/ \E due \in SUBSET Deadlines : RunTimersOnce(due)
    \/ LaneInBroker \/ LaneInDriver
    \/ ControlRuns \/ ControlReports \/ ServerDrops

Spec == Init /\ [][Next]_vars

\* One round of the timer that finds the given deadline passed and acts on it.
StatementDue ==
    /\ TimeOutStatement(rt, {"statement"}) # rt
    /\ \E due \in SUBSET Deadlines : "statement" \in due /\ RunTimersOnce(due)

GraceDue ==
    /\ Escalate(rt, {"grace"}) # rt
    /\ \E due \in SUBSET Deadlines : "grace" \in due /\ RunTimersOnce(due)

\* The threads of the broker run, a deadline that stays armed is found passed
\* by some round of the timer, and a control command returns.  The driver call
\* of the lane need not: nothing is assumed of LaneInDriver.
Fairness ==
    /\ WF_vars(ControlOpens) /\ WF_vars(AttachReady)
    /\ WF_vars(LaneInBroker)
    /\ WF_vars(ControlRuns) /\ WF_vars(ControlReports)
    /\ WF_vars(StatementDue) /\ WF_vars(GraceDue)

FairSpec == Spec /\ Fairness

----------------------------------------------------------------------------
(* Properties.                                                              *)

\* Every field has its type.  The lane's locals, the control lane's and the
\* server's included.
TypeOK ==
    /\ rt \in Runtime
    /\ lane \in [pc : LanePcs, s : Stmts \cup {NoStmt},
                 out : Terminal \cup {"none"}, lost : BOOLEAN]
    /\ ctl \in [pc : {"opening", "get", "report", "ended"},
                kind : {"none", "cancel", "destroy", "stop"},
                support : {"unknown", "available", "degraded"}]
    /\ srv \in [op : Stmts \cup {NoStmt}, alive : BOOLEAN,
                interrupted : BOOLEAN]
    /\ stray \subseteq [kind : {"cancel", "destroy"}, target : Stmts,
                        victim : Stmts]

\* transition_session and transition_statement raise on an edge that is not
\* in their table, in whichever thread asked for it.  No thread ever asks:
\* every change of the session's state and of a statement's is an edge.
LegalTransitions ==
    [][/\ rt.sess # rt'.sess => <<rt.sess, rt'.sess>> \in SessionTransitions
       /\ \A s \in Stmts :
             \/ rt.stmt[s] = rt'.stmt[s]
             \/ rt.stmt[s] = "none" /\ rt'.stmt[s] \in {"accepted", "failed"}
             \/ <<rt.stmt[s], rt'.stmt[s]>> \in StatementTransitions]_vars

\* "broker mailbox accounting diverged" (submit's RuntimeError) is
\* unreachable: while the session accepts statements and pending_count is
\* below the limit, put_nowait finds a free slot.
MailboxNeverDiverges ==
    rt.accepting /\ rt.pending < MailboxSize => Len(rt.mailbox) < MailboxSize

\* The fence of _execute_statement: while a cancel is in flight on a session
\* that is not over, the statement on the lane is the one being cancelled.
FenceBlocksNext ==
    rt.inFlight /\ rt.sess \in Active => rt.current \in {rt.cancelStmt, NoStmt}

\* A statement the broker reports cancelled or timed out is not running on
\* the server any more (_on_control_destroy_done must not claim so when its
\* destroy failed).
HonestCancel ==
    \A s \in Stmts : rt.stmt[s] \in {"cancelled", "timeout"} => srv.op # s

\* Nobody's statement ends cancelled unless its cancel was asked for, or it
\* was the victim of a command sent for another statement.
CancelWasRequested ==
    \A s \in Stmts :
       rt.stmt[s] = "cancelled" =>
          rt.cancelRequested[s] \/ \E h \in stray : h.victim = s

\* A closed session leaves no statement behind: close waits in the mailbox
\* after everything accepted, or in close_reason_pending until it is drained.
ClosedMeansSettled ==
    rt.sess = "closed" => \A s \in Stmts : rt.stmt[s] \in Terminal \cup {"none"}

\* A cancel in flight ends, lifted or escalated to a lost session, without
\* any help from a driver call that hangs (until shutdown stops the timer).
CancelSettles == rt.inFlight ~> (~rt.inFlight \/ rt.stopped)

\* A session told to close is eventually over: closed, lost or never
\* connected, whatever its lane is stuck in, unless it keeps executing
\* statements that were submitted without a time limit, or attach gave up
\* before it had a lane.
CloseCompletes ==
    <>[](rt.current \notin Unlimited /\ lane.pc # "never") =>
       (~rt.accepting ~> (rt.sess \notin Active \/ rt.stopped))

(* The session's own order: the mailbox has room whenever submit counts on  *)
(* it, no statement starts behind a cancel in flight, one is called         *)
(* cancelled only if it or the command that hit it was asked for and never  *)
(* while the server still runs it, and a closed session has settled every   *)
(* statement (SessionRuntime and its lane).                                 *)
LaneInv ==
    /\ TypeOK
    /\ MailboxNeverDiverges
    /\ FenceBlocksNext
    /\ HonestCancel
    /\ CancelWasRequested
    /\ ClosedMeansSettled
=============================================================================
