--------------------------- MODULE InteractiveSeam ---------------------------
(***************************************************************************)
(* The seam between the session broker and a MySQL or DM server            *)
(* (app/dbclients/interactive): the connection that one lane owns, the     *)
(* control connection of its datasource, and what each believes of the     *)
(* server session behind it.  The lane's thread, the control thread, the   *)
(* server and the network take turns, one call of the driver at a time.    *)
(* SessionLane models the broker above the seam; here the broker issues    *)
(* one statement after the other, may cancel each, and escalates.  Rows,   *)
(* columns, passwords and the wording of errors are not modelled.          *)
(***************************************************************************)
EXTENDS Integers, Sequences

CONSTANTS
    Dialects,       \* the dialects considered
    Limits,         \* the time limits statements ask for, 0 for none
    DefaultLimit,   \* default_timeout_seconds of a connection
    Margin,         \* MYSQL_SAFETY_BELT_MARGIN_SECONDS
    MaxLogins,      \* bound: sessions the server opens
    MaxStatements   \* bound: statements the lane runs

ASSUME SeamBounds ==
    /\ Dialects \subseteq {"mysql", "dm"}
    /\ Limits \subseteq Nat /\ DefaultLimit \in Nat /\ Margin \in Nat \ {0}
    /\ MaxLogins \in Nat /\ MaxStatements \in Nat

VARIABLES
    db,    \* the server: its dialect, what it grants, and its sessions
    conn,  \* the lane's connection
    chan,  \* the control connection and the command it works on
    told   \* what the lane was told of its last statement

seamVars == <<db, conn, chan, told>>

Markers == 1 .. MaxLogins
NoMarker == 0
NoBelt == -1

-----------------------------------------------------------------------------
(* Exceptions and what is read off them.  An exception is the chain of its  *)
(* causes; a link carries a numeric code, or none, and may be of a socket's *)
(* type.                                                                    *)

NoCode == 0
Uncovered == 1

Link(code) == [code |-> code, socket |-> FALSE]
SocketLink(code) == [code |-> code, socket |-> TRUE]

MySqlRaises ==
    [gone |-> {<<Link(2013), SocketLink(Uncovered)>>, <<Link(2006)>>,
               <<SocketLink(NoCode)>>},
     interrupted |-> {<<Link(1317)>>}, timedout |-> {<<Link(3024)>>},
     erred |-> {<<Link(1146)>>, <<Link(Uncovered)>>},
     login |-> {<<Link(1045)>>, <<Link(Uncovered)>>}]

\* dmPython wraps what happened at login in an error without a code.
DmRaises ==
    [gone |-> {<<SocketLink(Uncovered)>>, <<Link(Uncovered)>>},
     interrupted |-> {<<Link(-6515)>>}, timedout |-> {},
     erred |-> {<<Link(-2104)>>, <<Link(Uncovered)>>},
     login |-> {<<Link(NoCode), Link(-2501)>>,
                <<Link(NoCode), Link(Uncovered)>>}]

Raises == IF db.dialect = "mysql" THEN MySqlRaises ELSE DmRaises

MYSQL_ERROR_CODES ==
    [auth_failed |-> {1045}, host_unreachable |-> {2003, 2005}, cancelled |-> {1317},
     timeout |-> {3024}, statement_error |-> {1054, 1064, 1146}, connection_dead |-> {2006, 2013}]

DM_ERROR_CODES ==
    [auth_failed |-> {-2501}, host_unreachable |-> {-70028}, cancelled |-> {-6515},
     timeout |-> {}, statement_error |-> {-2104, -2106}, connection_dead |-> {}]

Tabled == {"auth_failed", "host_unreachable", "cancelled", "timeout", "statement_error",
           "connection_dead"}

ErrorCategory == Tabled \union {"login_timeout", "unknown"}

DriverErrorCode(exc) ==
    LET coded == {k \in DOMAIN exc : exc[k].code # NoCode}
    IN  IF coded = {} THEN NoCode
        ELSE exc[CHOOSE k \in coded : \A j \in coded : k <= j].code

CategoryFromType(exc) ==
    IF \E k \in DOMAIN exc : exc[k].socket THEN "connection_dead" ELSE "unknown"

\* The table of the dialect decides, then the type of the exception.
Classify(codes, exc) ==
    LET found == {c \in Tabled : DriverErrorCode(exc) \in codes[c]}
    IN  IF found = {} THEN CategoryFromType(exc) ELSE CHOOSE c \in found : TRUE

Codes == IF db.dialect = "mysql" THEN MYSQL_ERROR_CODES ELSE DM_ERROR_CODES

ServerConfirmed(category) == category \in {"cancelled", "timeout"}

\* A login that fails for a reason no table names, after its whole budget.
ClassifyConnectFailure(exc, late) ==
    LET c == Classify(Codes, exc) IN IF c = "unknown" /\ late THEN "login_timeout" ELSE c

-----------------------------------------------------------------------------
NoSession == [state |-> "unused", limit |-> 0, doing |-> "nothing"]

NewSession == [NoSession EXCEPT !.state = "up"]

Up(m) == m # NoMarker /\ db.sessions[m].state = "up"

\* The server numbers its sessions in the order they log in.
Fresh(m) == \A k \in Markers : (k < m) = (db.sessions[k].state # "unused")

Logged(d, m) == [d EXCEPT !.sessions[m] = NewSession]

Gone(d, m) ==
    IF m = NoMarker THEN d ELSE [d EXCEPT !.sessions[m].state = "gone"]

Doing(d, m, what) == [d EXCEPT !.sessions[m].doing = what]

NewConnection ==
    [pc |-> "new", handle |-> NoMarker, marker |-> NoMarker, alive |-> FALSE,
     belt |-> NoBelt, supported |-> TRUE, flag |-> FALSE, limit |-> 0, run |-> 0]

NewChannel ==
    [pc |-> "new", handle |-> NoMarker, own |-> NoMarker, support |-> "unknown",
     todo |-> "nothing", done |-> "nothing", ok |-> FALSE]

NothingTold == [category |-> "nothing", confirmed |-> FALSE]

SeamInit ==
    /\ \E d \in Dialects, g, b \in BOOLEAN :
         db = [dialect |-> d, grants |-> g, knows |-> b /\ d = "mysql",
               sessions |-> [m \in Markers |-> NoSession]]
    /\ conn = NewConnection /\ chan = NewChannel /\ told = NothingTold

-----------------------------------------------------------------------------
(* The lane's connection. *)

\* open(), once attach has heard of the control connection: the driver connects,
\* or its error is classified.
OpenConnects ==
    /\ conn.pc = "new" /\ chan.pc = "ready"
    /\ \E m \in Markers :
         /\ Fresh(m)
         /\ db' = Logged(db, m)
         /\ conn' = [conn EXCEPT !.pc = "arming", !.handle = m, !.alive = TRUE]
    /\ UNCHANGED <<chan, told>>

OpenFails ==
    /\ conn.pc = "new" /\ chan.pc = "ready"
    /\ \E exc \in Raises.login, late \in BOOLEAN :
         told' = [category |-> ClassifyConnectFailure(exc, late), confirmed |-> FALSE]
    /\ conn' = [conn EXCEPT !.pc = "failed"]
    /\ UNCHANGED <<db, chan>>

Belt(limit) == IF limit = 0 THEN 0 ELSE limit + Margin

\* The limit that is about to be put in force: the connection's default while
\* it opens, the statement's own before it is executed.
Wanted == Belt(IF conn.pc = "arming" THEN DefaultLimit ELSE conn.limit)

AfterSync == IF conn.pc = "arming" THEN "marking" ELSE "sending"

\* DM has nothing to set; nor is a limit set that is known to be in force, or
\* once the server has refused one.
SyncSkipped ==
    /\ conn.pc \in {"arming", "syncing"}
    /\ db.dialect = "dm" \/ ~conn.supported \/ conn.belt = Wanted
    /\ conn' = [conn EXCEPT !.pc = AfterSync]
    /\ UNCHANGED <<db, chan, told>>

SyncSent ==
    /\ conn.pc \in {"arming", "syncing"}
    /\ db.dialect = "mysql" /\ conn.supported /\ conn.belt # Wanted
    /\ db.sessions[conn.handle].doing = "nothing"
    /\ db' = Doing(db, conn.handle, "setting")
    /\ UNCHANGED <<conn, chan, told>>

\* SET SESSION MAX_EXECUTION_TIME came back, or raised: whatever the reason,
\* the connection concludes that the server has no such variable.
SyncTakes(c) == [c EXCEPT !.belt = Wanted, !.pc = AfterSync]

\* Mutant of SyncRefused: the limit is remembered before the server took it.
SyncRefusedUnseen(c) == SyncTakes(c)

SyncRefused(c) == [c EXCEPT !.supported = FALSE, !.belt = NoBelt, !.pc = AfterSync]

SyncReturns ==
    /\ conn.pc \in {"arming", "syncing"} /\ Up(conn.handle) /\ db.knows
    /\ db.sessions[conn.handle].doing = "setting"
    /\ db' = [db EXCEPT !.sessions[conn.handle].doing = "nothing",
                        !.sessions[conn.handle].limit = Wanted]
    /\ conn' = SyncTakes(conn)
    /\ UNCHANGED <<chan, told>>

SyncRaises ==
    /\ conn.pc \in {"arming", "syncing"}
    /\ \/ db.sessions[conn.handle].doing = "interrupted"
       \/ db.sessions[conn.handle].doing = "setting" /\ ~(Up(conn.handle) /\ db.knows)
    /\ db' = Doing(db, conn.handle, "nothing")
    /\ conn' = SyncRefused(conn)
    /\ UNCHANGED <<chan, told>>

Closed(c) == [c EXCEPT !.handle = NoMarker, !.alive = FALSE]

\* _read_session_marker: the session's own number, or the connection is closed.
MarkerRead ==
    /\ conn.pc = "marking" /\ Up(conn.handle)
    /\ conn' = [conn EXCEPT !.pc = "idle", !.marker = conn.handle]
    /\ UNCHANGED <<db, chan, told>>

MarkerFails ==
    /\ conn.pc = "marking" /\ ~Up(conn.handle)
    /\ \E exc \in Raises.gone : told' = [category |-> Classify(Codes, exc), confirmed |-> FALSE]
    /\ conn' = [Closed(conn) EXCEPT !.pc = "failed"]
    /\ UNCHANGED <<db, chan>>

\* _execute_statement, under the broker's lock: no cancel is in flight, and the
\* flag of the last one is cleared.
NextStatement(limit) ==
    /\ conn.pc = "idle" /\ conn.run < MaxStatements /\ chan.todo = "nothing"
    /\ conn' = [conn EXCEPT !.pc = "starting", !.flag = FALSE, !.limit = limit, !.run = @ + 1]
    /\ chan' = [chan EXCEPT !.done = "nothing"]
    /\ db' = Doing(db, conn.handle, "nothing")
    /\ told' = NothingTold

SoftCancelled == [category |-> "cancelled", confirmed |-> FALSE]

\* execute(): a connection that is not open, or a cancel already requested,
\* stops the statement before anything is sent.
ExecuteBegins ==
    /\ conn.pc = "starting"
    /\ LET open == conn.handle # NoMarker /\ conn.alive IN
       /\ conn' = [conn EXCEPT !.pc = IF open /\ ~conn.flag THEN "syncing" ELSE "idle"]
       /\ told' = IF ~open THEN [category |-> "unknown", confirmed |-> FALSE]
                  ELSE IF conn.flag THEN SoftCancelled ELSE told
    /\ UNCHANGED <<db, chan>>

ExecuteSent ==
    /\ conn.pc = "sending"
    /\ conn' = [conn EXCEPT !.pc = "executing"]
    /\ db' = Doing(db, conn.handle, "running")
    /\ UNCHANGED <<chan, told>>

ExecuteReturns ==
    /\ conn.pc = "executing" /\ Up(conn.handle)
    /\ db.sessions[conn.handle].doing = "answering"
    /\ conn' = [conn EXCEPT !.pc = "streaming"]
    /\ UNCHANGED <<db, chan, told>>

\* The generator between two batches: the flag first, then fetchmany.
StreamCancelled ==
    /\ conn.pc = "streaming" /\ conn.flag
    /\ conn' = [conn EXCEPT !.pc = "idle"]
    /\ told' = SoftCancelled
    /\ UNCHANGED <<db, chan>>

StreamEnds ==
    /\ conn.pc = "streaming" /\ ~conn.flag /\ Up(conn.handle)
    /\ db.sessions[conn.handle].doing = "answering"
    /\ db' = Doing(db, conn.handle, "nothing")
    /\ conn' = [conn EXCEPT !.pc = "idle"]
    /\ UNCHANGED <<chan, told>>

\* What the driver raises for the state its session is in.
Failures(m) == IF Up(m) THEN LET w == db.sessions[m].doing IN
                               IF w \in {"interrupted", "timedout", "erred"} THEN Raises[w] ELSE {}
               ELSE Raises.gone

\* _run: an error of execute or fetchmany is classified; a dead connection is
\* never used again.  The broker goes on with the session, gives it up, or, if
\* the table does not know the code, asks the connection first.
StatementRaises ==
    /\ conn.pc \in {"executing", "streaming"} /\ (conn.pc = "streaming" => ~conn.flag)
    /\ \E exc \in Failures(conn.handle) :
         LET c == Classify(Codes, exc) IN
         /\ told' = [category |-> c, confirmed |-> ServerConfirmed(c)]
         /\ conn' = [conn EXCEPT !.alive = @ /\ c # "connection_dead",
                                 !.pc = CASE c = "connection_dead" -> "lost"
                                          [] c = "unknown" -> "judging" [] OTHER -> "idle"]
    /\ UNCHANGED <<db, chan>>

\* ping() after an error of unknown kind.
Judged ==
    /\ conn.pc = "judging"
    /\ conn' = IF Up(conn.handle) THEN [conn EXCEPT !.pc = "idle"]
               ELSE [conn EXCEPT !.pc = "lost", !.alive = FALSE]
    /\ UNCHANGED <<db, chan, told>>

CloseConnection ==
    /\ conn.pc \in {"idle", "lost"}
    /\ db' = Gone(db, conn.handle)
    /\ conn' = [Closed(conn) EXCEPT !.pc = "closed"]
    /\ UNCHANGED <<chan, told>>

-----------------------------------------------------------------------------
(* The broker's cancel ladder, as far as the seam sees it. *)

Busy == conn.pc \in {"starting", "syncing", "sending", "executing", "streaming", "judging"}

RequestCancel ==
    /\ Busy /\ chan.todo = "nothing" /\ chan.done = "nothing"
    /\ conn' = [conn EXCEPT !.flag = TRUE]
    /\ chan' = [chan EXCEPT !.todo = "cancel"]
    /\ UNCHANGED <<db, told>>

RequestDestroy ==
    /\ Busy /\ chan.todo = "nothing" /\ chan.done = "cancel"
    /\ chan' = [chan EXCEPT !.todo = "destroy"]
    /\ UNCHANGED <<db, conn, told>>

-----------------------------------------------------------------------------
(* The control connection. *)

\* _connect: the connection is kept only with its marker read, which may be
\* empty.
Connected(c, m, own) == [c EXCEPT !.handle = m, !.own = own]

ChannelOpens ==
    /\ chan.pc = "new"
    /\ \E m \in Markers : \E own \in {m, NoMarker} :
         /\ Fresh(m)
         /\ db' = Logged(db, m)
         /\ chan' = [Connected(chan, m, own) EXCEPT !.pc = "probing"]
    /\ UNCHANGED <<conn, told>>

Settled(c, support) == [c EXCEPT !.pc = "ready", !.support = support]

\* open() failed: the control lane goes on without server-side cancel.
ChannelOpenFails ==
    /\ chan.pc = "new"
    /\ chan' = Settled(chan, "degraded")
    /\ UNCHANGED <<db, conn, told>>

\* _probe: the channel tries a cancel on itself.  MySQL interrupts the very
\* statement, and that proves as much as a return.
ProbeConfirms ==
    IF ~Up(chan.handle) THEN FALSE
    ELSE db.grants /\ \/ db.dialect = "dm"
                      \/ \A exc \in Raises.interrupted : ServerConfirmed(Classify(Codes, exc))

Probe ==
    /\ chan.pc = "probing"
    /\ chan' = IF chan.own # NoMarker /\ ProbeConfirms THEN [chan EXCEPT !.pc = "checking"]
               ELSE Settled(chan, "degraded")
    /\ UNCHANGED <<db, conn, told>>

\* The connection must have survived the probe, or be replaced.
CheckAfterProbe ==
    /\ chan.pc = "checking"
    /\ \/ /\ Up(chan.handle)
          /\ chan' = Settled(chan, "available")
          /\ UNCHANGED db
       \/ /\ ~Up(chan.handle)
          /\ \E m \in Markers :
               /\ Fresh(m)
               /\ db' = Logged(db, m)
               /\ chan' = Settled(Connected(chan, m, m), "available")
       \/ /\ ~Up(chan.handle)
          /\ chan' = Settled(chan, "degraded")
          /\ UNCHANGED db
    /\ UNCHANGED <<conn, told>>

Done(c, ok) == [c EXCEPT !.pc = "ready", !.todo = "nothing", !.done = c.todo, !.ok = ok]

\* _loop: without server-side cancel, or for a session that has no marker, a
\* command fails at once.
CommandRefused ==
    /\ chan.pc = "ready"
    /\ chan.todo = "cancel" /\ chan.support # "available"
    /\ chan' = Done(chan, FALSE)
    /\ UNCHANGED <<db, conn, told>>

Accepted == chan.todo = "destroy" \/ (chan.todo = "cancel" /\ chan.support = "available")

\* _ensure_ready: ping, else close and connect again, else fail.
EnsureReady ==
    /\ chan.pc = "ready" /\ Accepted
    /\ \/ /\ Up(chan.handle)
          /\ chan' = [chan EXCEPT !.pc = "using"]
          /\ UNCHANGED db
       \/ /\ ~Up(chan.handle)
          /\ \E m \in Markers :
               /\ Fresh(m)
               /\ db' = Logged(db, m)
               /\ chan' = [Connected(chan, m, m) EXCEPT !.pc = "using"]
       \/ /\ ~Up(chan.handle)
          /\ chan' = [Done(chan, FALSE) EXCEPT !.handle = NoMarker]
          /\ UNCHANGED db
    /\ UNCHANGED <<conn, told>>

Interrupt(d, m) ==
    IF d.sessions[m].doing \in {"setting", "running", "answering"}
    THEN Doing(d, m, "interrupted") ELSE d

Strike(d, kind, m) == IF kind = "cancel" THEN Interrupt(d, m) ELSE Gone(d, m)

\* _execute_control: the server carries the command out, or the error is told.
ControlExecutes ==
    /\ chan.pc = "using" /\ Up(chan.handle) /\ db.grants
    /\ db' = Strike(db, chan.todo, conn.marker)
    /\ chan' = Done(chan, TRUE)
    /\ UNCHANGED <<conn, told>>

ControlRaises ==
    /\ chan.pc = "using" /\ ~(Up(chan.handle) /\ db.grants)
    /\ chan' = Done(chan, FALSE)
    /\ UNCHANGED <<db, conn, told>>

ChannelStops ==
    /\ chan.pc = "ready" /\ chan.todo = "nothing" /\ ~Busy
    /\ db' = Gone(db, chan.handle)
    /\ chan' = [chan EXCEPT !.pc = "stopped", !.handle = NoMarker]
    /\ UNCHANGED <<conn, told>>

-----------------------------------------------------------------------------
(* The server and the network. *)

Advance(m) ==
    /\ Up(m)
    /\ \/ /\ db.sessions[m].doing = "running"
          /\ db' \in {Doing(db, m, "answering"), Doing(db, m, "erred")}
       \/ /\ db.sessions[m].doing \in {"running", "answering"} /\ db.sessions[m].limit # 0
          /\ db' = Doing(db, m, "timedout")
    /\ UNCHANGED <<conn, chan, told>>

SessionDies(m) ==
    /\ Up(m)
    /\ db' = Gone(db, m)
    /\ UNCHANGED <<conn, chan, told>>

SeamNext ==
    \/ OpenConnects \/ OpenFails \/ SyncSkipped \/ SyncSent \/ SyncReturns \/ SyncRaises
    \/ MarkerRead \/ MarkerFails \/ \E t \in Limits : NextStatement(t)
    \/ ExecuteBegins \/ ExecuteSent \/ ExecuteReturns \/ StreamCancelled \/ StreamEnds
    \/ StatementRaises \/ Judged \/ CloseConnection
    \/ RequestCancel \/ RequestDestroy
    \/ ChannelOpens \/ ChannelOpenFails \/ Probe \/ CheckAfterProbe \/ CommandRefused
    \/ EnsureReady \/ ControlExecutes \/ ControlRaises \/ ChannelStops
    \/ \E m \in Markers : Advance(m) \/ SessionDies(m)

SeamSpec == SeamInit /\ [][SeamNext]_seamVars

-----------------------------------------------------------------------------
(* Properties. *)

InUse == {"idle", "starting", "syncing", "sending", "executing", "streaming"}

ServerSessions ==
    [state : {"unused", "up", "gone"}, limit : Nat,
     doing : {"nothing", "setting", "running", "answering", "erred", "interrupted", "timedout"}]

DbServers == [dialect : Dialects, grants : BOOLEAN, knows : BOOLEAN,
              sessions : [Markers -> ServerSessions]]

LaneConnections ==
    [pc : InUse \union {"new", "arming", "marking", "judging", "failed", "lost", "closed"},
     handle : Markers \union {NoMarker}, marker : Markers \union {NoMarker},
     alive : BOOLEAN, belt : Nat \union {NoBelt}, supported : BOOLEAN,
     flag : BOOLEAN, limit : Nat, run : 0 .. MaxStatements]

ControlConnections ==
    [pc : {"new", "probing", "checking", "ready", "using", "stopped"},
     handle : Markers \union {NoMarker}, own : Markers \union {NoMarker},
     support : {"unknown", "available", "degraded"},
     todo : {"nothing", "cancel", "destroy"}, done : {"nothing", "cancel", "destroy"},
     ok : BOOLEAN]

SeamAnswers == [category : ErrorCategory \union {"nothing"}, confirmed : BOOLEAN]

SeamTypeOK == /\ db \in DbServers /\ conn \in LaneConnections
              /\ chan \in ControlConnections /\ told \in SeamAnswers

\* The limit the server enforces on a statement is the one synchronised for it,
\* never an earlier statement's, as long as the connection believes in limits.
OwnLimitInForce ==
    conn.pc \in {"executing", "streaming"} /\ db.dialect = "mysql" /\ conn.supported
       => db.sessions[conn.handle].limit = Belt(conn.limit)

\* The lane goes on only with a connection that is open, not judged dead, and
\* known to the control connection by the number of the very same session.
IdleIsUsable ==
    conn.pc \in InUse => conn.handle # NoMarker /\ conn.alive /\ conn.marker = conn.handle

\* What is told to be confirmed by the server, the server did: it interrupted
\* the statement or ran out of its limit.  Breaking off a fetch confirms nothing.
ConfirmedByServer ==
    told.confirmed => /\ conn.marker # NoMarker
                      /\ db.sessions[conn.marker].doing \in {"interrupted", "timedout"}

\* Server-side cancel is offered only where the account may do it, the control
\* connection never carries another one's number, and a destroy that is told to
\* have worked left no session.
ChannelIsHonest ==
    /\ chan.support = "available" => db.grants
    /\ chan.own # NoMarker /\ chan.handle # NoMarker => chan.own = chan.handle
    /\ chan.done = "destroy" /\ chan.ok => db.sessions[conn.marker].state = "gone"

(* The seam between the broker and a server: the limit in force is the       *)
(* statement's own, a connection in use is a live one with the right number, *)
(* and neither a cancel nor a confirmation is made up                        *)
(* (app/dbclients/interactive).                                              *)
SeamInv == SeamTypeOK /\ OwnLimitInForce /\ IdleIsUsable /\ ConfirmedByServer /\ ChannelIsHonest

\* mysql.py promises that a statement without a limit is not killed by the limit
\* an earlier one left behind ("a limit of 0 writes 0 and turns the belt off").
UnlimitedRunsOn == told.category = "timeout" => conn.limit # 0
=============================================================================
