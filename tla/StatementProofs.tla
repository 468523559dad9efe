-------------------------- MODULE StatementProofs --------------------------
(* What a statement meets outside the session: the seam between the broker   *)
(* and a server is safe for any limits and any number of sessions and        *)
(* statements (SeamInv); so is the keeping of its result, for results,       *)
(* limits and spools of any size (ResultsInv, RightOnesGo), and the reading  *)
(* of it while it is produced (ReadsInv).                                    *)
EXTENDS InteractiveSeam, ResultReads, ResultSets, FiniteSetTheorems, WellFoundedInduction,
        TLAPS

----------------------------------------------------------------------------
(* The seam: the inductive invariant.                                        *)

\* Whoever has the number of a session has the number of one that logged in.
Named(m) == m # NoMarker => m \in Markers /\ db.sessions[m].state # "unused"

Known == Named(conn.handle) /\ Named(conn.marker) /\ Named(chan.handle)

\* A connection has its session from open on, and in use the marker of it.
Opened ==
    /\ conn.pc \in {"new", "arming", "marking"} => conn.marker = NoMarker
    /\ conn.pc \in {"arming", "marking"} => conn.handle # NoMarker /\ conn.alive
    /\ conn.pc \in InUse \union {"judging"} =>
          conn.handle # NoMarker /\ conn.alive /\ conn.marker = conn.handle

\* The limit the connection remembers is the one its session has, and that of
\* the statement once it was synchronised.
Belted ==
    /\ conn.pc = "new" => conn.belt = NoBelt
    /\ conn.belt # NoBelt /\ conn.handle # NoMarker
          => db.sessions[conn.handle].limit = conn.belt
    /\ conn.pc \in {"sending", "executing", "streaming"} /\ db.dialect = "mysql" /\ conn.supported
          => conn.belt = Belt(conn.limit)

\* A confirmation stands until the next statement, and so does what the server
\* did.
Confirming ==
    told.confirmed => /\ conn.pc \in {"idle", "closed"} /\ conn.marker # NoMarker
                      /\ db.sessions[conn.marker].doing \in {"interrupted", "timedout"}

\* Commands are given for a session with a marker only, and a destroy that
\* worked left none.
Striking ==
    /\ conn.marker = NoMarker => chan.todo = "nothing" /\ chan.done = "nothing"
    /\ chan.done = "destroy" /\ chan.ok => db.sessions[conn.marker].state = "gone"

\* A probe that succeeded was granted.
Offering ==
    /\ chan.support = "available" \/ chan.pc = "checking" => db.grants
    /\ chan.own # NoMarker /\ chan.handle # NoMarker => chan.own = chan.handle

SeamIInv == SeamTypeOK /\ Known /\ Opened /\ Belted /\ Confirming /\ Striking /\ Offering


----------------------------------------------------------------------------
(* Operators.                                                                *)

\* The next session the server opens has not been used, and no other session
\* changes.
LEMMA LoginIs ==
  ASSUME db \in DbServers, NEW m \in Markers, Fresh(m), db' = Logged(db, m)
  PROVE  /\ db' \in DbServers /\ db.sessions[m].state = "unused"
         /\ db'.sessions[m] = NewSession
         /\ \A k \in Markers : k # m => db'.sessions[k] = db.sessions[k]
         /\ db'.dialect = db.dialect /\ db'.grants = db.grants
<1>1. db.sessions[m].state = "unused"
  <2>1. ~(m < m)
    BY DEF Markers
  <2> QED
    BY <2>1 DEF Fresh
<1>2. NewSession \in ServerSessions
  BY DEF NewSession, NoSession, ServerSessions
<1>3. db' = [db EXCEPT !.sessions = [@ EXCEPT ![m] = NewSession]]
  BY DEF Logged
<1>4. [db.sessions EXCEPT ![m] = NewSession] \in [Markers -> ServerSessions]
  BY <1>2 DEF DbServers
<1> QED
  BY <1>1, <1>3, <1>4 DEF DbServers

\* A session that does something else stays one.
LEMMA DoingIs ==
  ASSUME NEW d \in DbServers, NEW m \in Markers, NEW s \in ServerSessions,
         NEW e, e = [d EXCEPT !.sessions[m] = s]
  PROVE  /\ e \in DbServers /\ e.sessions[m] = s
         /\ \A k \in Markers : k # m => e.sessions[k] = d.sessions[k]
         /\ e.dialect = d.dialect /\ e.grants = d.grants /\ e.knows = d.knows
  BY DEF DbServers

\* A connection stays a connection.
LEMMA ConnectionUpdates ==
  ASSUME NEW c \in LaneConnections, NEW m \in Markers, NEW n \in Nat, NEW b \in BOOLEAN,
         NEW p \in InUse \union {"arming", "marking", "judging", "lost"}
  PROVE  /\ [c EXCEPT !.pc = "arming", !.handle = m, !.alive = TRUE] \in LaneConnections
         /\ [c EXCEPT !.belt = n, !.pc = p] \in LaneConnections
         /\ [c EXCEPT !.supported = FALSE, !.belt = NoBelt, !.pc = p] \in LaneConnections
         /\ [c EXCEPT !.pc = "idle", !.marker = m] \in LaneConnections
         /\ [c EXCEPT !.alive = b, !.pc = p] \in LaneConnections
<1>1. [c EXCEPT !.pc = "arming", !.handle = m, !.alive = TRUE] \in LaneConnections
  BY DEF LaneConnections, InUse
<1>2. [c EXCEPT !.belt = n, !.pc = p] \in LaneConnections
  BY DEF LaneConnections, InUse
<1>3. [c EXCEPT !.supported = FALSE, !.belt = NoBelt, !.pc = p] \in LaneConnections
  BY DEF LaneConnections, InUse
<1>4. [c EXCEPT !.pc = "idle", !.marker = m] \in LaneConnections
  BY DEF LaneConnections, InUse
<1>5. [c EXCEPT !.alive = b, !.pc = p] \in LaneConnections
  BY DEF LaneConnections, InUse
<1> QED
  BY Zenon, <1>1, <1>2, <1>3, <1>4, <1>5

LEMMA ClosedIs ==
  ASSUME NEW c \in LaneConnections
  PROVE  /\ [Closed(c) EXCEPT !.pc = "failed"] \in LaneConnections
         /\ [Closed(c) EXCEPT !.pc = "closed"] \in LaneConnections
  BY DEF LaneConnections, InUse, Closed

\* So does a server whose session ends.
LEMMA GoneIs ==
  ASSUME NEW d \in DbServers, NEW m \in Markers \union {NoMarker}
  PROVE  Gone(d, m) \in DbServers
  BY DEF DbServers, ServerSessions, Gone

\* A control connection stays one.
LEMMA ChannelUpdates ==
  ASSUME NEW c \in ControlConnections, NEW s \in {"available", "degraded"}, NEW b \in BOOLEAN
  PROVE  /\ Settled(c, s) \in ControlConnections
         /\ Done(c, b) \in ControlConnections
         /\ [Done(c, b) EXCEPT !.handle = NoMarker] \in ControlConnections
         /\ \A m \in Markers : \A o \in {m, NoMarker} : Connected(c, m, o) \in ControlConnections
  BY DEF ControlConnections, Connected, Settled, Done

\* An error is of some category.
LEMMA ClassifyIs ==
  ASSUME NEW codes, NEW exc
  PROVE  Classify(codes, exc) \in ErrorCategory
<1>1. CategoryFromType(exc) \in ErrorCategory
  BY DEF CategoryFromType, ErrorCategory, Tabled
<1>2. PICK found : found = {c \in Tabled : DriverErrorCode(exc) \in codes[c]}
  OBVIOUS
<1>3. Classify(codes, exc) = IF found = {} THEN CategoryFromType(exc) ELSE CHOOSE c \in found : TRUE
  BY <1>2 DEF Classify
<1>4. CASE found # {}
  <2>1. (CHOOSE c \in found : TRUE) \in found
    BY Zenon, <1>4
  <2> QED
    BY <1>2, <1>3, <1>4, <2>1 DEF ErrorCategory
<1> QED
  BY <1>1, <1>3, <1>4

\* The code read off an exception is that of a link of its chain.
LEMMA CodeIsOfALink ==
  ASSUME NEW exc, DOMAIN exc \subseteq {1, 2}
  PROVE  \/ DriverErrorCode(exc) = NoCode
         \/ \E k \in DOMAIN exc : DriverErrorCode(exc) = exc[k].code
<1> DEFINE coded == {k \in DOMAIN exc : exc[k].code # NoCode}
<1>2. DriverErrorCode(exc) = IF coded = {} THEN NoCode
        ELSE exc[CHOOSE k \in coded : \A j \in coded : k <= j].code
  BY DEF DriverErrorCode
<1>3. coded \subseteq DOMAIN exc /\ coded \subseteq {1, 2}
  OBVIOUS
<1> HIDE DEF coded
<1>4. CASE coded # {}
  <2>1. \E k \in coded : \A j \in coded : k <= j
    <3>1. CASE 1 \in coded
      BY <1>3, <3>1
    <3>2. CASE 1 \notin coded
      BY <1>3, <1>4, <3>2
    <3> QED
      BY <3>1, <3>2
  <2>2. (CHOOSE k \in coded : \A j \in coded : k <= j) \in coded
    BY Zenon, <2>1
  <2> QED
    BY Zenon, <1>2, <1>3, <1>4, <2>2
<1> QED
  BY Zenon, <1>2, <1>4

\* The codes of errors that are neither a cancel nor a time limit.
Others == {2013, 2006, NoCode, 1146, Uncovered, -2104}
Other(exc) == DOMAIN exc \subseteq {1, 2} /\ \A k \in DOMAIN exc : exc[k].code \in Others

LEMMA OneLink ==
  ASSUME NEW a \in Others
  PROVE  Other(<<Link(a)>>)
  BY DEF Other, Link

LEMMA OneSocketLink ==
  ASSUME NEW a \in Others
  PROVE  Other(<<SocketLink(a)>>)
  BY DEF Other, SocketLink

LEMMA TwoLinks ==
  ASSUME NEW a \in Others, NEW b \in Others
  PROVE  Other(<<Link(a), SocketLink(b)>>)
  BY DEF Other, Link, SocketLink

\* Neither a lost connection nor an error of the statement is taken for a
\* cancel or a time limit that the server confirms.
LEMMA OnlyServerConfirms ==
  ASSUME NEW exc \in Raises.gone \union Raises.erred
  PROVE  ~ServerConfirmed(Classify(Codes, exc))
<1>1. Other(exc)
  <2>1. /\ 2013 \in Others /\ 2006 \in Others /\ 1146 \in Others /\ -2104 \in Others
        /\ NoCode \in Others /\ Uncovered \in Others
    BY DEF Others
  <2>2. Other(<<Link(2013), SocketLink(Uncovered)>>)
    BY <2>1, TwoLinks
  <2>3. Other(<<Link(2006)>>)
    BY <2>1, OneLink
  <2>4. Other(<<SocketLink(NoCode)>>)
    BY <2>1, OneSocketLink
  <2>5. Other(<<Link(1146)>>)
    BY <2>1, OneLink
  <2>6. Other(<<Link(Uncovered)>>)
    BY <2>1, OneLink
  <2>7. Other(<<SocketLink(Uncovered)>>)
    BY <2>1, OneSocketLink
  <2>8. Other(<<Link(-2104)>>)
    BY <2>1, OneLink
  <2>9. (\A e \in MySqlRaises.gone : Other(e)) /\ (\A e \in MySqlRaises.erred : Other(e))
    BY <2>2, <2>3, <2>4, <2>5, <2>6 DEF MySqlRaises
  <2>10. (\A e \in DmRaises.gone : Other(e)) /\ (\A e \in DmRaises.erred : Other(e))
    BY <2>6, <2>7, <2>8 DEF DmRaises
  <2> QED
    BY <2>9, <2>10 DEF Raises
<1>2. DriverErrorCode(exc) \in Others
  BY <1>1, CodeIsOfALink DEF Other, Others
<1>3. DriverErrorCode(exc) \notin Codes["cancelled"] \union Codes["timeout"]
  BY <1>2 DEF Others, Codes, MYSQL_ERROR_CODES, DM_ERROR_CODES, NoCode, Uncovered
<1>4. PICK found : found = {c \in Tabled : DriverErrorCode(exc) \in Codes[c]}
  OBVIOUS
<1>5. Classify(Codes, exc) = IF found = {} THEN CategoryFromType(exc)
                             ELSE CHOOSE c \in found : TRUE
  BY <1>4 DEF Classify
<1>6. "cancelled" \notin found /\ "timeout" \notin found
  BY <1>3, <1>4
<1>7. CASE found = {}
  BY <1>5, <1>7 DEF CategoryFromType, ServerConfirmed
<1>8. CASE found # {}
  <2>1. (CHOOSE c \in found : TRUE) \in found
    BY Zenon, <1>8
  <2> QED
    BY <1>5, <1>6, <1>8, <2>1 DEF ServerConfirmed
<1> QED
  BY <1>7, <1>8

----------------------------------------------------------------------------
(* Every step keeps the invariant.                                           *)
\* The control connection is another session of the server.
LEMMA ChannelLogsIn ==
  ASSUME SeamIInv, NEW m \in Markers, Fresh(m), db' = Logged(db, m), UNCHANGED <<conn, told>>,
         chan' \in ControlConnections, chan'.handle = m, chan'.own \in {m, NoMarker},
         chan'.todo = chan.todo, chan'.done = chan.done, chan'.ok = chan.ok,
         chan'.support = "available" \/ chan'.pc = "checking" => db.grants
  PROVE  SeamIInv'
<1>1. /\ db' \in DbServers /\ db.sessions[m].state = "unused" /\ db'.sessions[m] = NewSession
      /\ \A k \in Markers : k # m => db'.sessions[k] = db.sessions[k]
      /\ db'.dialect = db.dialect /\ db'.grants = db.grants
  BY LoginIs DEF SeamIInv, SeamTypeOK
<1>2. conn.handle # m /\ conn.marker # m /\ conn' = conn /\ told' = told
  BY <1>1 DEF SeamIInv, Known, Named, NoMarker, Markers
<1>3. SeamTypeOK'
  BY <1>1, <1>2 DEF SeamIInv, SeamTypeOK
<1>4. Known'
  BY <1>1, <1>2 DEF SeamIInv, Known, Named, NewSession, NoSession
<1>5. Opened'
  BY <1>2 DEF SeamIInv, Opened, InUse
<1>6. Belted'
  BY <1>1, <1>2 DEF SeamIInv, Belted, Belt, Known, Named, SeamTypeOK
<1>7. Confirming'
  BY <1>1, <1>2 DEF SeamIInv, Confirming, Known, Named
<1>8. Striking'
  BY <1>1, <1>2 DEF SeamIInv, Striking, Known, Named, NoMarker
<1>9. Offering'
  BY <1>1 DEF SeamIInv, Offering
<1> QED
  BY <1>3, <1>4, <1>5, <1>6, <1>7, <1>8, <1>9 DEF SeamIInv

\* The control connection fails a command, or keeps it.
LEMMA ChannelStays ==
  ASSUME SeamIInv, UNCHANGED <<db, conn, told>>, chan' \in ControlConnections,
         chan'.handle \in {chan.handle, NoMarker}, chan'.own = chan.own,
         chan'.todo \in {chan.todo, "nothing"}, chan'.done \in {chan.done, chan.todo},
         chan'.ok => chan.ok /\ chan'.done = chan.done,
         chan'.support = "available" \/ chan'.pc = "checking" => db.grants
  PROVE  SeamIInv'
<1>1. SeamTypeOK' /\ Known' /\ Offering'
  BY DEF SeamIInv, SeamTypeOK, Known, Named, Offering
<1>2. Opened' /\ Belted' /\ Confirming'
  BY DEF SeamIInv, Opened, InUse, Belted, Belt, Confirming
<1>3. Striking'
  BY DEF SeamIInv, Striking
<1> QED
  BY <1>1, <1>2, <1>3 DEF SeamIInv


\* open() of the lane's connection.
LEMMA OpenConnectsKeeps ==
  ASSUME SeamIInv, OpenConnects
  PROVE  SeamIInv'
<1>1. PICK m \in Markers :
        /\ Fresh(m) /\ db' = Logged(db, m)
        /\ conn' = [conn EXCEPT !.pc = "arming", !.handle = m, !.alive = TRUE]
  BY DEF OpenConnects
<1>2. /\ db' \in DbServers /\ db.sessions[m].state = "unused" /\ db'.sessions[m] = NewSession
      /\ \A k \in Markers : k # m => db'.sessions[k] = db.sessions[k]
      /\ db'.dialect = db.dialect /\ db'.grants = db.grants
  BY <1>1, LoginIs DEF SeamIInv, SeamTypeOK
<1>3. conn.pc = "new" /\ UNCHANGED <<chan, told>>
  BY DEF OpenConnects
<1>4. SeamTypeOK'
  BY <1>1, <1>2, <1>3, ConnectionUpdates DEF SeamIInv, SeamTypeOK
<1>5. Known'
  <2>1. conn'.handle = m /\ conn'.marker = NoMarker /\ chan'.handle = chan.handle
    BY <1>1, <1>3 DEF SeamIInv, SeamTypeOK, LaneConnections, InUse, Opened
  <2> QED
    BY <1>2, <1>3, <2>1 DEF SeamIInv, Known, Named, NewSession, NoSession
<1>6. Opened'
  BY <1>1, <1>2, <1>3 DEF SeamIInv, Opened, SeamTypeOK, LaneConnections, InUse,
     NoMarker, Markers
<1>7. Belted'
  BY <1>1, <1>2, <1>3 DEF SeamIInv, Belted, Opened, SeamTypeOK, DbServers,
     ServerSessions, LaneConnections, ControlConnections, SeamAnswers, InUse,
     NoMarker, NoBelt
<1>8. Confirming'
  BY <1>1, <1>2, <1>3 DEF SeamIInv, Confirming, Opened, SeamTypeOK, DbServers,
     ServerSessions, LaneConnections, ControlConnections, SeamAnswers, InUse,
     NoMarker, NoBelt
<1>9. Striking'
  BY <1>1, <1>2, <1>3 DEF SeamIInv, Striking, Opened, SeamTypeOK, DbServers,
     ServerSessions, LaneConnections, ControlConnections, SeamAnswers, InUse,
     NoMarker, NoBelt
<1>10. Offering'
  BY <1>1, <1>2, <1>3 DEF SeamIInv, Offering, SeamTypeOK, DbServers,
     ServerSessions, LaneConnections, ControlConnections, SeamAnswers, InUse,
     NoMarker, NoBelt
<1> QED
  BY <1>4, <1>5, <1>6, <1>7, <1>8, <1>9, <1>10 DEF SeamIInv

\* A login that fails.
LEMMA OpenFailsKeeps ==
  ASSUME SeamIInv, OpenFails
  PROVE  SeamIInv'
<1>1. SeamTypeOK'
  <2>1. conn' \in LaneConnections
    BY DEF SeamIInv, SeamTypeOK, LaneConnections, InUse, OpenFails
  <2>2. told' \in SeamAnswers
    <3>1. PICK exc \in Raises.login, late \in BOOLEAN :
            told' = [category |-> ClassifyConnectFailure(exc, late), confirmed |-> FALSE]
      BY DEF OpenFails
    <3>2. ClassifyConnectFailure(exc, late) \in ErrorCategory
      BY ClassifyIs DEF ClassifyConnectFailure, ErrorCategory
    <3> QED
      BY <3>1, <3>2 DEF SeamAnswers
  <2> QED
    BY <2>1, <2>2 DEF SeamIInv, SeamTypeOK, OpenFails
<1>2. Known'
  BY DEF SeamIInv, Known, SeamTypeOK, Named, DbServers, LaneConnections,
     ControlConnections, SeamAnswers, NoMarker, ServerSessions, InUse, NoBelt,
     ErrorCategory, Tabled, OpenFails
<1>3. Opened'
  BY DEF SeamIInv, Opened, SeamTypeOK, InUse, NoMarker, DbServers, LaneConnections,
     ControlConnections, SeamAnswers, ServerSessions, NoBelt, ErrorCategory,
     Tabled, OpenFails
<1>4. Belted'
  BY DEF SeamIInv, Belted, SeamTypeOK, Known, Opened, NoMarker, NoBelt, Belt,
     DbServers, LaneConnections, ControlConnections, SeamAnswers, Named, InUse,
     ServerSessions, ErrorCategory, Tabled, OpenFails
<1>5. Confirming'
  BY DEF SeamIInv, Confirming, SeamTypeOK, Known, Opened, NoMarker, DbServers,
     LaneConnections, ControlConnections, SeamAnswers, Named, InUse,
     ServerSessions, NoBelt, ErrorCategory, Tabled, OpenFails
<1>6. Striking'
  BY DEF SeamIInv, Striking, SeamTypeOK, Known, Opened, NoMarker, DbServers,
     LaneConnections, ControlConnections, SeamAnswers, Named, InUse,
     ServerSessions, NoBelt, ErrorCategory, Tabled, OpenFails
<1>7. Offering'
  BY DEF SeamIInv, Offering, NoMarker, OpenFails
<1> QED
  BY <1>1, <1>2, <1>3, <1>4, <1>5, <1>6, <1>7 DEF SeamIInv

\* A limit that need not be set.
LEMMA SyncSkippedKeeps ==
  ASSUME SeamIInv, SyncSkipped
  PROVE  SeamIInv'
<1>1. SeamTypeOK'
  BY SeamBounds DEF SeamIInv, SeamTypeOK, DbServers, LaneConnections,
     ControlConnections, SeamAnswers, Wanted, AfterSync, ServerSessions, InUse,
     NoMarker, NoBelt, ErrorCategory, Belt, Tabled, SyncSkipped
<1>2. Known'
  BY SeamBounds DEF SeamIInv, Known, SeamTypeOK, Named, DbServers, LaneConnections,
     ControlConnections, SeamAnswers, Wanted, AfterSync, NoMarker, ServerSessions,
     InUse, NoBelt, ErrorCategory, Belt, Tabled, SyncSkipped
<1>3. Opened'
  BY SeamBounds DEF SeamIInv, Opened, SeamTypeOK, InUse, NoMarker, DbServers,
     LaneConnections, ControlConnections, SeamAnswers, Wanted, AfterSync,
     ServerSessions, NoBelt, ErrorCategory, Belt, Tabled, SyncSkipped
<1>4. Belted'
  BY SeamBounds DEF SeamIInv, Belted, SeamTypeOK, Known, Opened, NoMarker, NoBelt,
     Belt, DbServers, LaneConnections, ControlConnections, SeamAnswers, Named,
     InUse, Wanted, AfterSync, ServerSessions, ErrorCategory, Tabled, SyncSkipped
<1>5. Confirming'
  BY SeamBounds DEF SeamIInv, Confirming, SeamTypeOK, Known, Opened, NoMarker,
     DbServers, LaneConnections, ControlConnections, SeamAnswers, Named, InUse,
     Wanted, AfterSync, ServerSessions, NoBelt, ErrorCategory, Belt, Tabled,
     SyncSkipped
<1>6. Striking'
  BY SeamBounds DEF SeamIInv, Striking, SeamTypeOK, Known, Opened, NoMarker,
     DbServers, LaneConnections, ControlConnections, SeamAnswers, Named, InUse,
     Wanted, AfterSync, ServerSessions, NoBelt, ErrorCategory, Belt, Tabled,
     SyncSkipped
<1>7. Offering'
  BY DEF SeamIInv, Offering, NoMarker, SyncSkipped
<1> QED
  BY <1>1, <1>2, <1>3, <1>4, <1>5, <1>6, <1>7 DEF SeamIInv

\* SET SESSION is sent.
LEMMA SyncSentKeeps ==
  ASSUME SeamIInv, SyncSent
  PROVE  SeamIInv'
<1>1. SeamTypeOK'
  BY SMTT(30) DEF SeamIInv, SeamTypeOK, DbServers, LaneConnections, ControlConnections,
     SeamAnswers, Wanted, Doing, ServerSessions, InUse, NoMarker, NoBelt,
     ErrorCategory, Belt, Tabled, SyncSent
<1>2. Known'
  BY DEF SeamIInv, Known, SeamTypeOK, Named, DbServers, LaneConnections,
     ControlConnections, SeamAnswers, Wanted, Doing, NoMarker, ServerSessions,
     InUse, NoBelt, ErrorCategory, Belt, Tabled, SyncSent
<1>3. Belted'
  BY DEF SeamIInv, Belted, SeamTypeOK, Known, Opened, NoMarker, NoBelt, Belt,
     DbServers, LaneConnections, ControlConnections, SeamAnswers, Named, InUse,
     Wanted, Doing, ServerSessions, ErrorCategory, Tabled, SyncSent
<1>4. Confirming'
  BY DEF SeamIInv, Confirming, SeamTypeOK, Known, Opened, NoMarker, DbServers,
     LaneConnections, ControlConnections, SeamAnswers, Named, InUse, Wanted, Doing,
     ServerSessions, NoBelt, ErrorCategory, Belt, Tabled, SyncSent
<1>5. Striking'
  BY DEF SeamIInv, Striking, SeamTypeOK, Known, Opened, NoMarker, DbServers,
     LaneConnections, ControlConnections, SeamAnswers, Named, InUse, Wanted, Doing,
     ServerSessions, NoBelt, ErrorCategory, Belt, Tabled, SyncSent
<1>6. Offering'
  BY DEF SeamIInv, Offering, SeamTypeOK, Known, NoMarker, DbServers,
     LaneConnections, ControlConnections, SeamAnswers, Named, Wanted, Doing,
     ServerSessions, InUse, NoBelt, ErrorCategory, Belt, Tabled, SyncSent
<1>7. Opened'
  BY DEF SeamIInv, Opened, InUse, NoMarker, SyncSent
<1> QED
  BY <1>1, <1>2, <1>3, <1>4, <1>5, <1>6, <1>7 DEF SeamIInv

\* The server took the limit.
LEMMA SyncReturnsKeeps ==
  ASSUME SeamIInv, SyncReturns
  PROVE  SeamIInv'
<1>1. SeamTypeOK'
  <2>1. conn.handle \in Markers
    BY DEF SeamIInv, Known, Named, Opened, InUse, SyncReturns
  <2>2. Wanted \in Nat
    BY SeamBounds DEF SeamIInv, SeamTypeOK, LaneConnections, Wanted, Belt
  <2>3. AfterSync \in InUse \union {"arming", "marking", "judging", "lost"}
    BY DEF AfterSync, InUse
  <2>4. conn' \in LaneConnections
    BY <2>1, <2>2, <2>3, ConnectionUpdates DEF SeamIInv, SeamTypeOK, SyncReturns, SyncTakes
  <2>5. [db.sessions[conn.handle] EXCEPT !.doing = "nothing", !.limit = Wanted] \in ServerSessions
    BY ZenonT(60), <2>1, <2>2 DEF SeamIInv, SeamTypeOK, DbServers, ServerSessions
  <2>6. db' \in DbServers
    BY <2>1, <2>5 DEF SeamIInv, SeamTypeOK, DbServers, SyncReturns
  <2> QED
    BY <2>4, <2>6 DEF SeamIInv, SeamTypeOK, SyncReturns
<1>2. Known'
  BY SeamBounds DEF SeamIInv, Known, SeamTypeOK, Named, DbServers, LaneConnections,
     ControlConnections, SeamAnswers, Wanted, Up, SyncTakes, NoMarker,
     ServerSessions, InUse, NoBelt, ErrorCategory, Belt, AfterSync, Tabled,
     SyncReturns
<1>3. Opened'
  BY SeamBounds DEF SeamIInv, Opened, SeamTypeOK, InUse, NoMarker, DbServers,
     LaneConnections, ControlConnections, SeamAnswers, Wanted, Up, SyncTakes,
     ServerSessions, NoBelt, ErrorCategory, Belt, AfterSync, Tabled, SyncReturns
<1>4. Belted'
  BY SeamBounds DEF SeamIInv, Belted, SeamTypeOK, Known, Opened, NoMarker, NoBelt,
     Belt, DbServers, LaneConnections, ControlConnections, SeamAnswers, Named,
     InUse, Wanted, Up, SyncTakes, ServerSessions, ErrorCategory, AfterSync,
     Tabled, SyncReturns
<1>5. Confirming'
  BY SeamBounds DEF SeamIInv, Confirming, SeamTypeOK, Known, Opened, NoMarker,
     DbServers, LaneConnections, ControlConnections, SeamAnswers, Named, InUse,
     Wanted, Up, SyncTakes, ServerSessions, NoBelt, ErrorCategory, Belt, AfterSync,
     Tabled, SyncReturns
<1>6. Striking'
  BY SeamBounds DEF SeamIInv, Striking, SeamTypeOK, Known, Opened, NoMarker,
     DbServers, LaneConnections, ControlConnections, SeamAnswers, Named, InUse,
     Wanted, Up, SyncTakes, ServerSessions, NoBelt, ErrorCategory, Belt, AfterSync,
     Tabled, SyncReturns
<1>7. Offering'
  BY SeamBounds DEF SeamIInv, Offering, SeamTypeOK, Known, NoMarker, DbServers,
     LaneConnections, ControlConnections, SeamAnswers, Named, Wanted, Up,
     SyncTakes, ServerSessions, InUse, NoBelt, ErrorCategory, Belt, AfterSync,
     Tabled, SyncReturns
<1> QED
  BY <1>1, <1>2, <1>3, <1>4, <1>5, <1>6, <1>7 DEF SeamIInv

\* It did not.
LEMMA SyncRaisesKeeps ==
  ASSUME SeamIInv, SyncRaises
  PROVE  SeamIInv'
<1>1. SeamTypeOK'
  <2>1. conn.handle \in Markers
    BY DEF SeamIInv, Known, Named, Opened, InUse, SyncRaises
  <2>2. AfterSync \in InUse \union {"arming", "marking", "judging", "lost"}
    BY DEF AfterSync, InUse
  <2>3. conn' \in LaneConnections
    BY <2>1, <2>2, ConnectionUpdates DEF SeamIInv, SeamTypeOK, SyncRaises, SyncRefused
  <2>4. db' \in DbServers
    BY <2>1 DEF SeamIInv, SeamTypeOK, DbServers, ServerSessions, SyncRaises, Doing
  <2> QED
    BY <2>3, <2>4 DEF SeamIInv, SeamTypeOK, SyncRaises
<1>2. Known'
  BY SeamBounds DEF SeamIInv, Known, SeamTypeOK, Named, DbServers, LaneConnections,
     ControlConnections, SeamAnswers, Up, Doing, SyncRefused, NoMarker,
     ServerSessions, InUse, NoBelt, ErrorCategory, AfterSync, Tabled, SyncRaises
<1>3. Opened'
  BY SeamBounds DEF SeamIInv, Opened, SeamTypeOK, InUse, NoMarker, DbServers,
     LaneConnections, ControlConnections, SeamAnswers, Up, Doing, SyncRefused,
     ServerSessions, NoBelt, ErrorCategory, AfterSync, Tabled, SyncRaises
<1>4. Belted'
  BY SeamBounds DEF SeamIInv, Belted, SeamTypeOK, Known, Opened, NoMarker, NoBelt,
     Belt, DbServers, LaneConnections, ControlConnections, SeamAnswers, Named,
     InUse, Up, Doing, SyncRefused, ServerSessions, ErrorCategory, AfterSync,
     Tabled, SyncRaises
<1>5. Confirming'
  BY SeamBounds DEF SeamIInv, Confirming, SeamTypeOK, Known, Opened, NoMarker,
     DbServers, LaneConnections, ControlConnections, SeamAnswers, Named, InUse, Up,
     Doing, SyncRefused, ServerSessions, NoBelt, ErrorCategory, AfterSync, Tabled,
     SyncRaises
<1>6. Striking'
  BY SeamBounds DEF SeamIInv, Striking, SeamTypeOK, Known, Opened, NoMarker,
     DbServers, LaneConnections, ControlConnections, SeamAnswers, Named, InUse, Up,
     Doing, SyncRefused, ServerSessions, NoBelt, ErrorCategory, AfterSync, Tabled,
     SyncRaises
<1>7. Offering'
  BY SeamBounds DEF SeamIInv, Offering, SeamTypeOK, Known, NoMarker, DbServers,
     LaneConnections, ControlConnections, SeamAnswers, Named, Up, Doing,
     SyncRefused, ServerSessions, InUse, NoBelt, ErrorCategory, AfterSync, Tabled,
     SyncRaises
<1> QED
  BY <1>1, <1>2, <1>3, <1>4, <1>5, <1>6, <1>7 DEF SeamIInv

\* The session's number is known.
LEMMA MarkerReadKeeps ==
  ASSUME SeamIInv, MarkerRead
  PROVE  SeamIInv'
<1>1. SeamTypeOK'
  <2>1. conn.handle \in Markers
    BY DEF SeamIInv, Known, Named, Opened, MarkerRead
  <2> QED
    BY <2>1, ConnectionUpdates DEF SeamIInv, SeamTypeOK, MarkerRead
<1>2. Known'
  BY DEF SeamIInv, Known, SeamTypeOK, Named, DbServers, LaneConnections,
     ControlConnections, SeamAnswers, Up, NoMarker, ServerSessions, InUse, NoBelt,
     ErrorCategory, Tabled, MarkerRead
<1>3. Opened'
  BY DEF SeamIInv, Opened, SeamTypeOK, InUse, NoMarker, DbServers, LaneConnections,
     ControlConnections, SeamAnswers, Up, ServerSessions, NoBelt, ErrorCategory,
     Tabled, MarkerRead
<1>4. Belted'
  BY DEF SeamIInv, Belted, SeamTypeOK, Known, Opened, NoMarker, NoBelt, Belt,
     DbServers, LaneConnections, ControlConnections, SeamAnswers, Named, InUse, Up,
     ServerSessions, ErrorCategory, Tabled, MarkerRead
<1>5. Confirming'
  BY DEF SeamIInv, Confirming, SeamTypeOK, Known, Opened, NoMarker, DbServers,
     LaneConnections, ControlConnections, SeamAnswers, Named, InUse, Up,
     ServerSessions, NoBelt, ErrorCategory, Tabled, MarkerRead
<1>6. Striking'
  BY DEF SeamIInv, Striking, SeamTypeOK, Known, Opened, NoMarker, DbServers,
     LaneConnections, ControlConnections, SeamAnswers, Named, InUse, Up,
     ServerSessions, NoBelt, ErrorCategory, Tabled, MarkerRead
<1>7. Offering'
  BY DEF SeamIInv, Offering, NoMarker, MarkerRead
<1> QED
  BY <1>1, <1>2, <1>3, <1>4, <1>5, <1>6, <1>7 DEF SeamIInv

\* It cannot be read.
LEMMA MarkerFailsKeeps ==
  ASSUME SeamIInv, MarkerFails
  PROVE  SeamIInv'
<1>1. SeamTypeOK'
  <2>1. conn' \in LaneConnections
    BY ClosedIs DEF SeamIInv, SeamTypeOK, MarkerFails
  <2>2. told' \in SeamAnswers
    BY ClassifyIs DEF MarkerFails, SeamAnswers
  <2> QED
    BY <2>1, <2>2 DEF SeamIInv, SeamTypeOK, MarkerFails
<1>2. Known'
  BY DEF SeamIInv, Known, SeamTypeOK, Named, DbServers, LaneConnections,
     ControlConnections, SeamAnswers, Up, Closed, NoMarker, ServerSessions, InUse,
     NoBelt, ErrorCategory, Tabled, MarkerFails
<1>3. Opened'
  BY DEF SeamIInv, Opened, SeamTypeOK, InUse, NoMarker, DbServers, LaneConnections,
     ControlConnections, SeamAnswers, Up, Closed, ServerSessions, NoBelt,
     ErrorCategory, Tabled, MarkerFails
<1>4. Belted'
  BY DEF SeamIInv, Belted, SeamTypeOK, Known, Opened, NoMarker, NoBelt, Belt,
     DbServers, LaneConnections, ControlConnections, SeamAnswers, Named, InUse, Up,
     Closed, ServerSessions, ErrorCategory, Tabled, MarkerFails
<1>5. Confirming'
  BY DEF SeamIInv, Confirming, SeamTypeOK, Known, Opened, NoMarker, DbServers,
     LaneConnections, ControlConnections, SeamAnswers, Named, InUse, Up, Closed,
     ServerSessions, NoBelt, ErrorCategory, Tabled, MarkerFails
<1>6. Striking'
  BY DEF SeamIInv, Striking, SeamTypeOK, Known, Opened, NoMarker, DbServers,
     LaneConnections, ControlConnections, SeamAnswers, Named, InUse, Up, Closed,
     ServerSessions, NoBelt, ErrorCategory, Tabled, MarkerFails
<1>7. Offering'
  BY DEF SeamIInv, Offering, NoMarker, MarkerFails
<1> QED
  BY <1>1, <1>2, <1>3, <1>4, <1>5, <1>6, <1>7 DEF SeamIInv

\* The next statement.
LEMMA NextStatementKeeps ==
  ASSUME SeamIInv, NEW t \in Limits, NextStatement(t)
  PROVE  SeamIInv'
<1>1. SeamTypeOK'
  <2>1. conn.handle \in Markers
    BY DEF SeamIInv, Known, Named, Opened, InUse, NextStatement
  <2>2. t \in Nat /\ conn.run + 1 \in 0 .. MaxStatements
    BY SeamBounds DEF SeamIInv, SeamTypeOK, LaneConnections, NextStatement
  <2>3. conn' \in LaneConnections
    BY <2>2 DEF SeamIInv, SeamTypeOK, LaneConnections, InUse, NextStatement
  <2>4. chan' \in ControlConnections
    BY DEF SeamIInv, SeamTypeOK, ControlConnections, NextStatement
  <2>5. db' \in DbServers
    BY <2>1 DEF SeamIInv, SeamTypeOK, DbServers, ServerSessions, NextStatement, Doing
  <2>6. told' \in SeamAnswers
    BY DEF NextStatement, NothingTold, SeamAnswers
  <2> QED
    BY <2>3, <2>4, <2>5, <2>6 DEF SeamTypeOK
<1>2. Known'
  BY SeamBounds DEF SeamIInv, Known, SeamTypeOK, Named, DbServers, LaneConnections,
     ControlConnections, SeamAnswers, Doing, NothingTold, NoMarker, ServerSessions,
     InUse, NoBelt, ErrorCategory, Tabled, NextStatement
<1>3. Opened'
  BY SeamBounds DEF SeamIInv, Opened, SeamTypeOK, InUse, NoMarker, DbServers,
     LaneConnections, ControlConnections, SeamAnswers, Doing, NothingTold,
     ServerSessions, NoBelt, ErrorCategory, Tabled, NextStatement
<1>4. Belted'
  BY SeamBounds DEF SeamIInv, Belted, SeamTypeOK, Known, Opened, NoMarker, NoBelt,
     Belt, DbServers, LaneConnections, ControlConnections, SeamAnswers, Named,
     InUse, Doing, NothingTold, ServerSessions, ErrorCategory, Tabled,
     NextStatement
<1>5. Confirming'
  BY SeamBounds DEF SeamIInv, Confirming, SeamTypeOK, Known, Opened, NoMarker,
     DbServers, LaneConnections, ControlConnections, SeamAnswers, Named, InUse,
     Doing, NothingTold, ServerSessions, NoBelt, ErrorCategory, Tabled,
     NextStatement
<1>6. Striking'
  BY SeamBounds DEF SeamIInv, Striking, SeamTypeOK, Known, Opened, NoMarker,
     DbServers, LaneConnections, ControlConnections, SeamAnswers, Named, InUse,
     Doing, NothingTold, ServerSessions, NoBelt, ErrorCategory, Tabled,
     NextStatement
<1>7. Offering'
  BY SeamBounds DEF SeamIInv, Offering, SeamTypeOK, Known, NoMarker, DbServers,
     LaneConnections, ControlConnections, SeamAnswers, Named, Doing, NothingTold,
     ServerSessions, InUse, NoBelt, ErrorCategory, Tabled, NextStatement
<1> QED
  BY <1>1, <1>2, <1>3, <1>4, <1>5, <1>6, <1>7 DEF SeamIInv

\* execute() begins.
LEMMA ExecuteBeginsKeeps ==
  ASSUME SeamIInv, ExecuteBegins
  PROVE  SeamIInv'
<1>1. SeamTypeOK'
  BY DEF SeamIInv, SeamTypeOK, DbServers, LaneConnections, ControlConnections,
     SeamAnswers, NoMarker, SoftCancelled, ServerSessions, InUse, NoBelt,
     ErrorCategory, Tabled, ExecuteBegins
<1>2. Known'
  BY DEF SeamIInv, Known, SeamTypeOK, Named, DbServers, LaneConnections,
     ControlConnections, SeamAnswers, NoMarker, SoftCancelled, ServerSessions,
     InUse, NoBelt, ErrorCategory, Tabled, ExecuteBegins
<1>3. Opened'
  BY DEF SeamIInv, Opened, SeamTypeOK, InUse, NoMarker, DbServers, LaneConnections,
     ControlConnections, SeamAnswers, SoftCancelled, ServerSessions, NoBelt,
     ErrorCategory, Tabled, ExecuteBegins
<1>4. Belted'
  BY DEF SeamIInv, Belted, SeamTypeOK, Known, Opened, NoMarker, NoBelt, Belt,
     DbServers, LaneConnections, ControlConnections, SeamAnswers, Named, InUse,
     SoftCancelled, ServerSessions, ErrorCategory, Tabled, ExecuteBegins
<1>5. Confirming'
  BY DEF SeamIInv, Confirming, SeamTypeOK, Known, Opened, NoMarker, DbServers,
     LaneConnections, ControlConnections, SeamAnswers, Named, InUse, SoftCancelled,
     ServerSessions, NoBelt, ErrorCategory, Tabled, ExecuteBegins
<1>6. Striking'
  BY DEF SeamIInv, Striking, SeamTypeOK, Known, Opened, NoMarker, DbServers,
     LaneConnections, ControlConnections, SeamAnswers, Named, InUse, SoftCancelled,
     ServerSessions, NoBelt, ErrorCategory, Tabled, ExecuteBegins
<1>7. Offering'
  BY DEF SeamIInv, Offering, NoMarker, ExecuteBegins
<1> QED
  BY <1>1, <1>2, <1>3, <1>4, <1>5, <1>6, <1>7 DEF SeamIInv

\* The statement is sent.
LEMMA ExecuteSentKeeps ==
  ASSUME SeamIInv, ExecuteSent
  PROVE  SeamIInv'
<1>1. SeamTypeOK'
  BY DEF SeamIInv, SeamTypeOK, DbServers, LaneConnections, ControlConnections,
     SeamAnswers, Doing, ServerSessions, InUse, NoMarker, NoBelt, ErrorCategory,
     Tabled, ExecuteSent
<1>2. Known'
  BY DEF SeamIInv, Known, SeamTypeOK, Named, DbServers, LaneConnections,
     ControlConnections, SeamAnswers, Doing, NoMarker, ServerSessions, InUse,
     NoBelt, ErrorCategory, Tabled, ExecuteSent
<1>3. Opened'
  BY DEF SeamIInv, Opened, SeamTypeOK, InUse, NoMarker, DbServers, LaneConnections,
     ControlConnections, SeamAnswers, Doing, ServerSessions, NoBelt, ErrorCategory,
     Tabled, ExecuteSent
<1>4. Belted'
  BY DEF SeamIInv, Belted, SeamTypeOK, Known, Opened, NoMarker, NoBelt, Belt,
     DbServers, LaneConnections, ControlConnections, SeamAnswers, Named, InUse,
     Doing, ServerSessions, ErrorCategory, Tabled, ExecuteSent
<1>5. Confirming'
  BY DEF SeamIInv, Confirming, SeamTypeOK, Known, Opened, NoMarker, DbServers,
     LaneConnections, ControlConnections, SeamAnswers, Named, InUse, Doing,
     ServerSessions, NoBelt, ErrorCategory, Tabled, ExecuteSent
<1>6. Striking'
  BY DEF SeamIInv, Striking, SeamTypeOK, Known, Opened, NoMarker, DbServers,
     LaneConnections, ControlConnections, SeamAnswers, Named, InUse, Doing,
     ServerSessions, NoBelt, ErrorCategory, Tabled, ExecuteSent
<1>7. Offering'
  BY DEF SeamIInv, Offering, SeamTypeOK, Known, NoMarker, DbServers,
     LaneConnections, ControlConnections, SeamAnswers, Named, Doing,
     ServerSessions, InUse, NoBelt, ErrorCategory, Tabled, ExecuteSent
<1> QED
  BY <1>1, <1>2, <1>3, <1>4, <1>5, <1>6, <1>7 DEF SeamIInv

\* It returns.
LEMMA ExecuteReturnsKeeps ==
  ASSUME SeamIInv, ExecuteReturns
  PROVE  SeamIInv'
<1>1. SeamTypeOK'
  BY DEF SeamIInv, SeamTypeOK, DbServers, LaneConnections, ControlConnections,
     SeamAnswers, Up, ServerSessions, InUse, NoMarker, NoBelt, ErrorCategory,
     Tabled, ExecuteReturns
<1>2. Known'
  BY DEF SeamIInv, Known, SeamTypeOK, Named, DbServers, LaneConnections,
     ControlConnections, SeamAnswers, Up, NoMarker, ServerSessions, InUse, NoBelt,
     ErrorCategory, Tabled, ExecuteReturns
<1>3. Opened'
  BY DEF SeamIInv, Opened, SeamTypeOK, InUse, NoMarker, DbServers, LaneConnections,
     ControlConnections, SeamAnswers, Up, ServerSessions, NoBelt, ErrorCategory,
     Tabled, ExecuteReturns
<1>4. Belted'
  BY DEF SeamIInv, Belted, SeamTypeOK, Known, Opened, NoMarker, NoBelt, Belt,
     DbServers, LaneConnections, ControlConnections, SeamAnswers, Named, InUse, Up,
     ServerSessions, ErrorCategory, Tabled, ExecuteReturns
<1>5. Confirming'
  BY DEF SeamIInv, Confirming, SeamTypeOK, Known, Opened, NoMarker, DbServers,
     LaneConnections, ControlConnections, SeamAnswers, Named, InUse, Up,
     ServerSessions, NoBelt, ErrorCategory, Tabled, ExecuteReturns
<1>6. Striking'
  BY DEF SeamIInv, Striking, SeamTypeOK, Known, Opened, NoMarker, DbServers,
     LaneConnections, ControlConnections, SeamAnswers, Named, InUse, Up,
     ServerSessions, NoBelt, ErrorCategory, Tabled, ExecuteReturns
<1>7. Offering'
  BY DEF SeamIInv, Offering, NoMarker, ExecuteReturns
<1> QED
  BY <1>1, <1>2, <1>3, <1>4, <1>5, <1>6, <1>7 DEF SeamIInv

\* The fetch is broken off.
LEMMA StreamCancelledKeeps ==
  ASSUME SeamIInv, StreamCancelled
  PROVE  SeamIInv'
<1>1. SeamTypeOK'
  BY DEF SeamIInv, SeamTypeOK, DbServers, LaneConnections, ControlConnections,
     SeamAnswers, SoftCancelled, ServerSessions, InUse, NoMarker, NoBelt,
     ErrorCategory, Tabled, StreamCancelled
<1>2. Known'
  BY DEF SeamIInv, Known, SeamTypeOK, Named, DbServers, LaneConnections,
     ControlConnections, SeamAnswers, SoftCancelled, NoMarker, ServerSessions,
     InUse, NoBelt, ErrorCategory, Tabled, StreamCancelled
<1>3. Opened'
  BY DEF SeamIInv, Opened, SeamTypeOK, InUse, NoMarker, DbServers, LaneConnections,
     ControlConnections, SeamAnswers, SoftCancelled, ServerSessions, NoBelt,
     ErrorCategory, Tabled, StreamCancelled
<1>4. Belted'
  BY DEF SeamIInv, Belted, SeamTypeOK, Known, Opened, NoMarker, NoBelt, Belt,
     DbServers, LaneConnections, ControlConnections, SeamAnswers, Named, InUse,
     SoftCancelled, ServerSessions, ErrorCategory, Tabled, StreamCancelled
<1>5. Confirming'
  BY DEF SeamIInv, Confirming, SeamTypeOK, Known, Opened, NoMarker, DbServers,
     LaneConnections, ControlConnections, SeamAnswers, Named, InUse, SoftCancelled,
     ServerSessions, NoBelt, ErrorCategory, Tabled, StreamCancelled
<1>6. Striking'
  BY DEF SeamIInv, Striking, SeamTypeOK, Known, Opened, NoMarker, DbServers,
     LaneConnections, ControlConnections, SeamAnswers, Named, InUse, SoftCancelled,
     ServerSessions, NoBelt, ErrorCategory, Tabled, StreamCancelled
<1>7. Offering'
  BY DEF SeamIInv, Offering, NoMarker, StreamCancelled
<1> QED
  BY <1>1, <1>2, <1>3, <1>4, <1>5, <1>6, <1>7 DEF SeamIInv

\* The last row was fetched.
LEMMA StreamEndsKeeps ==
  ASSUME SeamIInv, StreamEnds
  PROVE  SeamIInv'
<1>1. SeamTypeOK'
  BY SMTT(30) DEF SeamIInv, SeamTypeOK, DbServers, LaneConnections, ControlConnections,
     SeamAnswers, Up, Doing, ServerSessions, InUse, NoMarker, NoBelt,
     ErrorCategory, Tabled, StreamEnds
<1>2. Known'
  BY DEF SeamIInv, Known, SeamTypeOK, Named, DbServers, LaneConnections,
     ControlConnections, SeamAnswers, Up, Doing, NoMarker, ServerSessions, InUse,
     NoBelt, ErrorCategory, Tabled, StreamEnds
<1>3. Opened'
  BY DEF SeamIInv, Opened, SeamTypeOK, InUse, NoMarker, DbServers, LaneConnections,
     ControlConnections, SeamAnswers, Up, Doing, ServerSessions, NoBelt,
     ErrorCategory, Tabled, StreamEnds
<1>4. Belted'
  BY DEF SeamIInv, Belted, SeamTypeOK, Known, Opened, NoMarker, NoBelt, Belt,
     DbServers, LaneConnections, ControlConnections, SeamAnswers, Named, InUse, Up,
     Doing, ServerSessions, ErrorCategory, Tabled, StreamEnds
<1>5. Confirming'
  BY DEF SeamIInv, Confirming, SeamTypeOK, Known, Opened, NoMarker, DbServers,
     LaneConnections, ControlConnections, SeamAnswers, Named, InUse, Up, Doing,
     ServerSessions, NoBelt, ErrorCategory, Tabled, StreamEnds
<1>6. Striking'
  BY DEF SeamIInv, Striking, SeamTypeOK, Known, Opened, NoMarker, DbServers,
     LaneConnections, ControlConnections, SeamAnswers, Named, InUse, Up, Doing,
     ServerSessions, NoBelt, ErrorCategory, Tabled, StreamEnds
<1>7. Offering'
  BY DEF SeamIInv, Offering, SeamTypeOK, Known, NoMarker, DbServers,
     LaneConnections, ControlConnections, SeamAnswers, Named, Up, Doing,
     ServerSessions, InUse, NoBelt, ErrorCategory, Tabled, StreamEnds
<1> QED
  BY <1>1, <1>2, <1>3, <1>4, <1>5, <1>6, <1>7 DEF SeamIInv

\* An error is classified: only the server confirms.
LEMMA StatementRaisesKeeps ==
  ASSUME SeamIInv, StatementRaises
  PROVE  SeamIInv'
<1>1. PICK exc \in Failures(conn.handle), c \in ErrorCategory :
        /\ c = Classify(Codes, exc)
        /\ told' = [category |-> c, confirmed |-> ServerConfirmed(c)]
        /\ conn' = [conn EXCEPT !.alive = @ /\ c # "connection_dead",
                                !.pc = CASE c = "connection_dead" -> "lost"
                                         [] c = "unknown" -> "judging" [] OTHER -> "idle"]
  BY ClassifyIs DEF StatementRaises
<1>2. SeamTypeOK'
  <2>1. conn' \in LaneConnections
    BY <1>1 DEF SeamIInv, SeamTypeOK, LaneConnections, InUse
  <2>2. told' \in SeamAnswers
    BY <1>1 DEF SeamAnswers, ServerConfirmed
  <2> QED
    BY <2>1, <2>2 DEF SeamIInv, SeamTypeOK, StatementRaises
<1>3. Known'
  BY DEF SeamIInv, Known, SeamTypeOK, Named, DbServers, LaneConnections,
     ControlConnections, SeamAnswers, ServerConfirmed, NoMarker, ServerSessions,
     InUse, NoBelt, ErrorCategory, Tabled, StatementRaises
<1>4. Opened'
  BY DEF SeamIInv, Opened, SeamTypeOK, InUse, NoMarker, DbServers, LaneConnections,
     ControlConnections, SeamAnswers, ServerConfirmed, ServerSessions, NoBelt,
     ErrorCategory, Tabled, StatementRaises
<1>5. Belted'
  BY DEF SeamIInv, Belted, SeamTypeOK, Known, Opened, NoMarker, NoBelt, Belt,
     DbServers, LaneConnections, ControlConnections, SeamAnswers, Named, InUse,
     ServerConfirmed, ServerSessions, ErrorCategory, Tabled, StatementRaises
<1>6. Confirming'
  <2>1. SUFFICES ASSUME ServerConfirmed(c)
                 PROVE  Confirming'
    BY <1>1 DEF Confirming
  <2>2. conn.handle \in Markers /\ conn.marker = conn.handle /\ conn.marker # NoMarker
    BY DEF SeamIInv, Known, Named, Opened, InUse, StatementRaises
  <2>3. exc \notin Raises.gone /\ exc \notin Raises.erred
    BY <1>1, <2>1, OnlyServerConfirms
  <2>4. db.sessions[conn.handle].doing \in {"interrupted", "timedout"}
    BY <2>3 DEF Failures
  <2>5. conn'.pc = "idle" /\ conn'.marker = conn.marker
    BY <1>1, <2>1 DEF ServerConfirmed, SeamIInv, SeamTypeOK, LaneConnections
  <2> QED
    BY <2>2, <2>4, <2>5 DEF Confirming, StatementRaises
<1>7. Striking'
  BY DEF SeamIInv, Striking, SeamTypeOK, Known, Opened, NoMarker, DbServers,
     LaneConnections, ControlConnections, SeamAnswers, Named, InUse,
     ServerConfirmed, ServerSessions, NoBelt, ErrorCategory, Tabled,
     StatementRaises
<1>8. Offering'
  BY DEF SeamIInv, Offering, NoMarker, StatementRaises
<1> QED
  BY <1>2, <1>3, <1>4, <1>5, <1>6, <1>7, <1>8 DEF SeamIInv

\* ping() after an unknown error.
LEMMA JudgedKeeps ==
  ASSUME SeamIInv, Judged
  PROVE  SeamIInv'
<1>1. SeamTypeOK'
  <2>1. conn' \in LaneConnections
    BY DEF SeamIInv, SeamTypeOK, LaneConnections, InUse, Judged
  <2> QED
    BY <2>1 DEF SeamIInv, SeamTypeOK, Judged
<1>2. Known'
  BY DEF SeamIInv, Known, SeamTypeOK, Named, DbServers, LaneConnections,
     ControlConnections, SeamAnswers, Up, NoMarker, ServerSessions, InUse, NoBelt,
     ErrorCategory, Tabled, Judged
<1>3. Opened'
  BY DEF SeamIInv, Opened, SeamTypeOK, InUse, NoMarker, DbServers, LaneConnections,
     ControlConnections, SeamAnswers, Up, ServerSessions, NoBelt, ErrorCategory,
     Tabled, Judged
<1>4. Belted'
  BY DEF SeamIInv, Belted, SeamTypeOK, Known, Opened, NoMarker, NoBelt, Belt,
     DbServers, LaneConnections, ControlConnections, SeamAnswers, Named, InUse, Up,
     ServerSessions, ErrorCategory, Tabled, Judged
<1>5. Confirming'
  BY DEF SeamIInv, Confirming, SeamTypeOK, Known, Opened, NoMarker, DbServers,
     LaneConnections, ControlConnections, SeamAnswers, Named, InUse, Up,
     ServerSessions, NoBelt, ErrorCategory, Tabled, Judged
<1>6. Striking'
  BY DEF SeamIInv, Striking, SeamTypeOK, Known, Opened, NoMarker, DbServers,
     LaneConnections, ControlConnections, SeamAnswers, Named, InUse, Up,
     ServerSessions, NoBelt, ErrorCategory, Tabled, Judged
<1>7. Offering'
  BY DEF SeamIInv, Offering, NoMarker, Judged
<1> QED
  BY <1>1, <1>2, <1>3, <1>4, <1>5, <1>6, <1>7 DEF SeamIInv

\* close().
LEMMA CloseConnectionKeeps ==
  ASSUME SeamIInv, CloseConnection
  PROVE  SeamIInv'
<1>1. SeamTypeOK'
  <2>1. conn' \in LaneConnections
    BY ClosedIs DEF SeamIInv, SeamTypeOK, CloseConnection
  <2>2. db' \in DbServers
    BY GoneIs DEF SeamIInv, SeamTypeOK, LaneConnections, CloseConnection
  <2> QED
    BY <2>1, <2>2 DEF SeamIInv, SeamTypeOK, CloseConnection
<1>2. Known'
  BY DEF SeamIInv, Known, SeamTypeOK, Named, DbServers, LaneConnections,
     ControlConnections, SeamAnswers, Gone, Closed, NoMarker, ServerSessions,
     InUse, NoBelt, ErrorCategory, Tabled, CloseConnection
<1>3. Opened'
  BY DEF SeamIInv, Opened, SeamTypeOK, InUse, NoMarker, DbServers, LaneConnections,
     ControlConnections, SeamAnswers, Gone, Closed, ServerSessions, NoBelt,
     ErrorCategory, Tabled, CloseConnection
<1>4. Belted'
  BY DEF SeamIInv, Belted, SeamTypeOK, Known, Opened, NoMarker, NoBelt, Belt,
     DbServers, LaneConnections, ControlConnections, SeamAnswers, Named, InUse,
     Gone, Closed, ServerSessions, ErrorCategory, Tabled, CloseConnection
<1>5. Confirming'
  BY DEF SeamIInv, Confirming, SeamTypeOK, Known, Opened, NoMarker, DbServers,
     LaneConnections, ControlConnections, SeamAnswers, Named, InUse, Gone, Closed,
     ServerSessions, NoBelt, ErrorCategory, Tabled, CloseConnection
<1>6. Striking'
  BY DEF SeamIInv, Striking, SeamTypeOK, Known, Opened, NoMarker, DbServers,
     LaneConnections, ControlConnections, SeamAnswers, Named, InUse, Gone, Closed,
     ServerSessions, NoBelt, ErrorCategory, Tabled, CloseConnection
<1>7. Offering'
  BY DEF SeamIInv, Offering, SeamTypeOK, Known, NoMarker, DbServers,
     LaneConnections, ControlConnections, SeamAnswers, Named, Gone, Closed,
     ServerSessions, InUse, NoBelt, ErrorCategory, Tabled, CloseConnection
<1> QED
  BY <1>1, <1>2, <1>3, <1>4, <1>5, <1>6, <1>7 DEF SeamIInv

\* A cancel is requested.
LEMMA RequestCancelKeeps ==
  ASSUME SeamIInv, RequestCancel
  PROVE  SeamIInv'
<1>1. SeamTypeOK'
  BY DEF SeamIInv, SeamTypeOK, DbServers, LaneConnections, ControlConnections,
     SeamAnswers, Busy, ServerSessions, InUse, NoMarker, NoBelt, ErrorCategory,
     Tabled, RequestCancel
<1>2. Known'
  BY DEF SeamIInv, Known, SeamTypeOK, Named, DbServers, LaneConnections,
     ControlConnections, SeamAnswers, Busy, NoMarker, ServerSessions, InUse,
     NoBelt, ErrorCategory, Tabled, RequestCancel
<1>3. Opened'
  BY DEF SeamIInv, Opened, SeamTypeOK, InUse, NoMarker, DbServers, LaneConnections,
     ControlConnections, SeamAnswers, Busy, ServerSessions, NoBelt, ErrorCategory,
     Tabled, RequestCancel
<1>4. Belted'
  BY DEF SeamIInv, Belted, SeamTypeOK, Known, Opened, NoMarker, NoBelt, Belt,
     DbServers, LaneConnections, ControlConnections, SeamAnswers, Named, InUse,
     Busy, ServerSessions, ErrorCategory, Tabled, RequestCancel
<1>5. Confirming'
  BY DEF SeamIInv, Confirming, SeamTypeOK, Known, Opened, NoMarker, DbServers,
     LaneConnections, ControlConnections, SeamAnswers, Named, InUse, Busy,
     ServerSessions, NoBelt, ErrorCategory, Tabled, RequestCancel
<1>6. Striking'
  BY DEF SeamIInv, Striking, SeamTypeOK, Known, Opened, NoMarker, DbServers,
     LaneConnections, ControlConnections, SeamAnswers, Named, InUse, Busy,
     ServerSessions, NoBelt, ErrorCategory, Tabled, RequestCancel
<1>7. Offering'
  BY DEF SeamIInv, Offering, SeamTypeOK, Known, NoMarker, DbServers,
     LaneConnections, ControlConnections, SeamAnswers, Named, Busy, ServerSessions,
     InUse, NoBelt, ErrorCategory, Tabled, RequestCancel
<1> QED
  BY <1>1, <1>2, <1>3, <1>4, <1>5, <1>6, <1>7 DEF SeamIInv

\* The cancel is escalated.
LEMMA RequestDestroyKeeps ==
  ASSUME SeamIInv, RequestDestroy
  PROVE  SeamIInv'
<1>1. SeamTypeOK'
  BY DEF SeamIInv, SeamTypeOK, DbServers, LaneConnections, ControlConnections,
     SeamAnswers, Busy, ServerSessions, InUse, NoMarker, NoBelt, ErrorCategory,
     Tabled, RequestDestroy
<1>2. Known'
  BY DEF SeamIInv, Known, SeamTypeOK, Named, DbServers, LaneConnections,
     ControlConnections, SeamAnswers, Busy, NoMarker, ServerSessions, InUse,
     NoBelt, ErrorCategory, Tabled, RequestDestroy
<1>3. Striking'
  BY DEF SeamIInv, Striking, SeamTypeOK, Known, Opened, NoMarker, DbServers,
     LaneConnections, ControlConnections, SeamAnswers, Named, InUse, Busy,
     ServerSessions, NoBelt, ErrorCategory, Tabled, RequestDestroy
<1>4. Offering'
  BY DEF SeamIInv, Offering, SeamTypeOK, Known, NoMarker, DbServers,
     LaneConnections, ControlConnections, SeamAnswers, Named, Busy, ServerSessions,
     InUse, NoBelt, ErrorCategory, Tabled, RequestDestroy
<1>5. Opened' /\ Belted' /\ Confirming'
  BY DEF SeamIInv, Opened, Belted, Confirming, InUse, NoMarker, NoBelt, Belt,
     RequestDestroy
<1> QED
  BY <1>1, <1>2, <1>3, <1>4, <1>5 DEF SeamIInv

\* open() of the control connection.
LEMMA ChannelOpensKeeps ==
  ASSUME SeamIInv, ChannelOpens
  PROVE  SeamIInv'
<1>1. PICK m \in Markers, own \in Markers \union {NoMarker} :
        /\ own \in {m, NoMarker} /\ Fresh(m) /\ db' = Logged(db, m)
        /\ chan' = [Connected(chan, m, own) EXCEPT !.pc = "probing"]
  BY DEF ChannelOpens
<1>2. UNCHANGED <<conn, told>>
  BY DEF ChannelOpens
<1>3. /\ chan' \in ControlConnections /\ chan'.handle = m /\ chan'.own = own
      /\ chan'.todo = chan.todo /\ chan'.done = chan.done /\ chan'.ok = chan.ok
      /\ chan'.support = chan.support /\ chan'.pc = "probing"
  BY <1>1, <1>2 DEF SeamIInv, SeamTypeOK, ControlConnections, Connected
<1>4. chan'.support = "available" => db.grants
  BY <1>3 DEF SeamIInv, Offering
<1> QED
  BY <1>1, <1>2, <1>3, <1>4, ChannelLogsIn

\* No control connection.
LEMMA ChannelOpenFailsKeeps ==
  ASSUME SeamIInv, ChannelOpenFails
  PROVE  SeamIInv'
<1>1. SeamTypeOK'
  <2>1. chan' \in ControlConnections
    BY ChannelUpdates DEF SeamIInv, SeamTypeOK, ChannelOpenFails
  <2> QED
    BY <2>1 DEF SeamIInv, SeamTypeOK, ChannelOpenFails
<1>2. Known'
  BY DEF SeamIInv, Known, SeamTypeOK, Named, DbServers, LaneConnections,
     ControlConnections, SeamAnswers, Settled, NoMarker, ServerSessions, InUse,
     NoBelt, ErrorCategory, Tabled, ChannelOpenFails
<1>3. Striking'
  BY DEF SeamIInv, Striking, SeamTypeOK, Known, Opened, NoMarker, DbServers,
     LaneConnections, ControlConnections, SeamAnswers, Named, InUse, Settled,
     ServerSessions, NoBelt, ErrorCategory, Tabled, ChannelOpenFails
<1>4. Offering'
  BY DEF SeamIInv, Offering, SeamTypeOK, Known, NoMarker, DbServers,
     LaneConnections, ControlConnections, SeamAnswers, Named, Settled,
     ServerSessions, InUse, NoBelt, ErrorCategory, Tabled, ChannelOpenFails
<1>5. Opened' /\ Belted' /\ Confirming'
  BY DEF SeamIInv, Opened, Belted, Confirming, InUse, NoMarker, NoBelt, Belt,
     ChannelOpenFails
<1> QED
  BY <1>1, <1>2, <1>3, <1>4, <1>5 DEF SeamIInv

\* The probe.
LEMMA ProbeKeeps ==
  ASSUME SeamIInv, Probe
  PROVE  SeamIInv'
<1>1. SeamTypeOK'
  <2>1. CASE chan' = Settled(chan, "degraded")
    BY <2>1, ChannelUpdates DEF SeamIInv, SeamTypeOK, Probe
  <2>2. CASE chan' = [chan EXCEPT !.pc = "checking"]
    BY <2>2 DEF SeamIInv, SeamTypeOK, ControlConnections, Probe
  <2> QED
    BY <2>1, <2>2 DEF Probe
<1>2. Known'
  BY DEF SeamIInv, Known, SeamTypeOK, Named, DbServers, LaneConnections,
     ControlConnections, SeamAnswers, NoMarker, Settled, ProbeConfirms,
     ServerSessions, InUse, NoBelt, ErrorCategory, Up, ServerConfirmed, Tabled,
     Probe
<1>3. Striking'
  BY DEF SeamIInv, Striking, SeamTypeOK, Known, Opened, NoMarker, DbServers,
     LaneConnections, ControlConnections, SeamAnswers, Named, InUse, Settled,
     ProbeConfirms, ServerSessions, NoBelt, ErrorCategory, Up, ServerConfirmed,
     Tabled, Probe
<1>4. Offering'
  BY DEF SeamIInv, Offering, SeamTypeOK, Known, NoMarker, DbServers,
     LaneConnections, ControlConnections, SeamAnswers, Named, Settled,
     ProbeConfirms, ServerSessions, InUse, NoBelt, ErrorCategory, Up,
     ServerConfirmed, Tabled, Probe
<1>5. Opened' /\ Belted' /\ Confirming'
  BY DEF SeamIInv, Opened, Belted, Confirming, InUse, NoMarker, NoBelt, Belt, Probe
<1> QED
  BY <1>1, <1>2, <1>3, <1>4, <1>5 DEF SeamIInv

\* The control connection after its probe.
LEMMA CheckAfterProbeKeeps ==
  ASSUME SeamIInv, CheckAfterProbe
  PROVE  SeamIInv'
<1>1. chan.pc = "checking" /\ UNCHANGED <<conn, told>> /\ db.grants
  BY DEF CheckAfterProbe, SeamIInv, Offering
<1>2. CASE UNCHANGED db /\ \E s \in {"available", "degraded"} : chan' = Settled(chan, s)
  <2>1. /\ chan' \in ControlConnections /\ chan'.handle = chan.handle /\ chan'.own = chan.own
        /\ chan'.todo = chan.todo /\ chan'.done = chan.done /\ chan'.ok = chan.ok
    BY <1>2 DEF SeamIInv, SeamTypeOK, ControlConnections, Settled
  <2> QED
    BY <1>1, <1>2, <2>1, ChannelStays
<1>3. CASE \E m \in Markers : /\ Fresh(m) /\ db' = Logged(db, m)
                              /\ chan' = Settled(Connected(chan, m, m), "available")
  <2>1. PICK m \in Markers : /\ Fresh(m) /\ db' = Logged(db, m)
                             /\ chan' = Settled(Connected(chan, m, m), "available")
    BY <1>3
  <2>2. /\ chan' \in ControlConnections /\ chan'.handle = m /\ chan'.own = m
        /\ chan'.todo = chan.todo /\ chan'.done = chan.done /\ chan'.ok = chan.ok
    BY <2>1 DEF SeamIInv, SeamTypeOK, ControlConnections, Settled, Connected
  <2> QED
    BY <1>1, <2>1, <2>2, ChannelLogsIn
<1> QED
  BY <1>2, <1>3 DEF CheckAfterProbe

\* A cancel nobody can carry out.
LEMMA CommandRefusedKeeps ==
  ASSUME SeamIInv, CommandRefused
  PROVE  SeamIInv'
<1>1. SeamTypeOK'
  <2>1. chan' \in ControlConnections
    BY ChannelUpdates DEF SeamIInv, SeamTypeOK, CommandRefused
  <2> QED
    BY <2>1 DEF SeamIInv, SeamTypeOK, CommandRefused
<1>2. Known'
  BY DEF SeamIInv, Known, SeamTypeOK, Named, DbServers, LaneConnections,
     ControlConnections, SeamAnswers, Done, NoMarker, ServerSessions, InUse,
     NoBelt, ErrorCategory, Tabled, CommandRefused
<1>3. Striking'
  BY DEF SeamIInv, Striking, SeamTypeOK, Known, Opened, NoMarker, DbServers,
     LaneConnections, ControlConnections, SeamAnswers, Named, InUse, Done,
     ServerSessions, NoBelt, ErrorCategory, Tabled, CommandRefused
<1>4. Offering'
  BY DEF SeamIInv, Offering, SeamTypeOK, Known, NoMarker, DbServers,
     LaneConnections, ControlConnections, SeamAnswers, Named, Done, ServerSessions,
     InUse, NoBelt, ErrorCategory, Tabled, CommandRefused
<1>5. Opened' /\ Belted' /\ Confirming'
  BY DEF SeamIInv, Opened, Belted, Confirming, InUse, NoMarker, NoBelt, Belt,
     CommandRefused
<1> QED
  BY <1>1, <1>2, <1>3, <1>4, <1>5 DEF SeamIInv

\* The control connection before it is used.
LEMMA EnsureReadyKeeps ==
  ASSUME SeamIInv, EnsureReady
  PROVE  SeamIInv'
<1>1. /\ chan.pc = "ready" /\ UNCHANGED <<conn, told>>
      /\ chan.support = "available" => db.grants
  BY DEF EnsureReady, SeamIInv, Offering
<1>2. CASE UNCHANGED db /\ chan' = [chan EXCEPT !.pc = "using"]
  <2>1. /\ chan' \in ControlConnections /\ chan'.handle = chan.handle /\ chan'.own = chan.own
        /\ chan'.todo = chan.todo /\ chan'.done = chan.done /\ chan'.ok = chan.ok
        /\ chan'.support = chan.support /\ chan'.pc = "using"
    BY <1>2 DEF SeamIInv, SeamTypeOK, ControlConnections
  <2> QED
    BY <1>1, <1>2, <2>1, ChannelStays
<1>3. CASE UNCHANGED db /\ chan' = [Done(chan, FALSE) EXCEPT !.handle = NoMarker]
  <2>1. /\ chan' \in ControlConnections /\ chan'.handle = NoMarker /\ chan'.own = chan.own
        /\ chan'.todo = "nothing" /\ chan'.done = chan.todo /\ ~chan'.ok
        /\ chan'.support = chan.support /\ chan'.pc = "ready"
    BY <1>3 DEF SeamIInv, SeamTypeOK, ControlConnections, Done
  <2> QED
    BY <1>1, <1>3, <2>1, ChannelStays
<1>4. CASE \E m \in Markers : /\ Fresh(m) /\ db' = Logged(db, m)
                              /\ chan' = [Connected(chan, m, m) EXCEPT !.pc = "using"]
  <2>1. PICK m \in Markers : /\ Fresh(m) /\ db' = Logged(db, m)
                             /\ chan' = [Connected(chan, m, m) EXCEPT !.pc = "using"]
    BY <1>4
  <2>2. /\ chan' \in ControlConnections /\ chan'.handle = m /\ chan'.own = m
        /\ chan'.todo = chan.todo /\ chan'.done = chan.done /\ chan'.ok = chan.ok
        /\ chan'.support = chan.support /\ chan'.pc = "using"
    BY <2>1 DEF SeamIInv, SeamTypeOK, ControlConnections, Connected
  <2> QED
    BY <1>1, <2>1, <2>2, ChannelLogsIn
<1> QED
  BY <1>2, <1>3, <1>4 DEF EnsureReady

\* The server cancels the statement or ends the session.
LEMMA ControlExecutesKeeps ==
  ASSUME SeamIInv, ControlExecutes
  PROVE  SeamIInv'
<1>1. SeamTypeOK'
  <2>1. chan' \in ControlConnections
    BY ChannelUpdates DEF SeamIInv, SeamTypeOK, ControlExecutes
  <2>2. db' \in DbServers
    <3>1. CASE chan.todo # "cancel"
      BY <3>1, GoneIs DEF SeamIInv, SeamTypeOK, LaneConnections, ControlExecutes, Strike
    <3>2. CASE chan.todo = "cancel"
      <4>1. conn.marker \in Markers
        BY <3>2 DEF SeamIInv, Striking, SeamTypeOK, LaneConnections
      <4> QED
        BY <3>2, <4>1 DEF SeamIInv, SeamTypeOK, DbServers, ServerSessions, ControlExecutes,
           Strike, Interrupt, Doing
    <3> QED
      BY <3>1, <3>2
  <2> QED
    BY <2>1, <2>2 DEF SeamIInv, SeamTypeOK, ControlExecutes
<1>2. Known'
  BY DEF SeamIInv, Known, SeamTypeOK, Named, DbServers, LaneConnections,
     ControlConnections, SeamAnswers, Up, Done, Strike, NoMarker, ServerSessions,
     InUse, NoBelt, ErrorCategory, Gone, Interrupt, Tabled, Doing, ControlExecutes
<1>3. Belted'
  BY DEF SeamIInv, Belted, SeamTypeOK, Known, Opened, NoMarker, NoBelt, Belt,
     DbServers, LaneConnections, ControlConnections, SeamAnswers, Named, InUse, Up,
     Done, Strike, ServerSessions, ErrorCategory, Gone, Interrupt, Tabled, Doing,
     ControlExecutes
<1>4. Confirming'
  BY DEF SeamIInv, Confirming, SeamTypeOK, Known, Opened, NoMarker, DbServers,
     LaneConnections, ControlConnections, SeamAnswers, Named, InUse, Up, Done,
     Strike, ServerSessions, NoBelt, ErrorCategory, Gone, Interrupt, Tabled, Doing,
     ControlExecutes
<1>5. Striking'
  BY DEF SeamIInv, Striking, SeamTypeOK, Known, Opened, NoMarker, DbServers,
     LaneConnections, ControlConnections, SeamAnswers, Named, InUse, Up, Done,
     Strike, ServerSessions, NoBelt, ErrorCategory, Gone, Interrupt, Tabled, Doing,
     ControlExecutes
<1>6. Offering'
  BY DEF SeamIInv, Offering, SeamTypeOK, Known, NoMarker, DbServers,
     LaneConnections, ControlConnections, SeamAnswers, Named, Up, Done, Strike,
     ServerSessions, InUse, NoBelt, ErrorCategory, Gone, Interrupt, Tabled, Doing,
     ControlExecutes
<1>7. Opened'
  BY DEF SeamIInv, Opened, InUse, NoMarker, ControlExecutes
<1> QED
  BY <1>1, <1>2, <1>3, <1>4, <1>5, <1>6, <1>7 DEF SeamIInv

\* It refuses.
LEMMA ControlRaisesKeeps ==
  ASSUME SeamIInv, ControlRaises
  PROVE  SeamIInv'
<1>1. SeamTypeOK'
  <2>1. chan' \in ControlConnections
    BY ChannelUpdates DEF SeamIInv, SeamTypeOK, ControlRaises
  <2> QED
    BY <2>1 DEF SeamIInv, SeamTypeOK, ControlRaises
<1>2. Known'
  BY DEF SeamIInv, Known, SeamTypeOK, Named, DbServers, LaneConnections,
     ControlConnections, SeamAnswers, Up, Done, NoMarker, ServerSessions, InUse,
     NoBelt, ErrorCategory, Tabled, ControlRaises
<1>3. Striking'
  BY DEF SeamIInv, Striking, SeamTypeOK, Known, Opened, NoMarker, DbServers,
     LaneConnections, ControlConnections, SeamAnswers, Named, InUse, Up, Done,
     ServerSessions, NoBelt, ErrorCategory, Tabled, ControlRaises
<1>4. Offering'
  BY DEF SeamIInv, Offering, SeamTypeOK, Known, NoMarker, DbServers,
     LaneConnections, ControlConnections, SeamAnswers, Named, Up, Done,
     ServerSessions, InUse, NoBelt, ErrorCategory, Tabled, ControlRaises
<1>5. Opened' /\ Belted' /\ Confirming'
  BY DEF SeamIInv, Opened, Belted, Confirming, InUse, NoMarker, NoBelt, Belt,
     ControlRaises
<1> QED
  BY <1>1, <1>2, <1>3, <1>4, <1>5 DEF SeamIInv

\* The control connection is closed.
LEMMA ChannelStopsKeeps ==
  ASSUME SeamIInv, ChannelStops
  PROVE  SeamIInv'
<1>1. SeamTypeOK'
  <2>1. chan' \in ControlConnections
    BY DEF SeamIInv, SeamTypeOK, ControlConnections, ChannelStops
  <2>2. db' \in DbServers
    BY GoneIs DEF SeamIInv, SeamTypeOK, ControlConnections, ChannelStops
  <2> QED
    BY <2>1, <2>2 DEF SeamIInv, SeamTypeOK, ChannelStops
<1>2. Known'
  BY DEF SeamIInv, Known, SeamTypeOK, Named, DbServers, LaneConnections,
     ControlConnections, SeamAnswers, NoMarker, Gone, Busy, ServerSessions, InUse,
     NoBelt, ErrorCategory, Tabled, ChannelStops
<1>3. Belted'
  BY DEF SeamIInv, Belted, SeamTypeOK, Known, Opened, NoMarker, NoBelt, Belt,
     DbServers, LaneConnections, ControlConnections, SeamAnswers, Named, InUse,
     Gone, Busy, ServerSessions, ErrorCategory, Tabled, ChannelStops
<1>4. Confirming'
  BY DEF SeamIInv, Confirming, SeamTypeOK, Known, Opened, NoMarker, DbServers,
     LaneConnections, ControlConnections, SeamAnswers, Named, InUse, Gone, Busy,
     ServerSessions, NoBelt, ErrorCategory, Tabled, ChannelStops
<1>5. Striking'
  BY DEF SeamIInv, Striking, SeamTypeOK, Known, Opened, NoMarker, DbServers,
     LaneConnections, ControlConnections, SeamAnswers, Named, InUse, Gone, Busy,
     ServerSessions, NoBelt, ErrorCategory, Tabled, ChannelStops
<1>6. Offering'
  BY DEF SeamIInv, Offering, SeamTypeOK, Known, NoMarker, DbServers,
     LaneConnections, ControlConnections, SeamAnswers, Named, Gone, Busy,
     ServerSessions, InUse, NoBelt, ErrorCategory, Tabled, ChannelStops
<1>7. Opened'
  BY DEF SeamIInv, Opened, InUse, NoMarker, ChannelStops
<1> QED
  BY <1>1, <1>2, <1>3, <1>4, <1>5, <1>6, <1>7 DEF SeamIInv

\* The server works on a statement.
LEMMA AdvanceKeeps ==
  ASSUME SeamIInv, NEW m \in Markers, Advance(m)
  PROVE  SeamIInv'
<1>1. SeamTypeOK'
  BY DEF SeamIInv, SeamTypeOK, DbServers, LaneConnections, ControlConnections,
     SeamAnswers, Up, Doing, ServerSessions, InUse, NoMarker, NoBelt,
     ErrorCategory, Tabled, Advance
<1>2. Known'
  BY DEF SeamIInv, Known, SeamTypeOK, Named, DbServers, LaneConnections,
     ControlConnections, SeamAnswers, Up, Doing, NoMarker, ServerSessions, InUse,
     NoBelt, ErrorCategory, Tabled, Advance
<1>3. Belted'
  BY DEF SeamIInv, Belted, SeamTypeOK, Known, Opened, NoMarker, NoBelt, Belt,
     DbServers, LaneConnections, ControlConnections, SeamAnswers, Named, InUse, Up,
     Doing, ServerSessions, ErrorCategory, Tabled, Advance
<1>4. Confirming'
  BY DEF SeamIInv, Confirming, SeamTypeOK, Known, Opened, NoMarker, DbServers,
     LaneConnections, ControlConnections, SeamAnswers, Named, InUse, Up, Doing,
     ServerSessions, NoBelt, ErrorCategory, Tabled, Advance
<1>5. Striking'
  BY DEF SeamIInv, Striking, SeamTypeOK, Known, Opened, NoMarker, DbServers,
     LaneConnections, ControlConnections, SeamAnswers, Named, InUse, Up, Doing,
     ServerSessions, NoBelt, ErrorCategory, Tabled, Advance
<1>6. Offering'
  BY DEF SeamIInv, Offering, SeamTypeOK, Known, NoMarker, DbServers,
     LaneConnections, ControlConnections, SeamAnswers, Named, Up, Doing,
     ServerSessions, InUse, NoBelt, ErrorCategory, Tabled, Advance
<1>7. Opened'
  BY DEF SeamIInv, Opened, InUse, NoMarker, Advance
<1> QED
  BY <1>1, <1>2, <1>3, <1>4, <1>5, <1>6, <1>7 DEF SeamIInv

\* A session dies.
LEMMA SessionDiesKeeps ==
  ASSUME SeamIInv, NEW m \in Markers, SessionDies(m)
  PROVE  SeamIInv'
<1>1. SeamTypeOK'
  BY GoneIs DEF SeamIInv, SeamTypeOK, SessionDies
<1>2. Known'
  BY DEF SeamIInv, Known, SeamTypeOK, Named, DbServers, LaneConnections,
     ControlConnections, SeamAnswers, Up, Gone, NoMarker, ServerSessions, InUse,
     NoBelt, ErrorCategory, Tabled, SessionDies
<1>3. Belted'
  BY DEF SeamIInv, Belted, SeamTypeOK, Known, Opened, NoMarker, NoBelt, Belt,
     DbServers, LaneConnections, ControlConnections, SeamAnswers, Named, InUse, Up,
     Gone, ServerSessions, ErrorCategory, Tabled, SessionDies
<1>4. Confirming'
  BY DEF SeamIInv, Confirming, SeamTypeOK, Known, Opened, NoMarker, DbServers,
     LaneConnections, ControlConnections, SeamAnswers, Named, InUse, Up, Gone,
     ServerSessions, NoBelt, ErrorCategory, Tabled, SessionDies
<1>5. Striking'
  BY DEF SeamIInv, Striking, SeamTypeOK, Known, Opened, NoMarker, DbServers,
     LaneConnections, ControlConnections, SeamAnswers, Named, InUse, Up, Gone,
     ServerSessions, NoBelt, ErrorCategory, Tabled, SessionDies
<1>6. Offering'
  BY DEF SeamIInv, Offering, SeamTypeOK, Known, NoMarker, DbServers,
     LaneConnections, ControlConnections, SeamAnswers, Named, Up, Gone,
     ServerSessions, InUse, NoBelt, ErrorCategory, Tabled, SessionDies
<1>7. Opened'
  BY DEF SeamIInv, Opened, InUse, NoMarker, SessionDies
<1> QED
  BY <1>1, <1>2, <1>3, <1>4, <1>5, <1>6, <1>7 DEF SeamIInv

----------------------------------------------------------------------------
\* The step lemmas together.
LEMMA SeamStep ==
  ASSUME SeamIInv, [SeamNext]_seamVars
  PROVE  SeamIInv'
<1>1. CASE UNCHANGED seamVars
  <2>1. SeamTypeOK' /\ Known' /\ Opened' /\ Offering'
    BY <1>1 DEF SeamIInv, seamVars, SeamTypeOK, Known, Named, Opened, InUse, Offering
  <2>2. Belted' /\ Confirming' /\ Striking'
    BY <1>1 DEF SeamIInv, seamVars, Belted, Belt, Confirming, Striking
  <2> QED
    BY <2>1, <2>2 DEF SeamIInv
<1>2. CASE OpenConnects
  BY <1>2, OpenConnectsKeeps
<1>3. CASE OpenFails
  BY <1>3, OpenFailsKeeps
<1>4. CASE SyncSkipped
  BY <1>4, SyncSkippedKeeps
<1>5. CASE SyncSent
  BY <1>5, SyncSentKeeps
<1>6. CASE SyncReturns
  BY <1>6, SyncReturnsKeeps
<1>7. CASE SyncRaises
  BY <1>7, SyncRaisesKeeps
<1>8. CASE MarkerRead
  BY <1>8, MarkerReadKeeps
<1>9. CASE MarkerFails
  BY <1>9, MarkerFailsKeeps
<1>10. CASE \E t \in Limits : NextStatement(t)
  BY <1>10, NextStatementKeeps
<1>11. CASE ExecuteBegins
  BY <1>11, ExecuteBeginsKeeps
<1>12. CASE ExecuteSent
  BY <1>12, ExecuteSentKeeps
<1>13. CASE ExecuteReturns
  BY <1>13, ExecuteReturnsKeeps
<1>14. CASE StreamCancelled
  BY <1>14, StreamCancelledKeeps
<1>15. CASE StreamEnds
  BY <1>15, StreamEndsKeeps
<1>16. CASE StatementRaises
  BY <1>16, StatementRaisesKeeps
<1>17. CASE Judged
  BY <1>17, JudgedKeeps
<1>18. CASE CloseConnection
  BY <1>18, CloseConnectionKeeps
<1>19. CASE RequestCancel
  BY <1>19, RequestCancelKeeps
<1>20. CASE RequestDestroy
  BY <1>20, RequestDestroyKeeps
<1>21. CASE ChannelOpens
  BY <1>21, ChannelOpensKeeps
<1>22. CASE ChannelOpenFails
  BY <1>22, ChannelOpenFailsKeeps
<1>23. CASE Probe
  BY <1>23, ProbeKeeps
<1>24. CASE CheckAfterProbe
  BY <1>24, CheckAfterProbeKeeps
<1>25. CASE CommandRefused
  BY <1>25, CommandRefusedKeeps
<1>26. CASE EnsureReady
  BY <1>26, EnsureReadyKeeps
<1>27. CASE ControlExecutes
  BY <1>27, ControlExecutesKeeps
<1>28. CASE ControlRaises
  BY <1>28, ControlRaisesKeeps
<1>29. CASE ChannelStops
  BY <1>29, ChannelStopsKeeps
<1>30. CASE \E m \in Markers : Advance(m)
  BY <1>30, AdvanceKeeps
<1>31. CASE \E m \in Markers : SessionDies(m)
  BY <1>31, SessionDiesKeeps
<1> QED
  BY <1>1, <1>2, <1>3, <1>4, <1>5, <1>6, <1>7, <1>8, <1>9, <1>10, <1>11, <1>12,
     <1>13, <1>14, <1>15, <1>16, <1>17, <1>18, <1>19, <1>20, <1>21, <1>22,
     <1>23, <1>24, <1>25, <1>26, <1>27, <1>28, <1>29, <1>30, <1>31 DEF SeamNext

(* The seam between the session broker and a MySQL or DM server is safe, for *)
(* any limits, sessions and statements: the limit in force is the            *)
(* statement's own, a connection in use is live and known by its own number, *)
(* and neither a cancel nor a confirmation is made up                        *)
(* (app/dbclients/interactive).                                              *)
THEOREM SeamIsSafe == SeamSpec => []SeamInv
<1>1. SeamInit => SeamIInv
  <2> SUFFICES ASSUME SeamInit
               PROVE  SeamIInv
    OBVIOUS
  <2>1. PICK d \in Dialects, g \in BOOLEAN, b \in BOOLEAN :
          db = [dialect |-> d, grants |-> g, knows |-> b /\ d = "mysql",
                sessions |-> [m \in Markers |-> NoSession]]
    BY DEF SeamInit
  <2>2. conn = NewConnection /\ chan = NewChannel /\ told = NothingTold
    BY DEF SeamInit
  <2>3. db \in DbServers
    BY <2>1 DEF DbServers, ServerSessions, NoSession
  <2>4. conn \in LaneConnections
    BY <2>2, SeamBounds DEF NewConnection, LaneConnections, NoMarker, NoBelt
  <2>5. chan \in ControlConnections /\ told \in SeamAnswers
    BY <2>2 DEF NewChannel, ControlConnections, NothingTold, SeamAnswers, NoMarker
  <2>6. Known /\ Opened /\ Belted
    BY <2>2 DEF NewConnection, NewChannel, Known, Named, Opened, InUse, Belted, NoMarker
  <2>7. Confirming /\ Striking /\ Offering
    BY <2>2 DEF NewConnection, NewChannel, NothingTold, Confirming, Striking, Offering, NoMarker
  <2> QED
    BY <2>3, <2>4, <2>5, <2>6, <2>7 DEF SeamIInv, SeamTypeOK
<1>2. SeamIInv /\ [SeamNext]_seamVars => SeamIInv'
  BY SeamStep
<1>3. SeamIInv => SeamInv
  <2> SUFFICES ASSUME SeamIInv
               PROVE  SeamInv
    OBVIOUS
  <2>1. SeamTypeOK /\ IdleIsUsable /\ ConfirmedByServer /\ ChannelIsHonest
    BY DEF SeamIInv, IdleIsUsable, Opened, ConfirmedByServer, Confirming, ChannelIsHonest,
           Offering, Striking
  <2>2. OwnLimitInForce
    <3>1. SUFFICES ASSUME conn.pc \in {"executing", "streaming"}, db.dialect = "mysql",
                          conn.supported
                   PROVE  db.sessions[conn.handle].limit = Belt(conn.limit)
      BY DEF OwnLimitInForce
    <3>2. conn.handle # NoMarker /\ conn.belt = Belt(conn.limit)
      BY <3>1 DEF SeamIInv, Opened, InUse, Belted
    <3>3. conn.belt # NoBelt
      BY <3>2, SeamBounds DEF SeamIInv, SeamTypeOK, LaneConnections, Belt, NoBelt
    <3> QED
      BY <3>2, <3>3 DEF SeamIInv, Belted
  <2> QED
    BY <2>1, <2>2 DEF SeamInv
<1> QED
  BY <1>1, <1>2, <1>3, PTL DEF SeamSpec

----------------------------------------------------------------------------
(* The results: the inductive invariant.                                     *)

Phases == {"wait", "read", "publish", "seal", "settle", "close", "done"}
Subjects == {"accepted", "running"} \union Over
Manifests == [present : BOOLEAN, rows : Nat, truncated : BOOLEAN, version : Nat]
Viewers == [version : Nat, loaded : Nat, over : BOOLEAN, got : Nat, end : BOOLEAN]
Polls == [phase : {"poll"}, state : Subjects]
RowReads == [phase : {"rows"}, over : BOOLEAN]
ManifestReads == [phase : {"manifest"}, over : BOOLEAN, rows : Nat]
CatalogReads == [phase : {"row"}, over : BOOLEAN, rows : Nat,
                 loaded : Nat, truncated : BOOLEAN]

Typed ==
    /\ origin \in [kind : {"job", "statement"}, rows : Nat]
    /\ maker \in [phase : Phases, read : Nat, outcome : {"none"} \union Over]
    /\ subject \in Subjects
    /\ manifest \in Manifests /\ manifest.rows <= SpoolRowCap
    /\ resultRow \in [state : {"streaming", "complete", "failed", "closed"},
                      total : Nat \union {Unknown}]
    /\ viewer \in Viewers
    /\ asked \in {NoRequest} \union Polls \union RowReads \union ManifestReads
                 \union CatalogReads
    /\ export \in [phase : {"none", "pending", "done"}, rows : Nat]
    /\ evicted \in BOOLEAN

(* The producer appends no more: only an eviction changes the manifest.      *)
Frozen == maker.phase \in {"seal", "settle", "close", "done"}

(* The spool holds what was read unless it says that it is truncated, and a  *)
(* producer that succeeded has read what there is or has marked the spool.   *)
Making ==
    /\ maker.read <= origin.rows /\ maker.read <= ReadLimit
    /\ ~evicted => manifest.rows <= maker.read
    /\ ~evicted /\ ~manifest.truncated => manifest.rows = maker.read
    /\ Frozen /\ maker.outcome = "succeeded" /\ ~evicted /\ ~manifest.truncated
          => maker.read = origin.rows

(* The state of the job or statement is final only once the manifest is,     *)
(* except for a statement that the control lane gave up.                     *)
Settling ==
    /\ subject = "accepted" <=> maker.phase = "wait"
    /\ subject \in {"succeeded", "cancelled"} =>
          maker.outcome = subject /\ maker.phase \in {"close", "done"}
    /\ Frozen => maker.outcome \in Over
    /\ maker.phase \in {"close", "done"} => subject \in Over

(* A row that is complete tells what the frozen manifest tells.              *)
Sealing ==
    /\ resultRow.state = "complete" => Frozen
    /\ resultRow.state = "complete" /\ ~evicted =>
          resultRow.total = IF manifest.truncated THEN Unknown ELSE manifest.rows
    /\ resultRow.state = "failed" => subject = "failed" \/ evicted
    /\ resultRow.state = "closed" => evicted

(* What the client knows is not ahead of the manifest, and a client that saw *)
(* the end of a readable result knows the last version.                      *)
Knowing ==
    /\ viewer.over => subject \in Over
    /\ asked \in Polls /\ asked.state \in Over => subject \in Over
    /\ ~evicted => viewer.version <= manifest.version
    /\ ~evicted /\ viewer.version = manifest.version => viewer.loaded = manifest.rows
    /\ ~evicted /\ viewer.over /\ subject \in Readable =>
          viewer.version = manifest.version

(* The rows of a page are there, and as long as the client knows the current *)
(* version a page under way was read from it.                                *)
Paging ==
    /\ ~evicted => viewer.got <= manifest.rows
    /\ asked \in RowReads \union ManifestReads \union CatalogReads =>
          (asked.over <=> viewer.over)
    /\ asked \in ManifestReads \union CatalogReads /\ ~evicted =>
          /\ viewer.got + asked.rows <= manifest.rows
          /\ viewer.version = manifest.version /\ asked.rows = 0 =>
                viewer.got = manifest.rows
    /\ asked \in CatalogReads /\ ~evicted /\ viewer.version = manifest.version =>
          asked.loaded = manifest.rows

(* The client stops at the end of a frozen manifest, or a new version makes  *)
(* it go on.                                                                 *)
Ending ==
    viewer.end /\ ~evicted /\ subject \in Readable /\ viewer.version = manifest.version =>
        Frozen /\ viewer.got = manifest.rows

Exporting ==
    /\ export.phase # "none" => subject \in {"succeeded", "cancelled"}
    /\ export.phase = "done" /\ ~evicted => export.rows = manifest.rows

ReadsIInv == /\ Typed /\ Making /\ Settling /\ Sealing
             /\ Knowing /\ Paging /\ Ending /\ Exporting

----------------------------------------------------------------------------
(* Operators.                                                                *)

\* What append_spool makes of a manifest: it keeps a part of the batch within
\* the cap, and one that drops rows is truncated and a new version.
LEMMA SpooledIs ==
  ASSUME NEW mf \in Manifests, mf.rows <= SpoolRowCap,
         NEW n \in Nat, NEW fitting \in Nat,
         NEW m2, m2 = Spooled(mf, n, fitting)
  PROVE  /\ m2 \in Manifests /\ m2.rows <= SpoolRowCap
         /\ mf.rows <= m2.rows /\ m2.rows <= mf.rows + n
         /\ ~m2.truncated => ~mf.truncated /\ m2.rows = mf.rows + n
         /\ m2 = mf \/ mf.version < m2.version
<1>1. CASE mf.truncated
  BY <1>1 DEF Spooled, Manifests
<1>2. CASE ~mf.truncated
  <2>1. PICK kept : kept = Least(Least(n, SpoolRowCap - mf.rows), fitting)
    OBVIOUS
  <2>2. kept \in Nat /\ kept <= n /\ mf.rows + kept <= SpoolRowCap
    BY <2>1, ReadBounds DEF Least, Manifests
  <2>3. PICK cut \in BOOLEAN : cut = (kept < n \/ mf.rows + kept >= SpoolRowCap)
    OBVIOUS
  <2>4. m2 = [present |-> TRUE, rows |-> mf.rows + kept, version |-> mf.version + 1,
              truncated |-> cut]
    BY <1>2, <2>1, <2>3 DEF Spooled
  <2>5. mf.rows + kept \in Nat /\ mf.version + 1 \in Nat
    BY <2>2 DEF Manifests
  <2>6. m2 \in Manifests
    BY <2>4, <2>5 DEF Manifests
  <2>7. m2.rows = mf.rows + kept /\ m2.version = mf.version + 1 /\ (m2.truncated <=> cut)
    BY <2>4
  <2>8. cut <=> (kept < n \/ mf.rows + kept >= SpoolRowCap)
    BY Zenon, <2>3
  <2> QED
    BY <1>2, <2>2, <2>6, <2>7, <2>8 DEF Manifests
<1> QED
  BY <1>1, <1>2

\* mark_spool_truncated keeps the rows, and is a new version unless the spool
\* was truncated already.
LEMMA MarkedIs ==
  ASSUME NEW mf \in Manifests, NEW m2, m2 = Marked(mf)
  PROVE  /\ m2 \in Manifests /\ m2.rows = mf.rows /\ m2.truncated
         /\ m2 = mf \/ mf.version < m2.version
<1>1. CASE mf.truncated
  BY <1>1 DEF Marked
<1>2. CASE ~mf.truncated
  <2>1. m2 = [mf EXCEPT !.present = TRUE, !.truncated = TRUE, !.version = @ + 1]
    BY <1>2 DEF Marked
  <2>2. m2.rows = mf.rows /\ m2.truncated /\ m2.version = mf.version + 1
    BY <2>1 DEF Manifests
  <2>3. mf.version \in Nat /\ mf.version + 1 \in Nat
    BY DEF Manifests
  <2>4. m2 \in Manifests
    BY <2>1, <2>3 DEF Manifests
  <2> QED
    BY <2>2, <2>3, <2>4
<1> QED
  BY <1>1, <1>2

\* A viewer stays a viewer.
LEMMA ViewerUpdates ==
  ASSUME NEW v \in Viewers, NEW o \in BOOLEAN, NEW e \in BOOLEAN,
         NEW n \in Nat, NEW r \in Nat
  PROVE  /\ [v EXCEPT !.over = o] \in Viewers
         /\ [v EXCEPT !.end = e] \in Viewers
         /\ [v EXCEPT !.over = o, !.end = FALSE, !.version = n, !.loaded = r] \in Viewers
         /\ [v EXCEPT !.got = n, !.end = e] \in Viewers
  BY DEF Viewers

----------------------------------------------------------------------------
(* Every step keeps the invariant.                                           *)

\* The worker or lane begins.
LEMMA BeginsKeeps ==
  ASSUME ReadsIInv, MakerBegins
  PROVE  ReadsIInv'
<1>1. Typed'
  BY DEF ReadsIInv, Typed, Subjects, Over, Phases, Manifests, Viewers, Polls,
     RowReads, ManifestReads, CatalogReads, NoRequest, Unknown, MakerBegins
<1>2. Making'
  BY DEF ReadsIInv, Making, Frozen, Typed, Manifests, Viewers, MakerBegins
<1>3. Settling'
  BY DEF ReadsIInv, Settling, Over, Frozen, Typed, Manifests, Viewers, MakerBegins
<1>4. Sealing'
  BY DEF ReadsIInv, Sealing, Settling, Making, Unknown, Frozen, Over, Typed,
     Manifests, Viewers, MakerBegins
<1>5. Knowing'
  BY DEF ReadsIInv, Knowing, Settling, Making, Over, Polls, Readable, Frozen,
     Subjects, Typed, Manifests, Viewers, MakerBegins
<1>6. Ending'
  BY DEF ReadsIInv, Ending, Settling, Knowing, Paging, Sealing, Frozen, Readable,
     Over, Polls, RowReads, ManifestReads, CatalogReads, Unknown, Subjects, Typed,
     Manifests, Viewers, MakerBegins
<1>7. Exporting'
  BY DEF ReadsIInv, Exporting, Settling, Over, Frozen, Typed, Manifests, Viewers,
     MakerBegins
<1>8. Paging'
  BY DEF ReadsIInv, Paging, RowReads, ManifestReads, CatalogReads, MakerBegins
<1> QED
  BY <1>1, <1>2, <1>3, <1>4, <1>5, <1>6, <1>7, <1>8 DEF ReadsIInv

\* A batch is appended: the manifest is another version, or it was full.
LEMMA AppendsKeeps ==
  ASSUME ReadsIInv, NEW f \in 0..BatchSize, MakerAppends(f)
  PROVE  ReadsIInv'
<1>1. PICK n : n = Least(BatchSize, Least(origin.rows, ReadLimit) - maker.read)
  OBVIOUS
<1>2. n \in Nat /\ f \in Nat /\ maker.read + n <= origin.rows /\ maker.read + n <= ReadLimit
  BY <1>1, ReadBounds DEF ReadsIInv, Typed, Making, MakerAppends, Least
<1>3. /\ manifest' = Spooled(manifest, n, f)
      /\ maker' = [maker EXCEPT !.read = @ + n, !.phase = "publish"]
  BY <1>1 DEF MakerAppends
<1>4. /\ manifest' \in Manifests /\ manifest'.rows <= SpoolRowCap
      /\ manifest.rows <= manifest'.rows /\ manifest'.rows <= manifest.rows + n
      /\ ~manifest'.truncated => ~manifest.truncated /\ manifest'.rows = manifest.rows + n
      /\ manifest' = manifest \/ manifest.version < manifest'.version
  BY ZenonT(60), <1>2, <1>3, SpooledIs DEF ReadsIInv, Typed
<1>5. /\ maker' \in [phase : Phases, read : Nat, outcome : {"none"} \union Over]
      /\ maker'.read = maker.read + n /\ maker'.phase = "publish"
      /\ maker'.outcome = maker.outcome
  <2>1. maker.read + n \in Nat
    BY <1>2 DEF ReadsIInv, Typed
  <2> QED
    BY <1>3, <2>1 DEF ReadsIInv, Typed, Phases
<1>6. Typed'
  BY <1>4, <1>5 DEF ReadsIInv, Typed, MakerAppends
<1>7. Making'
  BY <1>2, <1>4, <1>5 DEF ReadsIInv, Typed, Making, Frozen, MakerAppends, Manifests
<1>8. Settling'
  BY <1>5 DEF ReadsIInv, Settling, Frozen, MakerAppends
<1>9. Sealing'
  BY <1>4, <1>5 DEF ReadsIInv, Sealing, Frozen, MakerAppends
<1>10. Knowing'
  BY <1>4 DEF ReadsIInv, Typed, Knowing, Settling, Readable, Over, MakerAppends,
               Manifests, Viewers
<1>11. Paging'
  BY <1>4 DEF ReadsIInv, Typed, Paging, Knowing, MakerAppends, Manifests, Viewers,
               ManifestReads, CatalogReads
<1>12. Ending'
  BY <1>4 DEF ReadsIInv, Typed, Ending, Knowing, Frozen, Readable, MakerAppends,
               Manifests, Viewers
<1>13. Exporting'
  BY DEF ReadsIInv, Exporting, Settling, MakerAppends
<1> QED
  BY <1>6, <1>7, <1>8, <1>9, <1>10, <1>11, <1>12, <1>13 DEF ReadsIInv

\* The catalog row says streaming.
LEMMA PublishesKeeps ==
  ASSUME ReadsIInv, MakerPublishes
  PROVE  ReadsIInv'
<1>1. Typed'
  BY DEF ReadsIInv, Typed, Subjects, Over, Phases, Manifests, Viewers, Polls,
     RowReads, ManifestReads, CatalogReads, NoRequest, Unknown, MakerPublishes
<1>2. Making'
  BY DEF ReadsIInv, Making, Frozen, Unknown, Typed, Manifests, Viewers,
     MakerPublishes
<1>3. Settling'
  BY DEF ReadsIInv, Settling, Over, Frozen, Unknown, Typed, Manifests, Viewers,
     MakerPublishes
<1>4. Sealing'
  BY DEF ReadsIInv, Sealing, Settling, Making, Unknown, Frozen, Over, Typed,
     Manifests, Viewers, MakerPublishes
<1>5. Ending'
  BY DEF ReadsIInv, Ending, Settling, Knowing, Paging, Sealing, Frozen, Readable,
     Over, Polls, RowReads, ManifestReads, CatalogReads, Unknown, Subjects, Typed,
     Manifests, Viewers, MakerPublishes
<1>6. Knowing' /\ Paging' /\ Exporting'
  BY DEF ReadsIInv, Knowing, Paging, Exporting, Over, Polls, Readable, RowReads,
     ManifestReads, CatalogReads, Subjects, MakerPublishes
<1> QED
  BY <1>1, <1>2, <1>3, <1>4, <1>5, <1>6 DEF ReadsIInv

\* The producer is through, or fails, or is cancelled.
LEMMA StopsKeeps ==
  ASSUME ReadsIInv, MakerStops
  PROVE  ReadsIInv'
<1>1. /\ maker' \in [phase : Phases, read : Nat, outcome : {"none"} \union Over]
      /\ maker'.phase = "seal" /\ maker'.read = maker.read /\ maker'.outcome \in Over
  BY DEF ReadsIInv, Typed, MakerStops, Phases, Over
<1>2. /\ manifest' = manifest \/ manifest' = Marked(manifest)
      /\ maker'.outcome = "succeeded" =>
            /\ maker.read = Least(origin.rows, ReadLimit)
            /\ maker.read < origin.rows => manifest' = Marked(manifest)
  BY DEF ReadsIInv, Typed, MakerStops
<1>3. /\ manifest' \in Manifests /\ manifest'.rows = manifest.rows
      /\ ~manifest'.truncated => manifest' = manifest
      /\ manifest' = manifest \/ manifest.version < manifest'.version
  BY <1>2, MarkedIs DEF ReadsIInv, Typed
<1>4. maker'.outcome = "succeeded" /\ ~manifest'.truncated => maker.read = origin.rows
  BY <1>2, MarkedIs, ReadBounds DEF ReadsIInv, Typed, Making, Least
<1>5. Typed'
  BY <1>1, <1>3 DEF ReadsIInv, Typed, MakerStops
<1>6. Making'
  BY <1>1, <1>3, <1>4 DEF ReadsIInv, Typed, Making, Frozen, MakerStops
<1>7. Settling'
  BY <1>1 DEF ReadsIInv, Settling, Frozen, MakerStops
<1>8. Sealing'
  BY <1>1, <1>3 DEF ReadsIInv, Sealing, Frozen, MakerStops
<1>9. Knowing'
  BY <1>3 DEF ReadsIInv, Typed, Knowing, Settling, Readable, Over, MakerStops,
               Manifests, Viewers
<1>10. Paging'
  BY <1>3 DEF ReadsIInv, Typed, Paging, Knowing, MakerStops, Manifests, Viewers
<1>11. Ending'
  BY <1>3 DEF ReadsIInv, Typed, Ending, Knowing, Frozen, Readable, MakerStops,
               Manifests, Viewers
<1>12. Exporting'
  BY <1>3 DEF ReadsIInv, Exporting, MakerStops
<1> QED
  BY <1>5, <1>6, <1>7, <1>8, <1>9, <1>10, <1>11, <1>12 DEF ReadsIInv

\* The catalog row is sealed.
LEMMA SealsKeeps ==
  ASSUME ReadsIInv, MakerSeals
  PROVE  ReadsIInv'
<1>1. Typed'
  BY DEF ReadsIInv, Typed, Subjects, Over, Phases, Manifests, Viewers, Polls,
     RowReads, ManifestReads, CatalogReads, NoRequest, Unknown, MakerSeals
<1>2. Making'
  BY DEF ReadsIInv, Making, Frozen, Unknown, Typed, Manifests, Viewers, MakerSeals
<1>3. Settling'
  BY DEF ReadsIInv, Settling, Over, Frozen, Unknown, Typed, Manifests, Viewers,
     MakerSeals
<1>4. Sealing'
  BY DEF ReadsIInv, Sealing, Settling, Making, Unknown, Frozen, Over, Typed,
     Manifests, Viewers, MakerSeals
<1>5. Ending'
  BY DEF ReadsIInv, Ending, Settling, Knowing, Paging, Sealing, Frozen, Readable,
     Over, Polls, RowReads, ManifestReads, CatalogReads, Unknown, Subjects, Typed,
     Manifests, Viewers, MakerSeals
<1>6. Knowing' /\ Paging' /\ Exporting'
  BY DEF ReadsIInv, Knowing, Paging, Exporting, Over, Polls, Readable, RowReads,
     ManifestReads, CatalogReads, Subjects, MakerSeals
<1> QED
  BY <1>1, <1>2, <1>3, <1>4, <1>5, <1>6 DEF ReadsIInv

\* The catalog row cannot be sealed.
LEMMA SealFailsKeeps ==
  ASSUME ReadsIInv, SealFails
  PROVE  ReadsIInv'
<1>1. /\ maker' \in [phase : Phases, read : Nat, outcome : {"none"} \union Over]
      /\ maker'.phase = "settle" /\ maker'.read = maker.read
      /\ maker'.outcome \in {maker.outcome, "failed"}
  BY DEF ReadsIInv, Typed, SealFails, Phases, Over
<1>2. Typed'
  BY <1>1 DEF ReadsIInv, Typed, SealFails
<1>3. Making'
  BY DEF ReadsIInv, Making, Frozen, Typed, Manifests, Viewers, SealFails
<1>4. Settling'
  BY DEF ReadsIInv, Settling, Over, Frozen, Typed, Manifests, Viewers, SealFails
<1>5. Sealing'
  BY DEF ReadsIInv, Sealing, Settling, Making, Unknown, Frozen, Over, Typed,
     Manifests, Viewers, SealFails
<1>6. Ending'
  BY DEF ReadsIInv, Ending, Settling, Knowing, Paging, Sealing, Frozen, Readable,
     Over, Polls, RowReads, ManifestReads, CatalogReads, Unknown, Subjects, Typed,
     Manifests, Viewers, SealFails
<1>7. Knowing' /\ Paging' /\ Exporting'
  BY DEF ReadsIInv, Knowing, Paging, Exporting, Over, Polls, Readable, RowReads,
     ManifestReads, CatalogReads, Subjects, SealFails
<1> QED
  BY <1>2, <1>3, <1>4, <1>5, <1>6, <1>7 DEF ReadsIInv

\* What still waits is cancelled.
LEMMA WaitingKeeps ==
  ASSUME ReadsIInv, CancelledWaiting
  PROVE  ReadsIInv'
<1>1. Typed'
  <2>1. maker' \in [phase : Phases, read : Nat, outcome : {"none"} \union Over] /\ subject' \in Subjects
    BY DEF ReadsIInv, Typed, Subjects, Over, Phases, CancelledWaiting
  <2> QED
    BY <2>1 DEF ReadsIInv, Typed, CancelledWaiting
<1>2. Settling'
  BY DEF ReadsIInv, Settling, Over, Frozen, Typed, Manifests, Viewers,
     CancelledWaiting
<1>3. Sealing'
  BY DEF ReadsIInv, Sealing, Settling, Making, Unknown, Frozen, Over, Typed,
     Manifests, Viewers, CancelledWaiting
<1>4. Knowing'
  BY DEF ReadsIInv, Knowing, Settling, Making, Over, Polls, Readable, Frozen,
     Subjects, Typed, Manifests, Viewers, CancelledWaiting
<1>5. Ending'
  BY DEF ReadsIInv, Ending, Settling, Knowing, Paging, Sealing, Frozen, Readable,
     Over, Polls, RowReads, ManifestReads, CatalogReads, Unknown, Subjects, Typed,
     Manifests, Viewers, CancelledWaiting
<1>6. Exporting'
  BY DEF ReadsIInv, Exporting, Settling, Over, Frozen, Typed, Manifests, Viewers,
     CancelledWaiting
<1>7. Making' /\ Paging'
  BY DEF ReadsIInv, Making, Paging, Frozen, RowReads, ManifestReads, CatalogReads,
     CancelledWaiting
<1> QED
  BY <1>1, <1>2, <1>3, <1>4, <1>5, <1>6, <1>7 DEF ReadsIInv

\* The control lane gives the statement up.
LEMMA StruckKeeps ==
  ASSUME ReadsIInv, StatementStruck
  PROVE  ReadsIInv'
<1>1. Typed'
  BY DEF ReadsIInv, Typed, Subjects, Over, Phases, Manifests, Viewers, Polls,
     RowReads, ManifestReads, CatalogReads, NoRequest, Unknown, StatementStruck
<1>2. Settling'
  BY DEF ReadsIInv, Settling, Over, Frozen, Typed, Manifests, Viewers,
     StatementStruck
<1>3. Sealing'
  BY DEF ReadsIInv, Sealing, Settling, Making, Unknown, Frozen, Over, Typed,
     Manifests, Viewers, StatementStruck
<1>4. Knowing'
  BY DEF ReadsIInv, Knowing, Settling, Making, Over, Polls, Readable, Frozen,
     Subjects, Typed, Manifests, Viewers, StatementStruck
<1>5. Ending'
  BY DEF ReadsIInv, Ending, Settling, Knowing, Paging, Sealing, Frozen, Readable,
     Over, Polls, RowReads, ManifestReads, CatalogReads, Unknown, Subjects, Typed,
     Manifests, Viewers, StatementStruck
<1>6. Exporting'
  BY DEF ReadsIInv, Exporting, Settling, Over, Frozen, Typed, Manifests, Viewers,
     StatementStruck
<1>7. Making' /\ Paging'
  BY DEF ReadsIInv, Making, Paging, Frozen, RowReads, ManifestReads, CatalogReads,
     StatementStruck
<1> QED
  BY <1>1, <1>2, <1>3, <1>4, <1>5, <1>6, <1>7 DEF ReadsIInv

\* The state becomes final.
LEMMA SettlesKeeps ==
  ASSUME ReadsIInv, MakerSettles
  PROVE  ReadsIInv'
<1>1. Typed'
  BY DEF ReadsIInv, Typed, Settling, Frozen, MakerSettles, Subjects, Phases
<1>2. Making'
  BY DEF ReadsIInv, Making, Frozen, Over, Typed, Manifests, Viewers, MakerSettles
<1>3. Settling'
  BY DEF ReadsIInv, Settling, Over, Frozen, Typed, Manifests, Viewers, MakerSettles
<1>4. Sealing'
  BY DEF ReadsIInv, Sealing, Settling, Making, Unknown, Frozen, Over, Typed,
     Manifests, Viewers, MakerSettles
<1>5. Knowing'
  BY DEF ReadsIInv, Knowing, Settling, Making, Over, Polls, Readable, Frozen,
     Subjects, Typed, Manifests, Viewers, MakerSettles
<1>6. Ending'
  BY DEF ReadsIInv, Ending, Settling, Knowing, Paging, Sealing, Frozen, Readable,
     Over, Polls, RowReads, ManifestReads, CatalogReads, Unknown, Subjects, Typed,
     Manifests, Viewers, MakerSettles
<1>7. Exporting'
  BY DEF ReadsIInv, Exporting, Settling, Over, Frozen, Typed, Manifests, Viewers,
     MakerSettles
<1>8. Paging'
  BY DEF ReadsIInv, Paging, RowReads, ManifestReads, CatalogReads, MakerSettles
<1> QED
  BY <1>1, <1>2, <1>3, <1>4, <1>5, <1>6, <1>7, <1>8 DEF ReadsIInv

\* The row of a job that failed or was cancelled follows its state.
LEMMA ClosesKeeps ==
  ASSUME ReadsIInv, MakerCloses
  PROVE  ReadsIInv'
<1>1. /\ resultRow' \in [state : {"streaming", "complete", "failed", "closed"},
                          total : Nat \union {Unknown}]
      /\ resultRow'.state = IF maker.outcome = "cancelled" THEN "closed" ELSE "failed"
  BY DEF ReadsIInv, Typed, MakerCloses
<1>2. /\ maker' \in [phase : Phases, read : Nat, outcome : {"none"} \union Over]
      /\ maker'.phase = "done" /\ maker'.outcome = maker.outcome /\ maker'.read = maker.read
  BY DEF ReadsIInv, Typed, MakerCloses, Phases
<1>3. /\ maker.outcome = "cancelled" => manifest' = NoManifest /\ evicted'
      /\ maker.outcome # "cancelled" => manifest' = manifest /\ (evicted' <=> evicted)
      /\ evicted' \in BOOLEAN
  BY DEF ReadsIInv, Typed, MakerCloses
<1>4. Typed'
  <2>1. NoManifest \in Manifests /\ NoManifest.rows <= SpoolRowCap
    BY ReadBounds DEF NoManifest, Manifests
  <2>2. manifest' \in Manifests /\ manifest'.rows <= SpoolRowCap
    BY <1>3, <2>1 DEF ReadsIInv, Typed
  <2> QED
    BY <1>1, <1>2, <1>3, <2>2 DEF ReadsIInv, Typed, MakerCloses
<1>5. Making'
  BY DEF ReadsIInv, Making, Frozen, NoManifest, Typed, Manifests, Viewers,
     MakerCloses
<1>6. Settling'
  BY DEF ReadsIInv, Settling, Over, Frozen, NoManifest, Typed, Manifests, Viewers,
     MakerCloses
<1>7. Sealing'
  BY <1>1, <1>2, <1>3 DEF ReadsIInv, Typed, Sealing, Settling, Frozen, MakerCloses, Over, Subjects
<1>8. Knowing'
  BY DEF ReadsIInv, Knowing, Settling, Making, Over, Polls, Readable, Frozen,
     NoManifest, Subjects, Typed, Manifests, Viewers, MakerCloses
<1>9. Paging'
  BY DEF ReadsIInv, Paging, Knowing, RowReads, ManifestReads, CatalogReads, Over,
     Polls, Readable, NoManifest, Subjects, Typed, Manifests, Viewers, MakerCloses
<1>10. Ending'
  BY DEF ReadsIInv, Ending, Settling, Knowing, Paging, Sealing, Frozen, Readable,
     Over, Polls, RowReads, ManifestReads, CatalogReads, Unknown, NoManifest,
     Subjects, Typed, Manifests, Viewers, MakerCloses
<1>11. Exporting'
  BY DEF ReadsIInv, Exporting, Settling, Over, Frozen, NoManifest, Typed,
     Manifests, Viewers, MakerCloses
<1> QED
  BY <1>4, <1>5, <1>6, <1>7, <1>8, <1>9, <1>10, <1>11 DEF ReadsIInv

\* The spool is deleted.
LEMMA EvictedKeeps ==
  ASSUME ReadsIInv, SpoolEvicted
  PROVE  ReadsIInv'
<1>1. Typed'
  BY ReadBounds DEF ReadsIInv, Typed, SpoolEvicted, NoManifest, Manifests
<1>2. Making'
  BY ReadBounds DEF ReadsIInv, Making, Frozen, NoManifest, Typed, Manifests,
     Viewers, SpoolEvicted
<1>3. Sealing'
  BY ReadBounds DEF ReadsIInv, Sealing, Settling, Making, Unknown, Frozen, Over,
     NoManifest, Typed, Manifests, Viewers, SpoolEvicted
<1>4. Knowing'
  BY ReadBounds DEF ReadsIInv, Knowing, Settling, Making, Over, Polls, Readable,
     Frozen, NoManifest, Subjects, Typed, Manifests, Viewers, SpoolEvicted
<1>5. Paging'
  BY ReadBounds DEF ReadsIInv, Paging, Knowing, RowReads, ManifestReads,
     CatalogReads, Over, Polls, Readable, NoManifest, Subjects, Typed, Manifests,
     Viewers, SpoolEvicted
<1>6. Ending'
  BY ReadBounds DEF ReadsIInv, Ending, Settling, Knowing, Paging, Sealing, Frozen,
     Readable, Over, Polls, RowReads, ManifestReads, CatalogReads, Unknown,
     NoManifest, Subjects, Typed, Manifests, Viewers, SpoolEvicted
<1>7. Exporting'
  BY ReadBounds DEF ReadsIInv, Exporting, Settling, Over, Frozen, NoManifest,
     Typed, Manifests, Viewers, SpoolEvicted
<1>8. Settling'
  BY DEF ReadsIInv, Settling, Over, Frozen, SpoolEvicted
<1> QED
  BY <1>1, <1>2, <1>3, <1>4, <1>5, <1>6, <1>7, <1>8 DEF ReadsIInv

\* A poll reads the state.
LEMMA PollBeginsKeeps ==
  ASSUME ReadsIInv, PollBegins
  PROVE  ReadsIInv'
<1>1. Typed'
  BY DEF ReadsIInv, Typed, Subjects, Over, Phases, Manifests, Viewers, Polls,
     RowReads, ManifestReads, CatalogReads, NoRequest, Unknown, PollBegins
<1>2. Knowing'
  BY DEF ReadsIInv, Knowing, Settling, Making, Over, Polls, Readable, Frozen,
     NoRequest, Subjects, Typed, Manifests, Viewers, PollBegins
<1>3. Paging'
  BY DEF ReadsIInv, Paging, Knowing, RowReads, ManifestReads, CatalogReads, Over,
     Polls, Readable, NoRequest, Subjects, Typed, Manifests, Viewers, PollBegins
<1>4. Making' /\ Settling' /\ Sealing' /\ Ending' /\ Exporting'
  BY DEF ReadsIInv, Making, Settling, Sealing, Ending, Exporting, Frozen, Over,
     Unknown, Readable, PollBegins
<1> QED
  BY <1>1, <1>2, <1>3, <1>4 DEF ReadsIInv

\* A poll reads the manifest and answers.
LEMMA PollEndsKeeps ==
  ASSUME ReadsIInv, PollEnds
  PROVE  ReadsIInv'
<1>1. PICK o \in BOOLEAN : o = (asked.state \in Over)
  <2>1. (asked.state \in Over) \in BOOLEAN
    OBVIOUS
  <2> QED
    BY Zenon, <2>1
<1>2. viewer' \in Viewers
  <2>1. /\ viewer \in Viewers /\ manifest.version \in Nat /\ manifest.rows \in Nat
    BY DEF ReadsIInv, Typed, Manifests
  <2>2. viewer' = IF manifest.version > viewer.version
                  THEN [viewer EXCEPT !.over = o, !.end = FALSE, !.version = manifest.version,
                                      !.loaded = manifest.rows]
                  ELSE [viewer EXCEPT !.over = o]
    BY <1>1 DEF PollEnds
  <2> QED
    BY <2>1, <2>2, ViewerUpdates
<1>3. Typed'
  BY <1>2 DEF ReadsIInv, Typed, PollEnds
<1>4. Knowing'
  BY DEF ReadsIInv, Knowing, Typed, Settling, Making, Over, Polls, Readable,
     Subjects, Phases, Manifests, Viewers, RowReads, ManifestReads, CatalogReads,
     NoRequest, Unknown, Frozen, PollEnds
<1>5. Paging'
  BY DEF ReadsIInv, Paging, Knowing, RowReads, ManifestReads, CatalogReads, Over,
     Polls, Readable, NoRequest, Subjects, Typed, Manifests, Viewers, PollEnds
<1>6. Ending'
  BY DEF ReadsIInv, Ending, Settling, Knowing, Paging, Sealing, Frozen, Readable,
     Over, Polls, RowReads, ManifestReads, CatalogReads, Unknown, NoRequest,
     Subjects, Typed, Manifests, Viewers, PollEnds
<1>7. Making' /\ Settling' /\ Sealing' /\ Exporting'
  BY DEF ReadsIInv, Making, Settling, Sealing, Exporting, Frozen, Over, Unknown,
     PollEnds
<1> QED
  BY <1>3, <1>4, <1>5, <1>6, <1>7 DEF ReadsIInv

\* A page request reads the state.
LEMMA PageBeginsKeeps ==
  ASSUME ReadsIInv, PageBegins
  PROVE  ReadsIInv'
<1>1. viewer' \in Viewers
  BY ViewerUpdates DEF ReadsIInv, Typed, PageBegins
<1>2. asked' = asked \/ asked' \in RowReads
  BY DEF ReadsIInv, Typed, PageBegins, RowReads, Viewers
<1>3. Typed'
  BY <1>1, <1>2 DEF ReadsIInv, Typed, PageBegins
<1>4. Knowing'
  BY DEF ReadsIInv, Knowing, Settling, Making, Over, Polls, Readable, Frozen,
     NoRequest, Subjects, Typed, Manifests, Viewers, PageBegins
<1>5. Paging'
  BY DEF ReadsIInv, Paging, Knowing, RowReads, ManifestReads, CatalogReads, Over,
     Polls, Readable, NoRequest, Subjects, Typed, Manifests, Viewers, PageBegins
<1>6. Ending'
  BY DEF ReadsIInv, Ending, Settling, Knowing, Paging, Sealing, Frozen, Readable,
     Over, Polls, RowReads, ManifestReads, CatalogReads, Unknown, NoRequest,
     Subjects, Typed, Manifests, Viewers, PageBegins
<1>7. Making' /\ Settling' /\ Sealing' /\ Exporting'
  BY DEF ReadsIInv, Making, Settling, Sealing, Exporting, Frozen, Over, Unknown,
     PageBegins
<1> QED
  BY <1>3, <1>4, <1>5, <1>6, <1>7 DEF ReadsIInv

\* It reads the rows.
LEMMA PageRowsKeeps ==
  ASSUME ReadsIInv, PageRows
  PROVE  ReadsIInv'
<1>1. Typed'
  BY ReadBounds DEF ReadsIInv, Typed, Subjects, Over, Phases, Manifests, Viewers,
     Polls, RowReads, ManifestReads, CatalogReads, NoRequest, Unknown, Least,
     PageRows
<1>2. Knowing'
  BY ReadBounds DEF ReadsIInv, Knowing, Settling, Making, Over, Polls, Readable,
     Frozen, Least, Subjects, Typed, Manifests, Viewers, PageRows
<1>3. Paging'
  BY ReadBounds DEF ReadsIInv, Paging, Typed, Knowing, RowReads, ManifestReads,
     CatalogReads, Subjects, Over, Phases, Manifests, Viewers, Polls, NoRequest,
     Unknown, Readable, Least, PageRows
<1>4. Making' /\ Settling' /\ Sealing' /\ Ending' /\ Exporting'
  BY DEF ReadsIInv, Making, Settling, Sealing, Ending, Exporting, Frozen, Over,
     Unknown, Readable, PageRows
<1> QED
  BY <1>1, <1>2, <1>3, <1>4 DEF ReadsIInv

\* It reads the manifest.
LEMMA PageManifestKeeps ==
  ASSUME ReadsIInv, PageManifest
  PROVE  ReadsIInv'
<1>1. Typed'
  BY DEF ReadsIInv, Typed, Subjects, Over, Phases, Manifests, Viewers, Polls,
     RowReads, ManifestReads, CatalogReads, NoRequest, Unknown, PageManifest
<1>2. Knowing'
  BY DEF ReadsIInv, Knowing, Settling, Making, Over, Polls, Readable, Frozen,
     Subjects, Typed, Manifests, Viewers, PageManifest
<1>3. Paging'
  BY DEF ReadsIInv, Paging, Typed, Knowing, RowReads, ManifestReads, CatalogReads,
     Subjects, Over, Phases, Manifests, Viewers, Polls, NoRequest, Unknown,
     Readable, PageManifest
<1>4. Making' /\ Settling' /\ Sealing' /\ Ending' /\ Exporting'
  BY DEF ReadsIInv, Making, Settling, Sealing, Ending, Exporting, Frozen, Over,
     Unknown, Readable, PageManifest
<1> QED
  BY <1>1, <1>2, <1>3, <1>4 DEF ReadsIInv

\* It reads the catalog row and answers.
LEMMA PageEndsKeeps ==
  ASSUME ReadsIInv, PageEnds
  PROVE  ReadsIInv'
<1>1. PICK e \in BOOLEAN : e = LastPage(asked, resultRow.state, viewer.got)
  <2>1. LastPage(asked, resultRow.state, viewer.got) \in BOOLEAN
    BY DEF LastPage
  <2> QED
    BY <2>1
<1>2. asked \in CatalogReads /\ viewer.got + asked.rows \in Nat
  BY DEF ReadsIInv, Typed, PageEnds, NoRequest, Polls, RowReads, ManifestReads, CatalogReads,
         Viewers
<1>3. viewer' \in Viewers
  <2>1. viewer' = [viewer EXCEPT !.got = viewer.got + asked.rows, !.end = e]
    BY <1>1 DEF PageEnds
  <2> QED
    BY <1>2, <2>1, ViewerUpdates DEF ReadsIInv, Typed
<1>4. Typed'
  BY <1>3 DEF ReadsIInv, Typed, PageEnds
<1>5. Knowing'
  BY DEF ReadsIInv, Knowing, Settling, Making, Over, Polls, Readable, Frozen,
     NoRequest, LastPage, Subjects, HasMore, Typed, Manifests, Viewers, PageEnds
<1>6. Paging'
  BY DEF ReadsIInv, Paging, Knowing, RowReads, ManifestReads, CatalogReads, Over,
     Polls, Readable, NoRequest, LastPage, Subjects, HasMore, Typed, Manifests,
     Viewers, PageEnds
<1>7. Ending'
  BY DEF ReadsIInv, Ending, Settling, Knowing, Paging, Sealing, Frozen, Readable,
     Over, Polls, RowReads, ManifestReads, CatalogReads, Unknown, NoRequest,
     LastPage, Subjects, HasMore, Typed, Manifests, Viewers, PageEnds
<1>8. Making' /\ Settling' /\ Sealing' /\ Exporting'
  BY DEF ReadsIInv, Making, Settling, Sealing, Exporting, Frozen, Over, Unknown,
     PageEnds
<1> QED
  BY <1>4, <1>5, <1>6, <1>7, <1>8 DEF ReadsIInv

\* An export is accepted.
LEMMA ExportAskedKeeps ==
  ASSUME ReadsIInv, ExportAsked
  PROVE  ReadsIInv'
<1>1. Typed'
  BY DEF ReadsIInv, Typed, Subjects, Over, Phases, Manifests, Viewers, Polls,
     RowReads, ManifestReads, CatalogReads, NoRequest, Unknown, Exportable,
     ExportAsked
<1>2. Exporting'
  BY DEF ReadsIInv, Exporting, Settling, Over, Frozen, Exportable, Typed,
     Manifests, Viewers, ExportAsked
<1>3. Making' /\ Settling' /\ Sealing' /\ Knowing' /\ Paging' /\ Ending'
  BY DEF ReadsIInv, Making, Settling, Sealing, Knowing, Paging, Ending, Frozen,
     Over, Unknown, Polls, Readable, RowReads, ManifestReads, CatalogReads,
     Subjects, ExportAsked
<1> QED
  BY <1>1, <1>2, <1>3 DEF ReadsIInv

\* The worker exports the spool.
LEMMA ExportRunsKeeps ==
  ASSUME ReadsIInv, ExportRuns
  PROVE  ReadsIInv'
<1>1. Typed'
  BY DEF ReadsIInv, Typed, Subjects, Over, Phases, Manifests, Viewers, Polls,
     RowReads, ManifestReads, CatalogReads, NoRequest, Unknown, ExportRuns
<1>2. Exporting'
  BY DEF ReadsIInv, Exporting, Settling, Over, Frozen, Typed, Manifests, Viewers,
     ExportRuns
<1>3. Making' /\ Settling' /\ Sealing' /\ Knowing' /\ Paging' /\ Ending'
  BY DEF ReadsIInv, Making, Settling, Sealing, Knowing, Paging, Ending, Frozen,
     Over, Unknown, Polls, Readable, RowReads, ManifestReads, CatalogReads,
     Subjects, ExportRuns
<1> QED
  BY <1>1, <1>2, <1>3 DEF ReadsIInv

----------------------------------------------------------------------------
(* The theorem.                                                              *)

\* The invariant holds in the beginning.
LEMMA InitKeeps == ReadsInit => ReadsIInv
<1> SUFFICES ASSUME ReadsInit PROVE ReadsIInv
  OBVIOUS
<1>1. Typed
  <2>1. origin \in [kind : {"job", "statement"}, rows : Nat]
    BY ReadBounds DEF ReadsInit
  <2>2. manifest \in Manifests /\ manifest.rows <= SpoolRowCap
    BY ReadBounds DEF ReadsInit, NoManifest, Manifests
  <2>3. /\ maker \in [phase : Phases, read : Nat, outcome : {"none"} \union Over]
        /\ subject \in Subjects
    BY DEF ReadsInit, Phases, Subjects
  <2>4. /\ resultRow \in [state : {"streaming", "complete", "failed", "closed"},
                          total : Nat \union {Unknown}]
        /\ export \in [phase : {"none", "pending", "done"}, rows : Nat]
        /\ viewer \in Viewers /\ evicted \in BOOLEAN
    BY DEF ReadsInit, Viewers
  <2> QED
    BY <2>1, <2>2, <2>3, <2>4 DEF ReadsInit, Typed
<1>2. Making /\ Settling /\ Sealing
  BY <1>1, ReadBounds DEF ReadsInit, Typed, Making, Settling, Sealing, Frozen, NoManifest, Over
<1>3. Knowing /\ Paging /\ Ending /\ Exporting
  BY <1>1 DEF ReadsInit, Typed, Knowing, Paging, Ending, Exporting, NoManifest, NoRequest, Over,
              Polls, RowReads, ManifestReads, CatalogReads
<1> QED
  BY <1>1, <1>2, <1>3 DEF ReadsIInv

\* Every step keeps it.
LEMMA StepKeeps == ReadsIInv /\ [ReadsNext]_readVars => ReadsIInv'
<1> SUFFICES ASSUME ReadsIInv, [ReadsNext]_readVars PROVE ReadsIInv'
  OBVIOUS
<1>1. CASE UNCHANGED readVars
  BY <1>1 DEF readVars, ReadsIInv, Typed, Making, Settling, Sealing, Knowing, Paging, Ending,
              Exporting, Frozen, Readable
<1>2. CASE ReadsNext
  BY <1>2, BeginsKeeps, AppendsKeeps, PublishesKeeps, StopsKeeps, SealsKeeps, SealFailsKeeps,
     StruckKeeps, WaitingKeeps, SettlesKeeps, ClosesKeeps, EvictedKeeps, PollBeginsKeeps, PollEndsKeeps,
     PageBeginsKeeps, PageRowsKeeps, PageManifestKeeps, PageEndsKeeps, ExportAskedKeeps,
     ExportRunsKeeps DEF ReadsNext
<1> QED
  BY <1>1, <1>2

\* What the invariant says of a client that reads.
LEMMA InvariantImplies == ReadsIInv => ReadsInv
<1> SUFFICES ASSUME ReadsIInv PROVE ReadsInv
  OBVIOUS
<1>1. ReadsTypeOK
  BY ReadBounds DEF ReadsIInv, Typed, ReadsTypeOK, Subjects, Manifests, Viewers
<1>2. EndIsTheEnd
  <2> SUFFICES ASSUME viewer.end, viewer.over, ~evicted, subject \in Readable
               PROVE  /\ viewer.got = manifest.rows
                      /\ subject = "succeeded" /\ ~manifest.truncated =>
                            viewer.got = origin.rows
    BY DEF EndIsTheEnd
  <2>1. Frozen /\ viewer.got = manifest.rows
    BY DEF ReadsIInv, Knowing, Ending
  <2> QED
    BY <2>1 DEF ReadsIInv, Making, Settling
<1>3. NothingInvented /\ VersionsTell
  BY DEF ReadsIInv, Paging, Knowing, NothingInvented, VersionsTell
<1>4. TotalIsExact
  BY DEF ReadsIInv, Making, Sealing, TotalIsExact
<1>5. ExportIsWhole
  BY DEF ReadsIInv, Exporting, ExportIsWhole
<1> QED
  BY <1>1, <1>2, <1>3, <1>4, <1>5 DEF ReadsInv

\* Whatever the sizes, and however reads and writes interleave: a client that
\* saw the end and is told that there is no more has all rows of the spool, no
\* version hides rows from a poll, a total is exact and an export whole.
THEOREM ReadsAreSafe == ReadsSpec => []ReadsInv
BY InitKeeps, StepKeeps, InvariantImplies, PTL DEF ReadsSpec

----------------------------------------------------------------------------
(* The result sets of a console: the inductive invariant.                    *)

CatRows == [state : {"none", "streaming", "complete", "closed"}, total : Int]
Spools == [present : BOOLEAN, rows : SUBSET (1..MaxRows), trunc : BOOLEAN, old : BOOLEAN]
StmtStates == {"none", "registered", "accepted", "running"} \union Terminal
Lanes == [rs : ResultSetIds \union {0}, size : 0..MaxRows, read : 0..Limit,
          phase : {"idle", "read", "publish", "seal", "settle"}, outcome : {"none"} \union Terminal]
Captures == [phase : {"none", "resolved", "spooled"}, src : ResultSetIds \union {0},
             partial : BOOLEAN, consent : BOOLEAN]
Inputs == [state : {"none", "ready", "deleted"}, src : ResultSetIds \union {0}, consent : BOOLEAN,
           expired : BOOLEAN, leased : BOOLEAN, job : {"none", "active", "over"}]

Rows == {x \in ResultSetIds : cat[x].state # "none"}

\* The lane never took the statement, so its result set has no spool.
Unused(r) == stmt[r] \in {"none", "registered", "accepted"} \/ r \in unrun

(* A result set has a row from the registration of its statement, if that    *)
(* succeeds.                                                                 *)
TablesAre ==
    /\ cat \in [ResultSetIds -> CatRows] /\ spool \in [ResultSetIds -> Spools]
    /\ stmt \in [ResultSetIds -> StmtStates] /\ doomed \subseteq ResultSetIds
    /\ \A r \in ResultSetIds :
          /\ spool[r].rows \subseteq 1..Limit
          /\ stmt[r] = "none" => cat[r].state = "none"
          /\ cat[r].state = "none" => stmt[r] = "none" \/ r \in unrun
          /\ r \in unrun => stmt[r] \in Terminal
          /\ Unused(r) => spool[r] = NoSpool

(* The lane works on a running statement, or on one destroyed under it.      *)
LaneIs ==
    /\ lane \in Lanes /\ (lane.phase = "idle" <=> lane = IdleLane)
    /\ lane # IdleLane =>
          /\ lane.rs \in ResultSetIds /\ lane.rs \notin unrun
          /\ \/ stmt[lane.rs] = "running"
             \/ stmt[lane.rs] = "failed" /\ ~live /\ lane.rs \in hurt
    /\ lane.phase \in {"seal", "settle"} => lane.outcome \in Terminal
    /\ lane.phase = "settle" => cat[lane.rs].state # "streaming" \/ lane.rs \in hurt

(* While a statement is registered its row is streaming, no other statement  *)
(* is, and only the lane may write a newer row.                              *)
NewestIs ==
    \A r, x \in ResultSetIds : stmt[r] = "registered" =>
       /\ cat[r].state = "streaming"
       /\ stmt[x] = "registered" => x = r
       /\ <<x, r>> \in newer => lane # IdleLane /\ x = lane.rs

(* The rows are ordered by their time.                                       *)
Ordered(order, rows) ==
    /\ order \subseteq rows \X rows
    /\ \A x, y \in rows : <<x, y>> \in order => <<y, x>> \notin order
    /\ \A x, y \in rows : x # y => <<x, y>> \in order \/ <<y, x>> \in order
    /\ \A x, y, z \in rows : <<x, y>> \in order /\ <<y, z>> \in order => <<x, z>> \in order

(* What the collection spares is fixed before it deletes: a spool that was   *)
(* old by then belongs to a statement it knows.                              *)
GcIs ==
    /\ gc \in [phase : {"off", "read", "collected"}, keep : SUBSET ResultSetIds]
    /\ gc.phase # "off" /\ live =>
          \A r \in ResultSetIds : stmt[r] # "none" /\ spool[r].old => r \in gc.keep

(* A snapshot under way, and one that is registered.                         *)
CaptureIs ==
    /\ capture \in Captures /\ inspool \in Spools
    /\ capture.phase # "none" =>
          /\ input = NoInput /\ capture.src \in ResultSetIds
          /\ stmt[capture.src] = IF capture.partial THEN "cancelled" ELSE "succeeded"
    /\ capture.phase = "spooled" /\ ~capture.consent => ~capture.partial /\ ~inspool.trunc

InputIs ==
    /\ input \in Inputs
    /\ input.leased \/ input.job = "active" => input.state = "ready" /\ inspool.present
    /\ input.leased => ~input.expired
    /\ input.state = "ready" /\ ~input.consent =>
          input.src \in ResultSetIds /\ stmt[input.src] = "succeeded" /\ ~inspool.trunc

(* A statement the lane took is over only after its result set is sealed.    *)
Sealed ==
    \A r \in ResultSetIds :
       stmt[r] \in Terminal /\ r \notin hurt \union unrun => cat[r].state # "streaming"

ResultsIInv ==
    /\ TablesAre /\ LaneIs /\ Sealed /\ Ordered(newer, Rows) /\ NewestIs
    /\ GcIs /\ CaptureIs /\ InputIs

(* The order of the rows and the eviction.                                   *)
LEMMA SomeLeast ==
    ASSUME NEW T, T \subseteq Nat, T # {}
    PROVE  \E k \in T : \A j \in T : k <= j
  <1>1. PICK k \in T : \A j \in T : <<j, k>> \notin OpToRel(<, Nat)
    BY NatLessThanWellFounded, WFMin, Zenon
  <1>2. \A j \in T : ~(j < k)
    BY <1>1, Zenon DEF OpToRel
  <1>3. \A j \in T : k <= j
    BY <1>2
  <1> QED  BY <1>3, Zenon

LEMMA RowsFinite ==
    ASSUME NEW S, S \subseteq ResultSetIds
    PROVE  IsFiniteSet(S) /\ Cardinality(S) \in Nat
  BY ResultBounds, FS_Subset, FS_CardinalityType

LEMMA TouchedOrder ==
    ASSUME Ordered(newer, Rows), NEW r \in ResultSetIds
    PROVE  /\ Ordered(Touched(r), Rows \union {r})
           /\ \A x \in ResultSetIds : <<x, r>> \notin Touched(r)
  <1> DEFINE T == Touched(r)
  <1>1. T = {p \in newer : r \notin {p[1], p[2]}} \union ({r} \X (Rows \ {r}))
    BY DEF Touched, Rows
  <1> HIDE DEF T
  <1>2. \A x, y : <<x, y>> \in T <=> (<<x, y>> \in newer /\ x # r /\ y # r)
                                    \/ (x = r /\ y \in Rows \ {r})
    <2> SUFFICES ASSUME NEW x, NEW y
                 PROVE  <<x, y>> \in T <=> (<<x, y>> \in newer /\ x # r /\ y # r)
                                           \/ (x = r /\ y \in Rows \ {r})
      OBVIOUS
    <2>1. <<x, y>> \in {p \in newer : r \notin {p[1], p[2]}} <=> <<x, y>> \in newer /\ x # r /\ y # r
      OBVIOUS
    <2>2. <<x, y>> \in {r} \X (Rows \ {r}) <=> x = r /\ y \in Rows \ {r}
      OBVIOUS
    <2> QED  BY <1>1, <2>1, <2>2
  <1>3. T \subseteq (Rows \union {r}) \X (Rows \union {r})
    BY <1>1 DEF Ordered
  <1>4. newer \subseteq Rows \X Rows
    BY DEF Ordered
  <1>5. \A x, y : <<x, y>> \in newer => x \in Rows /\ y \in Rows
    BY <1>4
  <1>6. \A x, y \in Rows \union {r} : <<x, y>> \in T => <<y, x>> \notin T
    BY <1>2, <1>5 DEF Ordered
  <1>7. \A x, y \in Rows \union {r} : x # y => <<x, y>> \in T \/ <<y, x>> \in T
    BY <1>2, <1>5 DEF Ordered
  <1>8. \A x, y, z \in Rows \union {r} : <<x, y>> \in T /\ <<y, z>> \in T => <<x, z>> \in T
    BY <1>2, <1>5 DEF Ordered
  <1>9. Ordered(T, Rows \union {r})
    BY <1>3, <1>6, <1>7, <1>8 DEF Ordered
  <1> QED  BY <1>2, <1>9 DEF T

(* What is not evicted are at most Keep: the oldest of them would have all   *)
(* the others before it.                                                     *)
LEMMA KeptAreFew ==
    ASSUME NEW rows, rows \subseteq ResultSetIds, NEW order, Ordered(order, rows),
           NEW open, open \subseteq rows, NEW kept, kept \subseteq open,
           \A x \in kept : ~(Cardinality({y \in open : <<y, x>> \in order}) >= Keep)
    PROVE  Cardinality(kept) <= Keep
  <1> DEFINE Before(x) == {y \in open : <<y, x>> \in order}
             c == [x \in open |-> Cardinality(Before(x))]
             T == {Keep - c[x] : x \in kept}
  <1>1. Keep \in Nat /\ Keep # 0
    BY ResultBounds
  <1>2. CASE kept = {}
    BY <1>1, <1>2, FS_EmptySet
  <1>3. CASE kept # {}
    <2>1. \A x \in open : IsFiniteSet(Before(x)) /\ Cardinality(Before(x)) \in Nat
      BY RowsFinite
    <2>2. \A x \in open : c[x] = Cardinality(Before(x)) /\ c[x] \in Nat
      BY <2>1
    <2>3. \A x \in kept : x \in open /\ ~(c[x] >= Keep)
      OBVIOUS
    <2>4. \A x, y : y \in Before(x) <=> y \in open /\ <<y, x>> \in order
      OBVIOUS
    <2> HIDE DEF Before, c
    <2>5. T \subseteq Nat /\ T # {}
      <3>1. \A x \in kept : Keep - c[x] \in Nat
        BY <1>1, <2>2, <2>3
      <3> QED  BY <1>3, <3>1
    <2>6. PICK k \in T : \A j \in T : k <= j
      BY <2>5, SomeLeast
    <2>7. PICK x \in kept : k = Keep - c[x]
      OBVIOUS
    <2>8. \A y \in kept : c[y] <= c[x]
      <3> SUFFICES ASSUME NEW y \in kept PROVE c[y] <= c[x]
        OBVIOUS
      <3>1. Keep - c[y] \in T
        OBVIOUS
      <3>2. Keep - c[x] <= Keep - c[y]
        BY <2>6, <2>7, <3>1
      <3> QED  BY <1>1, <2>2, <2>3, <3>2
    <2>9. ASSUME NEW y \in kept \ {x}
          PROVE  y \in Before(x)
      <3>1. SUFFICES ASSUME <<y, x>> \notin order
                     PROVE  FALSE
        BY <2>3, <2>4
      <3>2. <<x, y>> \in order /\ x \in open /\ y \in open
        BY <2>3, <3>1 DEF Ordered
      <3>3. Before(x) \union {x} \subseteq Before(y)
        <4>1. ASSUME NEW z \in Before(x) PROVE z \in Before(y)
          <5>1. z \in open /\ <<z, x>> \in order
            BY <2>4
          <5> QED  BY <2>4, <3>2, <5>1 DEF Ordered
        <4>2. x \in Before(y)
          BY <2>4, <3>2
        <4> QED  BY <4>1, <4>2
      <3>4. x \notin Before(x)
        BY <2>4 DEF Ordered
      <3>5. Cardinality(Before(x) \union {x}) = c[x] + 1
        <4>1. IsFiniteSet(Before(x)) /\ Cardinality(Before(x)) = c[x]
          BY <2>1, <2>2, <3>2
        <4> QED  BY <3>4, <4>1, FS_AddElement
      <3>6. Cardinality(Before(x) \union {x}) <= c[y]
        BY <2>1, <2>2, <3>2, <3>3, FS_Subset
      <3> QED  BY <2>2, <2>8, <3>2, <3>5, <3>6
    <2>10. kept \ {x} \subseteq Before(x)
      BY <2>9
    <2>11. IsFiniteSet(kept) /\ Cardinality(kept) \in Nat
      BY RowsFinite
    <2>12. Cardinality(kept \ {x}) = Cardinality(kept) - 1
      BY <2>11, FS_RemoveElement
    <2>13. Cardinality(kept \ {x}) <= c[x]
      <3>1. IsFiniteSet(Before(x)) /\ Cardinality(Before(x)) = c[x]
        BY <2>1, <2>2, <2>3
      <3> QED  BY <2>10, <3>1, FS_Subset
    <2> QED  BY <1>1, <2>2, <2>3, <2>11, <2>12, <2>13
  <1> QED  BY <1>2, <1>3

(* Conjuncts that a step leaves alone.                                       *)
LEMMA StoreRests ==
    ASSUME CaptureIs, InputIs, UNCHANGED <<capture, input, inspool>>,
           \A r \in ResultSetIds : stmt[r] \in {"succeeded", "cancelled"} => stmt'[r] = stmt[r]
    PROVE  CaptureIs' /\ InputIs'
  <1>1. CaptureIs'
    BY DEF CaptureIs
  <1>2. InputIs'
    BY DEF InputIs
  <1> QED  BY <1>1, <1>2

LEMMA GcRests ==
    ASSUME GcIs, gc' = gc, live' \in BOOLEAN, live' => live,
           \A r \in ResultSetIds : stmt'[r] # "none" /\ spool'[r].old => stmt[r] # "none" /\ spool[r].old
    PROVE  GcIs'
  BY DEF GcIs

LEMMA ConsoleRests ==
    ASSUME ResultsIInv, UNCHANGED <<cat, newer, stmt, lane, hurt, unrun, live>>, doomed' \subseteq ResultSetIds,
           spool' \in [ResultSetIds -> Spools],
           \A r \in ResultSetIds : spool'[r].rows \subseteq 1..Limit /\ (Unused(r) => spool'[r] = NoSpool)
    PROVE  TablesAre' /\ LaneIs' /\ Sealed' /\ Ordered(newer, Rows)' /\ NewestIs'
  <1> USE DEF ResultsIInv
  <1>1. TablesAre'
    BY DEF TablesAre, Unused
  <1>2. LaneIs' /\ Sealed'
    BY DEF LaneIs, Sealed
  <1>3. Rows' = Rows
    BY DEF Rows
  <1> HIDE DEF ResultsIInv
  <1>4. Ordered(newer, Rows)'
    BY <1>3 DEF ResultsIInv, Ordered
  <1>5. NewestIs'
    BY DEF ResultsIInv, NewestIs
  <1> QED  BY <1>1, <1>2, <1>4, <1>5

LEMMA NoSpoolIs == NoSpool \in Spools /\ NoSpool.rows = {} /\ ~NoSpool.old
  BY DEF NoSpool, Spools

(* The spools alone move: an eviction, the age of a spool, the collection.   *)
LEMMA SpoolsMove ==
    ASSUME TablesAre, spool' = [r \in ResultSetIds |-> spool'[r]],
           \A r \in ResultSetIds :
              spool'[r] = spool[r] \/ spool'[r] = NoSpool
              \/ (spool[r].present /\ spool'[r] = [spool[r] EXCEPT !.old = TRUE])
    PROVE  /\ spool' \in [ResultSetIds -> Spools]
           /\ \A r \in ResultSetIds : spool'[r].rows \subseteq 1..Limit /\ (Unused(r) => spool'[r] = NoSpool)
  <1> SUFFICES ASSUME NEW r \in ResultSetIds
               PROVE  /\ spool'[r] \in Spools /\ spool'[r].rows \subseteq 1..Limit
                      /\ Unused(r) => spool'[r] = NoSpool
    OBVIOUS
  <1>1. spool[r] \in Spools /\ spool[r].rows \subseteq 1..Limit /\ (Unused(r) => spool[r] = NoSpool)
    BY DEF TablesAre
  <1>2. [spool[r] EXCEPT !.old = TRUE] \in Spools /\ [spool[r] EXCEPT !.old = TRUE].rows = spool[r].rows
    BY <1>1 DEF Spools
  <1>3. spool[r].present => spool[r] # NoSpool
    BY DEF NoSpool
  <1> QED  BY <1>1, <1>2, <1>3, NoSpoolIs

(* The submit.                                                               *)
LEMMA RegisterSound ==
    ASSUME ResultsIInv, NEW r \in ResultSetIds, NEW ok \in BOOLEAN, Register(r, ok)
    PROVE  ResultsIInv'
  <1> DEFINE row == [state |-> "streaming", total |-> -1]
  <1> USE DEF ResultsIInv
  <1>1. /\ live /\ stmt[r] = "none" /\ \A x \in ResultSetIds : stmt[x] # "registered"
        /\ UNCHANGED <<spool, lane, hurt, doomed, live, gc, capture, input, inspool>>
        /\ \/ /\ cat' = [cat EXCEPT ![r] = row] /\ newer' = Touched(r) /\ unrun' = unrun
              /\ stmt' = [stmt EXCEPT ![r] = "registered"]
           \/ /\ stmt' = [stmt EXCEPT ![r] = "failed"] /\ unrun' = unrun \union {r}
              /\ UNCHANGED <<cat, newer>>
    BY DEF Register, LockFree, storeVars
  <1>2. /\ stmt' \in [ResultSetIds -> StmtStates] /\ stmt'[r] \in {"registered", "failed"}
        /\ \A x \in ResultSetIds \ {r} : stmt'[x] = stmt[x]
    BY <1>1 DEF TablesAre, StmtStates, Terminal
  <1>3. cat[r].state = "none" /\ r \notin Rows /\ spool[r] = NoSpool /\ r \notin unrun
    BY <1>1 DEF TablesAre, Rows, Unused, Terminal
  <1>4. lane # IdleLane => lane.rs # r
    BY <1>1 DEF LaneIs
  <1>5. row \in CatRows /\ row.state = "streaming"
    BY DEF CatRows
  <1> HIDE DEF row
  <1>6. cat' \in [ResultSetIds -> CatRows] /\ \A x \in ResultSetIds \ {r} : cat'[x] = cat[x]
    BY <1>1, <1>5 DEF TablesAre
  <1>7. \/ stmt'[r] = "registered" /\ cat'[r].state = "streaming" /\ unrun' = unrun
        \/ stmt'[r] = "failed" /\ cat'[r] = cat[r] /\ unrun' = unrun \union {r}
    BY <1>1, <1>5 DEF TablesAre
  <1>8. TablesAre'
    <2> SUFFICES ASSUME NEW x \in ResultSetIds
                 PROVE  /\ spool'[x].rows \subseteq 1..Limit
                        /\ stmt'[x] = "none" => cat'[x].state = "none"
                        /\ cat'[x].state = "none" => stmt'[x] = "none" \/ x \in unrun'
                        /\ x \in unrun' => stmt'[x] \in Terminal
                        /\ Unused(x)' => spool'[x] = NoSpool
      BY <1>1, <1>2, <1>6 DEF TablesAre
    <2>1. CASE x = r
      BY <1>1, <1>3, <1>7, <2>1, NoSpoolIs DEF Terminal
    <2>2. CASE x # r
      BY <1>1, <1>2, <1>6, <1>7, <2>2 DEF TablesAre, Unused
    <2> QED  BY <2>1, <2>2
  <1>9. LaneIs'
    BY <1>1, <1>2, <1>4, <1>6, <1>7 DEF LaneIs, IdleLane
  <1>10. Sealed'
    BY <1>1, <1>2, <1>6, <1>7 DEF Sealed, Terminal
  <1>11. Ordered(newer, Rows)'
    <2>1. CASE newer' = newer /\ cat' = cat
      BY <2>1 DEF Ordered, Rows
    <2>2. CASE newer' = Touched(r) /\ cat'[r].state = "streaming"
      <3>1. Rows' = Rows \union {r}
        BY <1>6, <2>2 DEF Rows
      <3>2. Ordered(newer', Rows \union {r})
        BY <2>2, TouchedOrder
      <3> QED  BY <3>1, <3>2 DEF Ordered
    <2> QED  BY <1>1, <1>5, <1>7, <2>1, <2>2 DEF TablesAre
  <1>12. NewestIs'
    <2>1. \A y \in ResultSetIds : stmt'[y] = "registered" =>
             y = r /\ newer' = Touched(r) /\ cat'[y].state = "streaming"
      BY <1>1, <1>2, <1>7
    <2>2. \A x \in ResultSetIds : <<x, r>> \notin Touched(r)
      BY TouchedOrder
    <2>3. \A y, x \in ResultSetIds : stmt'[y] = "registered" => <<x, y>> \notin newer'
      BY <2>1, <2>2
    <2> QED  BY <2>1, <2>3 DEF NewestIs
  <1>13. GcIs'
    BY <1>1, <1>2, <1>3, NoSpoolIs DEF GcIs
  <1>14. CaptureIs' /\ InputIs'
    BY <1>1, <1>2, StoreRests
  <1> QED  BY <1>8, <1>9, <1>10, <1>11, <1>12, <1>13, <1>14

(* What the eviction closes, and what it leaves.                             *)
LEMMA EvictsFacts ==
    ASSUME ResultsIInv, NEW r \in ResultSetIds, Evicts(r, TRUE)
    PROVE  /\ stmt[r] = "registered" /\ stmt' = [stmt EXCEPT ![r] = "accepted"]
           /\ doomed' \subseteq ResultSetIds
           /\ UNCHANGED <<newer, spool, lane, hurt, unrun, live, gc, capture, input, inspool>>
           /\ cat' \in [ResultSetIds -> CatRows]
           /\ \A x \in ResultSetIds :
                 cat'[x] = cat[x] \/ (cat[x].state \notin {"none", "closed"} /\ cat'[x].state = "closed")
           /\ Cardinality({x \in ResultSetIds : cat'[x].state \in {"streaming", "complete"}}) <= Keep
           /\ cat'[r] = cat[r] \/ (Keep = 1 /\ lane # IdleLane /\ <<lane.rs, r>> \in newer)
  <1> USE DEF ResultsIInv
  <1> DEFINE out == EvictedFrom(newer, cat)
             open == {x \in ResultSetIds : IsOpen(cat[x])}
             kept == {x \in ResultSetIds : cat'[x].state \in {"streaming", "complete"}}
  <1>1. /\ stmt[r] = "registered" /\ stmt' = [stmt EXCEPT ![r] = "accepted"] /\ doomed' = out
        /\ cat' = [x \in ResultSetIds |-> IF x \in out THEN [cat[x] EXCEPT !.state = "closed"] ELSE cat[x]]
        /\ UNCHANGED <<newer, spool, lane, hurt, unrun, live, gc, capture, input, inspool>>
    BY DEF Evicts, storeVars
  <1>2. \A x \in out : x \in open /\ Cardinality({y \in open : <<y, x>> \in newer}) >= Keep
    BY DEF EvictedFrom
  <1>3. \A x \in open : x \notin out => ~(Cardinality({y \in open : <<y, x>> \in newer}) >= Keep)
    BY DEF EvictedFrom
  <1>4. open \subseteq Rows /\ Rows \subseteq ResultSetIds
    BY DEF IsOpen, Rows
  <1> HIDE DEF out
  <1>5. \A x \in ResultSetIds : cat'[x] = IF x \in out THEN [cat[x] EXCEPT !.state = "closed"] ELSE cat[x]
    BY <1>1
  <1>6. \A x \in ResultSetIds : /\ cat[x] \in CatRows /\ [cat[x] EXCEPT !.state = "closed"] \in CatRows
                                 /\ [cat[x] EXCEPT !.state = "closed"].state = "closed"
    BY DEF TablesAre, CatRows
  <1>7. cat' \in [ResultSetIds -> CatRows]
    BY <1>1, <1>6
  <1>8. \A x \in ResultSetIds :
           cat'[x] = cat[x] \/ (cat[x].state \notin {"none", "closed"} /\ cat'[x].state = "closed")
    BY <1>2, <1>5, <1>6 DEF IsOpen
  <1>9. kept \subseteq open /\ \A x \in kept : x \notin out
    <2> SUFFICES ASSUME NEW x \in kept PROVE x \in open /\ x \notin out
      OBVIOUS
    <2>1. x \notin out
      BY <1>5, <1>6
    <2>2. cat'[x] = cat[x]
      BY <1>5, <2>1
    <2> QED  BY <2>1, <2>2 DEF IsOpen
  <1>10. cat'[r] = cat[r] \/ (Keep = 1 /\ lane # IdleLane /\ <<lane.rs, r>> \in newer)
    <2>1. CASE r \notin out
      BY <1>5, <2>1
    <2>2. CASE r \in out
      <3> DEFINE before == {y \in open : <<y, r>> \in newer}
      <3>1. Cardinality(before) >= Keep
        BY <1>2, <2>2
      <3>2. \A y \in before : y \in ResultSetIds /\ <<y, r>> \in newer
        OBVIOUS
      <3>3. \A y \in before : lane # IdleLane /\ y = lane.rs
        BY <1>1, <3>2 DEF NewestIs
      <3> HIDE DEF before
      <3>4. Keep \in Nat \ {0}
        BY ResultBounds
      <3>5. before # {}
        BY <3>1, <3>4, FS_EmptySet
      <3>6. before = {lane.rs}
        BY <3>3, <3>5
      <3>7. Cardinality(before) = 1
        BY <3>6, FS_Singleton
      <3> QED  BY <3>1, <3>2, <3>3, <3>4, <3>6, <3>7
    <2> QED  BY <2>1, <2>2
  <1>11. doomed' \subseteq ResultSetIds
    BY <1>1, <1>2, <1>4
  <1> HIDE DEF open, kept
  <1>12. Cardinality(kept) <= Keep
    <2>1. \A x \in kept : ~(Cardinality({y \in open : <<y, x>> \in newer}) >= Keep)
      BY <1>3, <1>9
    <2> QED  BY <1>4, <1>9, <2>1, KeptAreFew
  <1> QED  BY <1>1, <1>7, <1>8, <1>10, <1>11, <1>12 DEF kept

(* The rows keep their place, and a row that is closed is not streaming.     *)
LEMMA EvictsSound ==
    ASSUME ResultsIInv, NEW r \in ResultSetIds, NEW ok \in BOOLEAN, Evicts(r, ok)
    PROVE  ResultsIInv'
  <1> USE DEF ResultsIInv
  <1>1. /\ stmt[r] = "registered" /\ doomed' \subseteq ResultSetIds
        /\ UNCHANGED <<newer, spool, lane, hurt, live, gc, capture, input, inspool>>
        /\ cat' \in [ResultSetIds -> CatRows]
        /\ \A x \in ResultSetIds :
              cat'[x] = cat[x] \/ (cat[x].state \notin {"none", "closed"} /\ cat'[x].state = "closed")
        /\ \/ stmt' = [stmt EXCEPT ![r] = "accepted"] /\ unrun' = unrun
           \/ stmt' = [stmt EXCEPT ![r] = "failed"] /\ unrun' = unrun \union {r}
    <2>1. CASE ok = TRUE
      BY <2>1, EvictsFacts
    <2>2. CASE ok = FALSE
      BY <2>2 DEF Evicts, storeVars, TablesAre
    <2> QED  BY <2>1, <2>2
  <1>2. /\ stmt' \in [ResultSetIds -> StmtStates] /\ \A x \in ResultSetIds \ {r} : stmt'[x] = stmt[x]
        /\ \/ stmt'[r] = "accepted" /\ unrun' = unrun
           \/ stmt'[r] = "failed" /\ unrun' = unrun \union {r}
    BY <1>1 DEF TablesAre, StmtStates, Terminal
  <1>3. spool[r] = NoSpool /\ r \notin unrun
    BY <1>1 DEF TablesAre, Unused, Terminal
  <1>4. lane # IdleLane => lane.rs # r
    BY <1>1 DEF LaneIs
  <1>5. TablesAre'
    <2> SUFFICES ASSUME NEW x \in ResultSetIds
                 PROVE  /\ spool'[x].rows \subseteq 1..Limit
                        /\ stmt'[x] = "none" => cat'[x].state = "none"
                        /\ cat'[x].state = "none" => stmt'[x] = "none" \/ x \in unrun'
                        /\ x \in unrun' => stmt'[x] \in Terminal
                        /\ Unused(x)' => spool'[x] = NoSpool
      BY <1>1, <1>2 DEF TablesAre
    <2>0. cat'[x].state = "none" <=> cat[x].state = "none"
      BY <1>1
    <2>1. CASE x = r
      BY <1>1, <1>2, <1>3, <2>0, <2>1, NoSpoolIs DEF Terminal, TablesAre
    <2>2. CASE x # r
      BY <1>1, <1>2, <2>0, <2>2 DEF TablesAre, Unused
    <2> QED  BY <2>1, <2>2
  <1>6. LaneIs'
    BY <1>1, <1>2, <1>4 DEF LaneIs, IdleLane
  <1>7. Sealed'
    BY <1>1, <1>2 DEF Sealed, Terminal
  <1>8. Ordered(newer, Rows)'
    <2>1. Rows' = Rows
      BY <1>1 DEF Rows
    <2> QED  BY <1>1, <2>1 DEF Ordered
  <1>9. NewestIs'
    <2>1. stmt'[r] # "registered"
      BY <1>2
    <2>2. \A x \in ResultSetIds : stmt[x] = "registered" => x = r
      BY <1>1 DEF NewestIs
    <2>3. \A x \in ResultSetIds : stmt'[x] # "registered"
      BY <1>2, <2>1, <2>2
    <2> QED  BY <2>3 DEF NewestIs
  <1>10. GcIs'
    BY <1>1, <1>2, <1>3, NoSpoolIs DEF GcIs
  <1>11. CaptureIs' /\ InputIs'
    BY <1>1, <1>2, StoreRests
  <1> QED  BY <1>5, <1>6, <1>7, <1>8, <1>9, <1>10, <1>11

(* A cancel in the queue leaves the row and the missing spool as they are.   *)
LEMMA CancelQueuedSound ==
    ASSUME ResultsIInv, NEW r \in ResultSetIds, CancelQueued(r)
    PROVE  ResultsIInv'
  <1> USE DEF ResultsIInv
  <1>1. /\ stmt[r] = "accepted" /\ stmt' = [stmt EXCEPT ![r] = "cancelled"] /\ unrun' = unrun \union {r}
        /\ UNCHANGED <<cat, newer, spool, lane, hurt, doomed, live, gc, capture, input, inspool>>
    BY DEF CancelQueued, storeVars
  <1>2. /\ stmt' \in [ResultSetIds -> StmtStates] /\ stmt'[r] = "cancelled"
        /\ \A x \in ResultSetIds \ {r} : stmt'[x] = stmt[x]
    BY <1>1 DEF TablesAre, StmtStates, Terminal
  <1>3. spool[r] = NoSpool
    BY <1>1 DEF TablesAre, Unused
  <1>4. TablesAre'
    BY <1>1, <1>2, <1>3 DEF TablesAre, Unused, Terminal
  <1>5. LaneIs'
    BY <1>1, <1>2 DEF LaneIs, IdleLane
  <1>6. Sealed'
    BY <1>1, <1>2 DEF Sealed
  <1>7. Ordered(newer, Rows)'
    BY <1>1 DEF Ordered, Rows
  <1>8. NewestIs'
    BY <1>1, <1>2 DEF NewestIs
  <1>9. GcIs'
    BY <1>1, <1>2 DEF GcIs
  <1>10. CaptureIs' /\ InputIs'
    BY <1>1, <1>2, StoreRests
  <1> QED  BY <1>4, <1>5, <1>6, <1>7, <1>8, <1>9, <1>10

LEMMA DeleteSound ==
    ASSUME ResultsIInv, NEW r \in ResultSetIds, NEW ok \in BOOLEAN, DeleteEvicted(r, ok)
    PROVE  ResultsIInv'
  <1> USE DEF ResultsIInv
  <1>1. /\ doomed' = doomed \ {r} /\ spool' = IF ok THEN [spool EXCEPT ![r] = NoSpool] ELSE spool
        /\ UNCHANGED <<cat, newer, stmt, lane, hurt, unrun, live, gc, capture, input, inspool>>
    BY DEF DeleteEvicted, storeVars
  <1>2. spool' = [x \in ResultSetIds |-> spool'[x]] /\ \A x \in ResultSetIds : spool'[x] = spool[x] \/ spool'[x] = NoSpool
    BY <1>1 DEF TablesAre
  <1>3. /\ spool' \in [ResultSetIds -> Spools]
        /\ \A x \in ResultSetIds : spool'[x].rows \subseteq 1..Limit /\ (Unused(x) => spool'[x] = NoSpool)
    BY <1>2, SpoolsMove
  <1>4. doomed' \subseteq ResultSetIds
    BY <1>1 DEF TablesAre
  <1>5. GcIs'
    BY <1>1, <1>2, NoSpoolIs DEF GcIs
  <1>6. CaptureIs' /\ InputIs'
    BY <1>1, StoreRests
  <1> HIDE DEF ResultsIInv
  <1>7. TablesAre' /\ LaneIs' /\ Sealed' /\ Ordered(newer, Rows)' /\ NewestIs'
    BY <1>1, <1>3, <1>4, ConsoleRests
  <1> QED  BY <1>5, <1>6, <1>7 DEF ResultsIInv

(* The lane.                                                                 *)
LEMMA TakesSound ==
    ASSUME ResultsIInv, NEW r \in ResultSetIds, NEW n \in 0..MaxRows, LaneTakes(r, n)
    PROVE  ResultsIInv'
  <1> USE DEF ResultsIInv
  <1>0. \A x \in ResultSetIds : stmt[x] # "registered"
    BY DEF LaneTakes, LockFree
  <1>1. /\ lane = IdleLane /\ stmt[r] = "accepted" /\ stmt' = [stmt EXCEPT ![r] = "running"]
        /\ lane' = [rs |-> r, size |-> n, read |-> 0, phase |-> "read", outcome |-> "none"]
        /\ UNCHANGED <<cat, newer, spool, hurt, doomed, unrun, live, gc, capture, input, inspool>>
    BY DEF LaneTakes, storeVars
  <1>2. /\ stmt' \in [ResultSetIds -> StmtStates] /\ stmt'[r] = "running"
        /\ \A x \in ResultSetIds \ {r} : stmt'[x] = stmt[x]
    BY <1>1 DEF TablesAre, StmtStates
  <1>3. TablesAre'
    BY <1>1, <1>2 DEF TablesAre, Unused, Terminal
  <1>4. LaneIs'
    <2>1. lane' \in Lanes
      BY <1>1, ResultBounds DEF Lanes
    <2>2. r \notin unrun
      BY <1>1 DEF TablesAre, Terminal
    <2> QED  BY <1>1, <1>2, <2>1, <2>2 DEF LaneIs, IdleLane
  <1>5. Sealed'
    BY <1>1, <1>2 DEF Sealed, Terminal
  <1>6. Ordered(newer, Rows)'
    BY <1>1 DEF Ordered, Rows
  <1>7. GcIs'
    BY <1>1, <1>2 DEF GcIs
  <1>8. CaptureIs' /\ InputIs'
    BY <1>1, <1>2, StoreRests
  <1>9. NewestIs'
    BY <1>0, <1>2 DEF NewestIs
  <1> QED  BY <1>3, <1>4, <1>5, <1>6, <1>7, <1>8, <1>9

(* What the lane does to the spool of its statement.                         *)
LEMMA AppendedIs ==
    ASSUME NEW s \in Spools, s.rows \subseteq 1..Limit, NEW row, row \in 1..MaxRows, row \in 1..Limit
    PROVE  Appended(s, row) \in Spools /\ Appended(s, row).rows \subseteq 1..Limit /\ ~Appended(s, row).old
  <1> DEFINE full == s.trunc \/ Cardinality(s.rows) >= SpoolMax
             cut == s.trunc \/ Cardinality(s.rows) + 1 >= SpoolMax
             rows == IF full THEN s.rows ELSE s.rows \union {row}
             new == [present |-> TRUE, old |-> FALSE, rows |-> rows, trunc |-> cut]
  <1>1. Appended(s, row) = new
    BY DEF Appended
  <1>2. s.rows \in SUBSET (1..MaxRows)
    BY DEF Spools
  <1>3. rows \in SUBSET (1..MaxRows) /\ rows \subseteq 1..Limit
    BY <1>2
  <1>4. cut \in BOOLEAN
    OBVIOUS
  <1> HIDE DEF rows, cut, full
  <1>5. new \in Spools /\ new.rows \subseteq 1..Limit /\ new.old = FALSE
    BY <1>3, <1>4 DEF Spools
  <1> HIDE DEF new
  <1> QED  BY <1>1, <1>5

LEMMA LaneFacts ==
    ASSUME ResultsIInv, lane.phase # "idle"
    PROVE  /\ lane # IdleLane /\ lane.rs \in ResultSetIds /\ lane \in Lanes /\ stmt[lane.rs] \in {"running", "failed"}
           /\ cat[lane.rs].state # "none" /\ cat[lane.rs] \in CatRows /\ spool[lane.rs] \in Spools
           /\ spool[lane.rs].rows \subseteq 1..Limit
           /\ lane.read \in 0..Limit /\ lane.size \in 0..MaxRows
           /\ stmt[lane.rs] = "running" \/ lane.rs \in hurt
           /\ lane.rs \notin unrun /\ ~Unused(lane.rs)
  <1>1. lane # IdleLane /\ lane.rs \in ResultSetIds /\ lane \in Lanes /\ stmt[lane.rs] \in {"running", "failed"}
        /\ (stmt[lane.rs] = "running" \/ lane.rs \in hurt) /\ lane.rs \notin unrun
    BY DEF ResultsIInv, LaneIs
  <1>2. cat[lane.rs].state # "none" /\ cat[lane.rs] \in CatRows /\ spool[lane.rs] \in Spools /\ spool[lane.rs].rows \subseteq 1..Limit
    BY <1>1 DEF ResultsIInv, TablesAre
  <1>3. lane.read \in 0..Limit /\ lane.size \in 0..MaxRows
    BY <1>1 DEF Lanes
  <1>4. ~Unused(lane.rs)
    BY <1>1 DEF Unused
  <1> QED  BY <1>1, <1>2, <1>3, <1>4

(* The lane goes on with its statement.                                      *)
LEMMA LaneMoves ==
    ASSUME ResultsIInv, lane.phase # "idle", lane' \in Lanes, lane'.rs = lane.rs, lane'.phase # "idle",
           UNCHANGED <<stmt, unrun, live>>, hurt \subseteq hurt',
           lane'.phase \in {"seal", "settle"} => lane'.outcome \in Terminal,
           lane'.phase = "settle" => cat'[lane.rs].state # "streaming" \/ lane.rs \in hurt'
    PROVE  LaneIs'
  <1>1. /\ lane.rs \in ResultSetIds /\ lane.rs \notin unrun
        /\ stmt[lane.rs] = "running" \/ (stmt[lane.rs] = "failed" /\ ~live /\ lane.rs \in hurt)
    BY DEF ResultsIInv, LaneIs
  <1>2. lane' # IdleLane
    BY DEF IdleLane
  <1> QED  BY <1>1, <1>2 DEF LaneIs

(* The lane writes its spool and goes on.                                    *)
LEMMA SpoolWritten ==
    ASSUME ResultsIInv, lane.phase # "idle", NEW s \in Spools, s.rows \subseteq 1..Limit, ~s.old,
           spool' = [spool EXCEPT ![lane.rs] = s],
           UNCHANGED <<cat, newer, stmt, hurt, doomed, unrun, live, gc, capture, input, inspool>>, LaneIs',
           lane' # IdleLane, lane'.rs = lane.rs
    PROVE  ResultsIInv'
  <1>1. lane.rs \in ResultSetIds /\ ~Unused(lane.rs) /\ lane # IdleLane
    BY LaneFacts
  <1>2. /\ spool'[lane.rs] = s /\ \A x \in ResultSetIds \ {lane.rs} : spool'[x] = spool[x]
        /\ spool' \in [ResultSetIds -> Spools]
    BY <1>1 DEF ResultsIInv, TablesAre
  <1> USE DEF ResultsIInv
  <1>3. TablesAre'
    BY <1>1, <1>2 DEF TablesAre, Unused
  <1>4. Sealed'
    BY DEF Sealed
  <1>5. Ordered(newer, Rows)'
    BY DEF Ordered, Rows
  <1>6. GcIs'
    BY <1>1, <1>2 DEF GcIs
  <1>7. CaptureIs' /\ InputIs'
    BY StoreRests
  <1>8. NewestIs'
    BY <1>1 DEF NewestIs
  <1> QED  BY <1>3, <1>4, <1>5, <1>6, <1>7, <1>8

LEMMA AppendsSound ==
    ASSUME ResultsIInv, LaneAppends
    PROVE  ResultsIInv'
  <1>1. /\ lane.phase = "read" /\ lane.read < lane.size /\ lane.read < Limit
        /\ spool' = [spool EXCEPT ![lane.rs] = Appended(@, lane.read + 1)]
        /\ lane' = [lane EXCEPT !.read = @ + 1, !.phase = "publish"]
        /\ UNCHANGED <<cat, newer, stmt, hurt, doomed, unrun, live, gc, capture, input, inspool>>
    BY DEF LaneAppends, MayAppend, storeVars
  <1>2. lane.rs \in ResultSetIds /\ lane \in Lanes /\ spool[lane.rs] \in Spools /\ spool[lane.rs].rows \subseteq 1..Limit
        /\ lane.read \in 0..Limit /\ lane.size \in 0..MaxRows
    BY <1>1, LaneFacts
  <1>3. lane.read + 1 \in 1..MaxRows /\ lane.read + 1 \in 1..Limit /\ lane.read + 1 \in 0..Limit
    BY <1>1, <1>2, ResultBounds
  <1> DEFINE s == Appended(spool[lane.rs], lane.read + 1)
  <1>4. s \in Spools /\ s.rows \subseteq 1..Limit /\ ~s.old
    BY <1>2, <1>3, AppendedIs
  <1>5. spool' = [spool EXCEPT ![lane.rs] = s]
    BY <1>1
  <1>6. lane' \in Lanes /\ lane'.rs = lane.rs /\ lane'.phase = "publish" /\ lane'.outcome = lane.outcome
    BY <1>1, <1>2, <1>3 DEF Lanes
  <1>7. LaneIs'
    BY <1>1, <1>6, LaneMoves
  <1> HIDE DEF s
  <1>8. lane' # IdleLane
    BY <1>6 DEF IdleLane
  <1> QED  BY <1>1, <1>4, <1>5, <1>6, <1>7, <1>8, SpoolWritten

LEMMA StopsSound ==
    ASSUME ResultsIInv, LaneStops
    PROVE  ResultsIInv'
  <1>1. /\ lane.phase = "read" /\ UNCHANGED <<cat, newer, stmt, hurt, doomed, unrun, live, gc, capture, input, inspool>>
        /\ \E o \in Terminal : lane' = [lane EXCEPT !.phase = "seal", !.outcome = o]
        /\ \/ spool' = spool
           \/ spool' = [spool EXCEPT ![lane.rs] = [@ EXCEPT !.present = TRUE, !.trunc = TRUE, !.old = FALSE]]
    BY DEF LaneStops, storeVars, Terminal
  <1>2. lane.rs \in ResultSetIds /\ lane \in Lanes /\ spool[lane.rs] \in Spools /\ spool[lane.rs].rows \subseteq 1..Limit
    BY <1>1, LaneFacts
  <1>3. lane' \in Lanes /\ lane'.rs = lane.rs /\ lane'.phase = "seal" /\ lane'.outcome \in Terminal
    BY <1>1, <1>2 DEF Lanes
  <1>4. LaneIs'
    BY <1>1, <1>3, LaneMoves
  <1>7. lane' # IdleLane /\ lane # IdleLane
    <2>1. IdleLane.phase = "idle" /\ lane.phase = "read"
      BY <1>1 DEF IdleLane
    <2> QED  BY <1>3, <2>1
  <1>5. CASE spool' = spool
    <2>1. /\ spool' \in [ResultSetIds -> Spools]
          /\ \A r \in ResultSetIds : spool'[r].rows \subseteq 1..Limit /\ (Unused(r)' => spool'[r] = NoSpool)
      BY <1>1, <1>5 DEF ResultsIInv, TablesAre, Unused
    <2>2. TablesAre' /\ Sealed' /\ Ordered(newer, Rows)'
      BY <1>1, <1>5 DEF ResultsIInv, TablesAre, Unused, Sealed, Ordered, Rows
    <2>3. GcIs'
      BY <1>1, <1>5 DEF ResultsIInv, GcIs
    <2>4. CaptureIs' /\ InputIs'
      BY <1>1, StoreRests DEF ResultsIInv
    <2>5. NewestIs'
      BY <1>1, <1>3, <1>7 DEF ResultsIInv, NewestIs
    <2> QED  BY <1>4, <2>2, <2>3, <2>4, <2>5 DEF ResultsIInv
  <1>6. CASE spool' = [spool EXCEPT ![lane.rs] = [@ EXCEPT !.present = TRUE, !.trunc = TRUE, !.old = FALSE]]
    <2> DEFINE s == [spool[lane.rs] EXCEPT !.present = TRUE, !.trunc = TRUE, !.old = FALSE]
    <2>1. s \in Spools /\ s.rows \subseteq 1..Limit /\ s.old = FALSE
      BY <1>2 DEF Spools
    <2>2. spool' = [spool EXCEPT ![lane.rs] = s]
      BY <1>6
    <2> HIDE DEF s
    <2> QED  BY <1>1, <1>3, <1>4, <1>7, <2>1, <2>2, SpoolWritten
  <1> QED  BY <1>1, <1>5, <1>6

(* The lane writes the row of its result set.                                *)
LEMMA RowWritten ==
    ASSUME ResultsIInv, lane.phase # "idle", NEW row \in CatRows, row.state \in {"streaming", "complete"},
           row.state = "streaming" => stmt[lane.rs] = "running" \/ lane.rs \in hurt,
           cat' = [cat EXCEPT ![lane.rs] = row], newer' = Touched(lane.rs),
           UNCHANGED <<spool, stmt, hurt, doomed, unrun, live, gc, capture, input, inspool>>, LaneIs',
           lane' # IdleLane, lane'.rs = lane.rs
    PROVE  ResultsIInv'
  <1>1. /\ lane.rs \in ResultSetIds /\ ~Unused(lane.rs) /\ cat[lane.rs].state # "none"
        /\ stmt[lane.rs] # "none"
    BY LaneFacts
  <1> USE DEF ResultsIInv
  <1>2. /\ cat'[lane.rs] = row /\ \A x \in ResultSetIds \ {lane.rs} : cat'[x] = cat[x]
        /\ cat' \in [ResultSetIds -> CatRows]
    BY <1>1 DEF TablesAre
  <1>3. TablesAre'
    BY <1>1, <1>2 DEF TablesAre, Unused
  <1>4. Sealed'
    BY <1>1, <1>2 DEF Sealed, Terminal
  <1>5. Rows' = Rows /\ lane.rs \in Rows
    BY <1>1, <1>2 DEF Rows
  <1>6. Ordered(newer', Rows)
    <2>1. Rows \union {lane.rs} = Rows
      BY <1>5
    <2> QED  BY <1>1, <2>1, TouchedOrder
  <1>7. Ordered(newer, Rows)'
    BY <1>5, <1>6 DEF Ordered
  <1>8. GcIs'
    BY DEF GcIs
  <1>9. CaptureIs' /\ InputIs'
    BY StoreRests
  <1>10. NewestIs'
    <2> SUFFICES ASSUME NEW r \in ResultSetIds, NEW x \in ResultSetIds, stmt[r] = "registered"
                 PROVE  /\ cat'[r].state = "streaming" /\ (stmt[x] = "registered" => x = r)
                        /\ <<x, r>> \in newer' => x = lane.rs
      BY DEF NewestIs
    <2>1. <<x, r>> \in newer' => <<x, r>> \in newer \/ x = lane.rs
      BY DEF Touched
    <2>2. cat'[r] = cat[r]
      BY <1>1, <1>2 DEF LaneIs, IdleLane
    <2> QED  BY <2>1, <2>2 DEF NewestIs
  <1> QED  BY <1>3, <1>4, <1>7, <1>8, <1>9, <1>10

LEMMA PublishesSound ==
    ASSUME ResultsIInv, LanePublishes
    PROVE  ResultsIInv'
  <1> DEFINE row == [state |-> "streaming", total |-> -1]
  <1>1. /\ lane.phase = "publish" /\ cat' = [cat EXCEPT ![lane.rs] = row] /\ newer' = Touched(lane.rs)
        /\ lane' = [lane EXCEPT !.phase = "read"]
        /\ UNCHANGED <<spool, stmt, hurt, doomed, unrun, live, gc, capture, input, inspool>>
    BY DEF LanePublishes, storeVars
  <1>2. lane \in Lanes /\ (stmt[lane.rs] = "running" \/ lane.rs \in hurt)
    BY <1>1, LaneFacts
  <1>3. lane' \in Lanes /\ lane'.rs = lane.rs /\ lane'.phase = "read"
    BY <1>1, <1>2 DEF Lanes
  <1>4. LaneIs'
    BY <1>1, <1>3, LaneMoves
  <1>5. row \in CatRows /\ row.state = "streaming"
    BY DEF CatRows
  <1> HIDE DEF row
  <1>6. lane' # IdleLane
    BY <1>3 DEF IdleLane
  <1> QED  BY <1>1, <1>2, <1>3, <1>4, <1>5, <1>6, RowWritten

LEMMA SealsSound ==
    ASSUME ResultsIInv, NEW ok \in BOOLEAN, LaneSeals(ok)
    PROVE  ResultsIInv'
  <1> DEFINE total == IF spool[lane.rs].trunc \/ OutputLimitApplied THEN -1 ELSE Cardinality(spool[lane.rs].rows)
             row == [state |-> "complete", total |-> total]
  <1>1. /\ lane.phase = "seal" /\ lane' = [lane EXCEPT !.phase = "settle"]
        /\ UNCHANGED <<spool, stmt, doomed, unrun, live, gc, capture, input, inspool>>
        /\ \/ cat' = [cat EXCEPT ![lane.rs] = row] /\ newer' = Touched(lane.rs) /\ hurt' = hurt
           \/ hurt' = hurt \union {lane.rs} /\ cat' = cat /\ newer' = newer
    BY DEF LaneSeals, storeVars
  <1>2. lane \in Lanes /\ lane.rs \in ResultSetIds /\ spool[lane.rs] \in Spools /\ lane.outcome \in Terminal
    BY <1>1, LaneFacts DEF ResultsIInv, LaneIs
  <1>3. lane' \in Lanes /\ lane'.rs = lane.rs /\ lane'.phase = "settle" /\ lane'.outcome = lane.outcome
    BY <1>1, <1>2 DEF Lanes
  <1>4. total \in Int
    <2>1. spool[lane.rs].rows \subseteq 1..MaxRows /\ IsFiniteSet(1..MaxRows)
      BY <1>2, ResultBounds, FS_Interval DEF Spools
    <2>2. Cardinality(spool[lane.rs].rows) \in Nat
      BY <2>1, FS_Subset, FS_CardinalityType
    <2> QED  BY <2>2
  <1> HIDE DEF total
  <1>5. row \in CatRows /\ row.state = "complete"
    BY <1>4 DEF CatRows
  <1> HIDE DEF row
  <1>8. lane' # IdleLane /\ lane # IdleLane
    BY <1>1, <1>3 DEF IdleLane
  <1>6. CASE cat' = [cat EXCEPT ![lane.rs] = row] /\ newer' = Touched(lane.rs) /\ hurt' = hurt
    <2>1. cat'[lane.rs].state = "complete"
      BY <1>2, <1>5, <1>6 DEF ResultsIInv, TablesAre
    <2>2. LaneIs'
      BY <1>1, <1>2, <1>3, <1>6, <2>1, LaneMoves
    <2> QED  BY <1>1, <1>3, <1>5, <1>6, <1>8, <2>2, RowWritten
  <1>7. CASE hurt' = hurt \union {lane.rs} /\ cat' = cat /\ newer' = newer
    <2>1. LaneIs'
      BY <1>1, <1>2, <1>3, <1>7, LaneMoves
    <2>2. TablesAre' /\ Ordered(newer, Rows)'
      BY <1>1, <1>7 DEF ResultsIInv, TablesAre, Unused, Ordered, Rows
    <2>3. Sealed'
      BY <1>1, <1>7 DEF ResultsIInv, Sealed
    <2>4. GcIs'
      BY <1>1 DEF ResultsIInv, GcIs
    <2>5. CaptureIs' /\ InputIs'
      BY <1>1, StoreRests DEF ResultsIInv
    <2>6. NewestIs'
      BY <1>1, <1>3, <1>7, <1>8 DEF ResultsIInv, NewestIs
    <2> QED  BY <2>1, <2>2, <2>3, <2>4, <2>5, <2>6 DEF ResultsIInv
  <1> QED  BY <1>1, <1>6, <1>7

LEMMA SettlesSound ==
    ASSUME ResultsIInv, LaneSettles
    PROVE  ResultsIInv'
  <1>0. \A x \in ResultSetIds : stmt[x] # "registered"
    BY DEF LaneSettles, LockFree
  <1>1. /\ lane.phase = "settle" /\ lane' = IdleLane
        /\ stmt' = IF stmt[lane.rs] \in Terminal THEN stmt ELSE [stmt EXCEPT ![lane.rs] = lane.outcome]
        /\ UNCHANGED <<cat, newer, spool, hurt, doomed, unrun, live, gc, capture, input, inspool>>
    BY DEF LaneSettles, MaySettle, storeVars
  <1>2. /\ lane.rs \in ResultSetIds /\ lane.outcome \in Terminal /\ stmt[lane.rs] \in {"running", "failed"}
        /\ cat[lane.rs].state # "streaming" \/ lane.rs \in hurt
    BY <1>1, LaneFacts DEF ResultsIInv, LaneIs
  <1> USE DEF ResultsIInv
  <1>3. /\ stmt' \in [ResultSetIds -> StmtStates] /\ stmt'[lane.rs] \in Terminal
        /\ \A x \in ResultSetIds \ {lane.rs} : stmt'[x] = stmt[x]
    BY <1>1, <1>2 DEF TablesAre, StmtStates
  <1>4. "none" \notin Terminal /\ "running" \notin Terminal
    BY DEF Terminal
  <1>5. TablesAre'
    <2>1. \A r \in ResultSetIds :
             /\ stmt'[r] = "none" <=> stmt[r] = "none"
             /\ Unused(r)' <=> Unused(r)
      BY <1>1, <1>2, <1>3, LaneFacts DEF Unused, Terminal
    <2>2. \A r \in ResultSetIds : r \in unrun' => stmt'[r] \in Terminal
      BY <1>1, <1>3 DEF TablesAre
    <2>3. \A r \in ResultSetIds :
             /\ cat[r].state = "none" => stmt'[r] = "none" \/ r \in unrun
             /\ stmt'[r] = "none" => cat[r].state = "none"
      BY <2>1 DEF TablesAre
    <2>4. \A r \in ResultSetIds : Unused(r)' => spool[r] = NoSpool
      BY <2>1 DEF TablesAre
    <2> QED  BY <1>1, <1>3, <2>2, <2>3, <2>4 DEF TablesAre
  <1>6. LaneIs'
    BY <1>1, ResultBounds DEF LaneIs, IdleLane, Lanes
  <1>7. Sealed'
    BY <1>1, <1>2, <1>3 DEF Sealed
  <1>8. Ordered(newer, Rows)'
    BY <1>1 DEF Ordered, Rows
  <1>9. GcIs'
    BY <1>1, <1>2, <1>3 DEF GcIs
  <1>10. CaptureIs' /\ InputIs'
    BY <1>1, <1>2, <1>3, StoreRests
  <1>11. NewestIs'
    BY <1>0, <1>3 DEF NewestIs, Terminal
  <1> QED  BY <1>5, <1>6, <1>7, <1>8, <1>9, <1>10, <1>11

LEMMA DestroyedSound ==
    ASSUME ResultsIInv, SessionDestroyed
    PROVE  ResultsIInv'
  <1>0. \A x \in ResultSetIds : stmt[x] # "registered"
    BY DEF SessionDestroyed, LockFree
  <1>1. /\ live /\ lane # IdleLane /\ live' = FALSE /\ stmt' = [stmt EXCEPT ![lane.rs] = "failed"]
        /\ hurt' = hurt \union {lane.rs}
        /\ UNCHANGED <<cat, newer, spool, lane, unrun, doomed, gc, capture, input, inspool>>
    BY DEF SessionDestroyed, storeVars
  <1>2. lane.phase # "idle" /\ lane.rs \in ResultSetIds /\ stmt[lane.rs] = "running"
    BY <1>1 DEF ResultsIInv, LaneIs
  <1> USE DEF ResultsIInv
  <1>3. /\ stmt' \in [ResultSetIds -> StmtStates] /\ stmt'[lane.rs] = "failed"
        /\ \A x \in ResultSetIds \ {lane.rs} : stmt'[x] = stmt[x]
    BY <1>1, <1>2 DEF TablesAre, StmtStates, Terminal
  <1>4. TablesAre'
    <2>1. \A r \in ResultSetIds :
             /\ stmt'[r] = "none" <=> stmt[r] = "none"
             /\ Unused(r)' <=> Unused(r)
      BY <1>1, <1>2, <1>3 DEF Unused
    <2>2. \A r \in ResultSetIds : r \in unrun' => stmt'[r] \in Terminal
      BY <1>1, <1>3 DEF TablesAre, Terminal
    <2>3. \A r \in ResultSetIds :
             /\ cat[r].state = "none" => stmt'[r] = "none" \/ r \in unrun
             /\ stmt'[r] = "none" => cat[r].state = "none"
      BY <2>1 DEF TablesAre
    <2>4. \A r \in ResultSetIds : Unused(r)' => spool[r] = NoSpool
      BY <2>1 DEF TablesAre
    <2> QED  BY <1>1, <1>3, <2>2, <2>3, <2>4 DEF TablesAre
  <1>5. LaneIs'
    BY <1>1, <1>2, <1>3 DEF LaneIs
  <1>6. Sealed'
    BY <1>1, <1>2, <1>3 DEF Sealed
  <1>7. Ordered(newer, Rows)'
    BY <1>1 DEF Ordered, Rows
  <1>8. GcIs'
    BY <1>1 DEF GcIs
  <1>9. CaptureIs' /\ InputIs'
    BY <1>1, <1>2, <1>3, StoreRests
  <1>10. NewestIs'
    BY <1>0, <1>3 DEF NewestIs
  <1> QED  BY <1>4, <1>5, <1>6, <1>7, <1>8, <1>9, <1>10

LEMMA EndsSound ==
    ASSUME ResultsIInv, SessionEnds
    PROVE  ResultsIInv'
  <1>1. /\ live' = FALSE /\ lane = IdleLane
        /\ UNCHANGED <<cat, newer, spool, stmt, lane, hurt, unrun, doomed, gc, capture, input, inspool>>
    BY DEF SessionEnds, storeVars
  <1> USE DEF ResultsIInv
  <1>2. TablesAre' /\ Sealed' /\ Ordered(newer, Rows)'
    BY <1>1 DEF TablesAre, Unused, Sealed, Ordered, Rows
  <1>3. LaneIs' /\ GcIs' /\ NewestIs'
    BY <1>1 DEF LaneIs, GcIs, NewestIs
  <1>4. CaptureIs' /\ InputIs'
    BY <1>1, StoreRests
  <1> QED  BY <1>2, <1>3, <1>4

(* The garbage collection.                                                   *)
LEMMA ConsoleStays ==
    ASSUME ResultsIInv, UNCHANGED <<cat, newer, spool, stmt, lane, hurt, doomed, unrun, live>>
    PROVE  TablesAre' /\ LaneIs' /\ Sealed' /\ Ordered(newer, Rows)' /\ NewestIs'
  <1>1. /\ spool' \in [ResultSetIds -> Spools] /\ doomed' \subseteq ResultSetIds
        /\ \A r \in ResultSetIds : spool'[r].rows \subseteq 1..Limit /\ (Unused(r) => spool'[r] = NoSpool)
    BY DEF ResultsIInv, TablesAre
  <1> QED  BY <1>1, ConsoleRests

LEMMA GcReadsSound ==
    ASSUME ResultsIInv, GcReads
    PROVE  ResultsIInv'
  <1>1. /\ gc' = [phase |-> "read", keep |-> ActiveConsoleResultSets]
        /\ UNCHANGED <<cat, newer, spool, stmt, lane, hurt, doomed, unrun, live, capture, input, inspool>>
    BY DEF GcReads
  <1>2. GcIs'
    <2>1. \A r \in ResultSetIds : spool[r].old => stmt[r] # "registered"
      BY NoSpoolIs DEF ResultsIInv, TablesAre, Unused
    <2> QED  BY <1>1, <2>1 DEF GcIs, ActiveConsoleResultSets
  <1>3. CaptureIs' /\ InputIs'
    BY <1>1, StoreRests DEF ResultsIInv
  <1>4. TablesAre' /\ LaneIs' /\ Sealed' /\ Ordered(newer, Rows)' /\ NewestIs'
    BY <1>1, ConsoleStays
  <1> QED  BY <1>2, <1>3, <1>4 DEF ResultsIInv

LEMMA GcCollectsSound ==
    ASSUME ResultsIInv, GcCollects
    PROVE  ResultsIInv'
  <1>1. /\ gc.phase = "read" /\ gc' = [gc EXCEPT !.phase = "collected"]
        /\ UNCHANGED <<cat, newer, spool, stmt, lane, hurt, doomed, unrun, live, capture>>
        /\ \/ input' = input /\ inspool' = inspool
           \/ Collectable /\ input' = [input EXCEPT !.state = "deleted"] /\ inspool' = NoSpool
    BY DEF GcCollects
  <1>2. GcIs'
    <2>1. /\ gc' \in [phase : {"off", "read", "collected"}, keep : SUBSET ResultSetIds]
          /\ gc'.phase = "collected" /\ gc'.keep = gc.keep
      BY <1>1 DEF ResultsIInv, GcIs
    <2> QED  BY <1>1, <2>1 DEF ResultsIInv, GcIs
  <1>3. TablesAre' /\ LaneIs' /\ Sealed' /\ Ordered(newer, Rows)' /\ NewestIs'
    BY <1>1, ConsoleStays
  <1>4. CaptureIs' /\ InputIs'
    <2>1. CASE input' = input /\ inspool' = inspool
      BY <1>1, <2>1, StoreRests DEF ResultsIInv
    <2>2. CASE Collectable /\ input' = [input EXCEPT !.state = "deleted"] /\ inspool' = NoSpool
      <3>1. input \in Inputs /\ input.state = "ready" /\ input.expired /\ input.job # "active" /\ ~input.leased
        BY <2>2 DEF Collectable, ResultsIInv, InputIs
      <3>2. /\ input' \in Inputs /\ input'.state = "deleted" /\ input'.job = input.job
            /\ input'.leased = input.leased /\ input'.expired = input.expired
        BY <2>2, <3>1 DEF Inputs
      <3>3. InputIs'
        BY <3>1, <3>2 DEF InputIs
      <3>4. capture.phase = "none"
        BY <3>1 DEF ResultsIInv, CaptureIs, Captures, NoInput
      <3>5. CaptureIs'
        BY <1>1, <2>2, <3>4, NoSpoolIs DEF ResultsIInv, CaptureIs
      <3> QED  BY <3>3, <3>5
    <2> QED  BY <1>1, <2>1, <2>2
  <1> QED  BY <1>2, <1>3, <1>4 DEF ResultsIInv

LEMMA TtlSound ==
    ASSUME ResultsIInv, TtlPasses
    PROVE  ResultsIInv'
  <1>1. /\ gc.phase = "off" /\ capture.phase # "spooled"
        /\ UNCHANGED <<cat, newer, stmt, lane, hurt, doomed, unrun, live, gc, capture>>
        /\ \/ /\ input' = input /\ inspool' = inspool
              /\ \E r \in ResultSetIds : spool[r].present /\ spool' = [spool EXCEPT ![r].old = TRUE]
           \/ /\ input.state = "ready" /\ ~input.leased /\ spool' = spool
              /\ input' = [input EXCEPT !.expired = TRUE] /\ inspool' = [inspool EXCEPT !.old = TRUE]
    BY DEF TtlPasses
  <1>2. GcIs'
    BY <1>1 DEF ResultsIInv, GcIs
  <1>3. CASE /\ input' = input /\ inspool' = inspool
             /\ \E r \in ResultSetIds : spool[r].present /\ spool' = [spool EXCEPT ![r].old = TRUE]
    <2>1. PICK r \in ResultSetIds : spool[r].present /\ spool' = [spool EXCEPT ![r].old = TRUE]
      BY <1>3
    <2>2. /\ spool' = [x \in ResultSetIds |-> spool'[x]]
          /\ \A x \in ResultSetIds :
                spool'[x] = spool[x] \/ (spool[x].present /\ spool'[x] = [spool[x] EXCEPT !.old = TRUE])
      BY <2>1 DEF ResultsIInv, TablesAre
    <2>3. /\ spool' \in [ResultSetIds -> Spools]
          /\ \A x \in ResultSetIds : spool'[x].rows \subseteq 1..Limit /\ (Unused(x) => spool'[x] = NoSpool)
      BY <2>2, SpoolsMove DEF ResultsIInv
    <2>4. doomed' \subseteq ResultSetIds
      BY <1>1 DEF ResultsIInv, TablesAre
    <2>5. TablesAre' /\ LaneIs' /\ Sealed' /\ Ordered(newer, Rows)' /\ NewestIs'
      BY <1>1, <2>3, <2>4, ConsoleRests
    <2>6. CaptureIs' /\ InputIs'
      BY <1>1, <1>3, StoreRests DEF ResultsIInv
    <2> QED  BY <1>2, <2>5, <2>6 DEF ResultsIInv
  <1>4. CASE /\ input.state = "ready" /\ ~input.leased /\ spool' = spool
             /\ input' = [input EXCEPT !.expired = TRUE] /\ inspool' = [inspool EXCEPT !.old = TRUE]
    <2>1. TablesAre' /\ LaneIs' /\ Sealed' /\ Ordered(newer, Rows)' /\ NewestIs'
      BY <1>1, <1>4, ConsoleStays
    <2>2. input \in Inputs /\ inspool \in Spools
      BY DEF ResultsIInv, InputIs, CaptureIs
    <2>3. /\ inspool' \in Spools /\ inspool'.present = inspool.present /\ inspool'.trunc = inspool.trunc
      BY <1>4, <2>2 DEF Spools
    <2>4. /\ input' \in Inputs /\ input'.state = input.state /\ input'.src = input.src
          /\ input'.consent = input.consent /\ input'.leased = input.leased /\ input'.job = input.job
      BY <1>4, <2>2 DEF Inputs
    <2>5. InputIs'
      BY <1>1, <1>4, <2>3, <2>4 DEF ResultsIInv, InputIs
    <2>6. capture.phase = "none"
      BY <1>4 DEF ResultsIInv, CaptureIs, Captures, NoInput
    <2>7. CaptureIs'
      BY <1>1, <2>3, <2>6 DEF ResultsIInv, CaptureIs
    <2> QED  BY <1>2, <2>1, <2>5, <2>7 DEF ResultsIInv
  <1> QED  BY <1>1, <1>3, <1>4

LEMMA GcSweepsSound ==
    ASSUME ResultsIInv, GcSweeps
    PROVE  ResultsIInv'
  <1>1. /\ gc' = [phase |-> "off", keep |-> {}]
        /\ spool' = [r \in ResultSetIds |-> IF spool[r].old /\ r \notin gc.keep THEN NoSpool ELSE spool[r]]
        /\ inspool' = inspool \/ (input.state # "ready" /\ inspool' = NoSpool)
        /\ UNCHANGED <<cat, newer, stmt, lane, hurt, doomed, unrun, live, capture, input>>
    BY DEF GcSweeps
  <1>2. GcIs'
    BY <1>1 DEF GcIs
  <1>3. /\ spool' = [x \in ResultSetIds |-> spool'[x]]
        /\ \A x \in ResultSetIds : spool'[x] = spool[x] \/ spool'[x] = NoSpool
    BY <1>1
  <1>4. /\ spool' \in [ResultSetIds -> Spools]
        /\ \A x \in ResultSetIds : spool'[x].rows \subseteq 1..Limit /\ (Unused(x) => spool'[x] = NoSpool)
    BY <1>3, SpoolsMove DEF ResultsIInv
  <1>5. doomed' \subseteq ResultSetIds
    BY <1>1 DEF ResultsIInv, TablesAre
  <1>6. TablesAre' /\ LaneIs' /\ Sealed' /\ Ordered(newer, Rows)' /\ NewestIs'
    BY <1>1, <1>4, <1>5, ConsoleRests
  <1>7. NoSpool.trunc = FALSE
    BY DEF NoSpool
  <1>8. InputIs'
    BY <1>1 DEF ResultsIInv, InputIs
  <1>9. CaptureIs'
    BY <1>1, <1>7, NoSpoolIs DEF ResultsIInv, CaptureIs
  <1> QED  BY <1>2, <1>6, <1>8, <1>9 DEF ResultsIInv

(* Snapshots for compare runs.                                               *)
LEMMA StoreMoves ==
    ASSUME ResultsIInv, UNCHANGED <<cat, newer, spool, stmt, lane, hurt, doomed, unrun, live, gc>>, CaptureIs', InputIs'
    PROVE  ResultsIInv'
  <1>1. GcIs'
    BY DEF ResultsIInv, GcIs
  <1>2. TablesAre' /\ LaneIs' /\ Sealed' /\ Ordered(newer, Rows)' /\ NewestIs'
    BY ConsoleStays
  <1> QED  BY <1>1, <1>2 DEF ResultsIInv

LEMMA ResolvesSound ==
    ASSUME ResultsIInv, NEW r \in ResultSetIds, NEW consent \in BOOLEAN, CaptureResolves(r, consent)
    PROVE  ResultsIInv'
  <1> DEFINE partial == OriginPartial(r)
             new == [phase |-> "resolved", src |-> r, partial |-> partial, consent |-> consent]
  <1>1. /\ input = NoInput /\ stmt[r] \in {"succeeded", "cancelled"} /\ capture' = new
        /\ UNCHANGED <<cat, newer, spool, stmt, lane, hurt, doomed, unrun, live, gc, input, inspool>>
    BY DEF CaptureResolves
  <1>2. partial \in BOOLEAN /\ stmt[r] = IF partial THEN "cancelled" ELSE "succeeded"
    BY <1>1 DEF OriginPartial
  <1> HIDE DEF partial
  <1>3. new \in Captures /\ new.phase = "resolved" /\ new.src = r /\ new.partial = partial
    BY <1>2 DEF Captures
  <1> HIDE DEF new
  <1>4. CaptureIs'
    BY <1>1, <1>2, <1>3 DEF ResultsIInv, CaptureIs
  <1>5. InputIs'
    BY <1>1 DEF ResultsIInv, InputIs
  <1> QED  BY <1>1, <1>4, <1>5, StoreMoves

LEMMA NoCaptureIs == NoCapture \in Captures /\ NoCapture.phase = "none"
  BY DEF NoCapture, Captures

LEMMA SnapshotsSound ==
    ASSUME ResultsIInv, CaptureSnapshots
    PROVE  ResultsIInv'
  <1> DEFINE s == spool[capture.src]
  <1>1. /\ capture.phase = "resolved" /\ UNCHANGED <<cat, newer, spool, stmt, lane, hurt, doomed, unrun, live, gc, input>>
        /\ \/ /\ capture.partial \/ s.trunc => capture.consent
              /\ inspool' = [s EXCEPT !.old = FALSE] /\ capture' = [capture EXCEPT !.phase = "spooled"]
           \/ capture' = NoCapture /\ inspool' = inspool
    BY DEF CaptureSnapshots
  <1>2. /\ input = NoInput /\ capture.src \in ResultSetIds /\ capture \in Captures
        /\ stmt[capture.src] = IF capture.partial THEN "cancelled" ELSE "succeeded"
    BY <1>1 DEF ResultsIInv, CaptureIs
  <1>3. s \in Spools
    BY <1>2 DEF ResultsIInv, TablesAre
  <1> HIDE DEF s
  <1>4. CASE /\ capture.partial \/ s.trunc => capture.consent
             /\ inspool' = [s EXCEPT !.old = FALSE] /\ capture' = [capture EXCEPT !.phase = "spooled"]
    <2>1. /\ capture' \in Captures /\ capture'.phase = "spooled" /\ capture'.src = capture.src
          /\ capture'.partial = capture.partial /\ capture'.consent = capture.consent
      BY <1>2, <1>4 DEF Captures
    <2>2. inspool' \in Spools /\ inspool'.trunc = s.trunc
      BY <1>3, <1>4 DEF Spools
    <2>3. CaptureIs'
      BY <1>1, <1>2, <1>4, <2>1, <2>2 DEF CaptureIs
    <2>4. InputIs'
      BY <1>1, <1>2, ResultBounds DEF InputIs, NoInput, Inputs
    <2> QED  BY <1>1, <2>3, <2>4, StoreMoves
  <1>5. CASE capture' = NoCapture /\ inspool' = inspool
    <2>1. CaptureIs'
      BY <1>5, NoCaptureIs DEF ResultsIInv, CaptureIs
    <2>2. InputIs'
      BY <1>1, <1>5 DEF ResultsIInv, InputIs
    <2> QED  BY <1>1, <2>1, <2>2, StoreMoves
  <1> QED  BY <1>1, <1>4, <1>5

LEMMA NoInputIs == NoInput \in Inputs /\ NoInput.state = "none" /\ ~NoInput.leased /\ NoInput.job = "none"
  BY DEF NoInput, Inputs

LEMMA InsertsSound ==
    ASSUME ResultsIInv, NEW ok \in BOOLEAN, CaptureInserts(ok)
    PROVE  ResultsIInv'
  <1> DEFINE new == [NoInput EXCEPT !.state = "ready", !.src = capture.src, !.consent = capture.consent]
  <1>1. /\ capture.phase = "spooled" /\ capture' = NoCapture
        /\ UNCHANGED <<cat, newer, spool, stmt, lane, hurt, doomed, unrun, live, gc>>
        /\ \/ input' = new /\ inspool' = inspool
           \/ input' = input /\ inspool' = NoSpool
    BY DEF CaptureInserts
  <1>2. /\ input = NoInput /\ capture \in Captures /\ capture.src \in ResultSetIds /\ inspool \in Spools
        /\ stmt[capture.src] = IF capture.partial THEN "cancelled" ELSE "succeeded"
        /\ ~capture.consent => ~capture.partial /\ ~inspool.trunc
    BY <1>1 DEF ResultsIInv, CaptureIs
  <1>3. CaptureIs'
    BY <1>1, <1>2, NoCaptureIs, NoSpoolIs DEF CaptureIs
  <1>4. InputIs'
    <2>1. CASE input' = new /\ inspool' = inspool
      <3>1. /\ new \in Inputs /\ new.src = capture.src /\ new.consent = capture.consent
            /\ new.leased = NoInput.leased /\ new.job = NoInput.job
        BY <1>2, NoInputIs DEF Captures, Inputs
      <3> HIDE DEF new
      <3> QED  BY <1>1, <1>2, <2>1, <3>1, NoInputIs DEF InputIs
    <2>2. CASE input' = input /\ inspool' = NoSpool
      BY <1>1, <1>2, <2>2, NoInputIs DEF InputIs
    <2> QED  BY <1>1, <2>1, <2>2
  <1> QED  BY <1>1, <1>3, <1>4, StoreMoves

LEMMA RunSound ==
    ASSUME ResultsIInv, OpenForRun \/ EnqueueRun \/ RunEnds
    PROVE  ResultsIInv'
  <1>1. /\ UNCHANGED <<cat, newer, spool, stmt, lane, hurt, doomed, unrun, live, gc, capture, inspool>>
        /\ \/ /\ input.state = "ready" /\ ~input.expired /\ inspool.present
              /\ input' = [input EXCEPT !.leased = TRUE]
           \/ input.leased /\ input' = [input EXCEPT !.leased = FALSE, !.job = "active"]
           \/ input.job = "active" /\ input' = [input EXCEPT !.job = "over"]
    BY DEF OpenForRun, EnqueueRun, RunEnds
  <1>2. input \in Inputs /\ input.state = "ready" /\ inspool.present
    BY <1>1 DEF ResultsIInv, InputIs
  <1>3. /\ input' \in Inputs /\ input'.state = input.state /\ input'.src = input.src
        /\ input'.consent = input.consent /\ input'.expired = input.expired
    BY <1>1, <1>2 DEF Inputs
  <1>4. input'.leased => ~input.expired
    BY <1>1, <1>2 DEF ResultsIInv, InputIs, Inputs
  <1>5. InputIs'
    BY <1>1, <1>2, <1>3, <1>4 DEF ResultsIInv, InputIs
  <1>6. capture.phase = "none"
    BY <1>2, NoInputIs DEF ResultsIInv, CaptureIs, Captures
  <1>7. CaptureIs'
    BY <1>1, <1>6 DEF ResultsIInv, CaptureIs
  <1> QED  BY <1>1, <1>5, <1>7, StoreMoves

LEMMA ResultsBegin ==
    ASSUME ResultsInit
    PROVE  ResultsIInv
  <1>1. TablesAre
    BY NoSpoolIs DEF ResultsInit, TablesAre, Unused, CatRows, StmtStates
  <1>2. LaneIs
    BY ResultBounds DEF ResultsInit, LaneIs, IdleLane, Lanes
  <1>3. Sealed
    BY DEF ResultsInit, Sealed, Terminal
  <1>4. Ordered(newer, Rows)
    BY DEF ResultsInit, Ordered, Rows
  <1>5. GcIs
    BY DEF ResultsInit, GcIs
  <1>6. CaptureIs /\ InputIs
    BY NoCaptureIs, NoInputIs, NoSpoolIs DEF ResultsInit, CaptureIs, InputIs
  <1>7. NewestIs
    BY DEF ResultsInit, NewestIs
  <1> QED  BY <1>1, <1>2, <1>3, <1>4, <1>5, <1>6, <1>7 DEF ResultsIInv

LEMMA ResultsKept ==
    ASSUME ResultsIInv, [ResultsNext]_resultVars
    PROVE  ResultsIInv'
  <1>1. CASE UNCHANGED resultVars
    <2>1. UNCHANGED <<cat, newer, spool, stmt, lane, hurt, doomed, unrun, live, gc, capture, input, inspool>>
      BY <1>1 DEF resultVars
    <2>2. CaptureIs' /\ InputIs'
      BY <2>1, StoreRests DEF ResultsIInv
    <2> QED  BY <2>1, <2>2, StoreMoves
  <1>2. CASE \/ \E r \in ResultSetIds, ok \in BOOLEAN : Register(r, ok) \/ Evicts(r, ok)
             \/ \E r \in ResultSetIds : CancelQueued(r)
    BY <1>2, RegisterSound, EvictsSound, CancelQueuedSound
  <1>3. CASE \E r \in ResultSetIds, ok \in BOOLEAN : DeleteEvicted(r, ok)
    BY <1>3, DeleteSound
  <1>4. CASE \E r \in ResultSetIds, n \in 0..MaxRows : LaneTakes(r, n)
    BY <1>4, TakesSound
  <1>5. CASE LaneAppends \/ LanePublishes \/ LaneStops \/ LaneSettles \/ \E ok \in BOOLEAN : LaneSeals(ok)
    BY <1>5, AppendsSound, PublishesSound, StopsSound, SettlesSound, SealsSound
  <1>6. CASE SessionDestroyed \/ SessionEnds \/ TtlPasses \/ GcReads \/ GcCollects \/ GcSweeps
    BY <1>6, DestroyedSound, EndsSound, TtlSound, GcReadsSound, GcCollectsSound, GcSweepsSound
  <1>7. CASE \E r \in ResultSetIds, consent \in BOOLEAN : CaptureResolves(r, consent)
    BY <1>7, ResolvesSound
  <1>8. CASE CaptureSnapshots \/ \E ok \in BOOLEAN : CaptureInserts(ok)
    BY <1>8, SnapshotsSound, InsertsSound
  <1>9. CASE OpenForRun \/ EnqueueRun \/ RunEnds
    BY <1>9, RunSound
  <1> QED  BY <1>1, <1>2, <1>3, <1>4, <1>5, <1>6, <1>7, <1>8, <1>9 DEF ResultsNext

LEMMA ResultsSafe ==
    ASSUME ResultsIInv
    PROVE  ResultsInv
  <1>1. ASSUME NEW r \in ResultSetIds
        PROVE  Cardinality(spool[r].rows) <= Limit
    <2>1. spool[r].rows \subseteq 1..Limit
      BY DEF ResultsIInv, TablesAre
    <2>2. IsFiniteSet(1..Limit) /\ Cardinality(1..Limit) = Limit
      BY ResultBounds, FS_Interval
    <2> QED  BY <2>1, <2>2, FS_Subset
  <1>2. ResultsTypeOK
    BY <1>1 DEF ResultsIInv, TablesAre, CatRows, Spools, StmtStates, LaneIs, Lanes, ResultsTypeOK
  <1>3. InputOutlivesJob /\ PartialNeedsConsent
    BY DEF ResultsIInv, InputIs, InputOutlivesJob, PartialNeedsConsent
  <1>4. SealedBeforeTerminal
    <2>1. \A r \in unrun : r \in ResultSetIds => ~spool[r].present
      BY DEF ResultsIInv, TablesAre, Unused, NoSpool
    <2>2. \A r \in unrun : r \in ResultSetIds => lane.rs # r
      BY ResultBounds DEF ResultsIInv, LaneIs, IdleLane
    <2> QED  BY <2>1, <2>2 DEF ResultsIInv, Sealed, SealedBeforeTerminal
  <1> QED  BY <1>2, <1>3, <1>4 DEF ResultsIInv, ResultsInv

(* Only an eviction lets a statement into the queue, and only the sweep ends *)
(* a collection.                                                             *)
LEMMA NothingElseGoes ==
    ASSUME ResultsIInv, ResultsNext,
           \A r \in ResultSetIds : ~Evicts(r, TRUE), ~GcSweeps
    PROVE  /\ \A r \in ResultSetIds : stmt[r] = "registered" => stmt'[r] # "accepted"
           /\ ~(gc.phase = "collected" /\ gc'.phase = "off")
  <1>0. stmt \in [ResultSetIds -> StmtStates]
    BY DEF ResultsIInv, TablesAre
  <1>1. CASE stmt' = stmt /\ gc' = gc
    BY <1>1
  <1>2. CASE \E r \in ResultSetIds, new \in StmtStates \ {"accepted"} :
                stmt' = [stmt EXCEPT ![r] = new] /\ gc' = gc
    BY <1>0, <1>2
  <1>3. CASE \E r \in ResultSetIds, ok \in BOOLEAN : Register(r, ok) \/ Evicts(r, ok)
    <2>1. PICK r \in ResultSetIds, ok \in BOOLEAN : Register(r, ok) \/ Evicts(r, ok)
      BY <1>3
    <2>2. CASE Register(r, ok)
      <3>1. \/ stmt' = [stmt EXCEPT ![r] = "registered"] /\ gc' = gc
            \/ stmt' = [stmt EXCEPT ![r] = "failed"] /\ gc' = gc
        BY <2>2 DEF Register, storeVars
      <3> QED  BY <1>2, <3>1 DEF StmtStates, Terminal
    <2>3. CASE Evicts(r, ok)
      <3>1. ok = FALSE
        BY <2>3
      <3>2. stmt' = [stmt EXCEPT ![r] = "failed"] /\ gc' = gc
        BY <2>3, <3>1 DEF Evicts, storeVars
      <3> QED  BY <1>2, <3>2 DEF StmtStates, Terminal
    <2> QED  BY <2>1, <2>2, <2>3
  <1>4. CASE \E r \in ResultSetIds : CancelQueued(r)
    <2>1. PICK r \in ResultSetIds : stmt' = [stmt EXCEPT ![r] = "cancelled"] /\ gc' = gc
      BY <1>4 DEF CancelQueued, storeVars
    <2> QED  BY <1>2, <2>1 DEF StmtStates, Terminal
  <1>5. CASE \E r \in ResultSetIds, n \in 0..MaxRows : LaneTakes(r, n)
    <2>1. PICK r \in ResultSetIds : stmt' = [stmt EXCEPT ![r] = "running"] /\ gc' = gc
      BY <1>5 DEF LaneTakes, storeVars
    <2> QED  BY <1>2, <2>1 DEF StmtStates
  <1>6. CASE LaneSettles \/ SessionDestroyed
    <2>1. /\ lane.rs \in ResultSetIds /\ gc' = gc
          /\ \/ stmt' = stmt
             \/ stmt' = [stmt EXCEPT ![lane.rs] = "failed"]
             \/ lane.outcome \in Terminal /\ stmt' = [stmt EXCEPT ![lane.rs] = lane.outcome]
      BY <1>6 DEF LaneSettles, MaySettle, SessionDestroyed, storeVars, ResultsIInv, LaneIs, IdleLane
    <2> QED  BY <1>1, <1>2, <2>1 DEF StmtStates, Terminal
  <1>7. CASE GcReads \/ GcCollects
    <2>1. stmt' = stmt /\ gc.phase # "collected"
      BY <1>7 DEF GcReads, GcCollects
    <2> QED  BY <2>1
  <1>8. CASE \/ \E r \in ResultSetIds, ok \in BOOLEAN : DeleteEvicted(r, ok)
             \/ LaneAppends \/ LanePublishes \/ LaneStops \/ (\E ok \in BOOLEAN : LaneSeals(ok)) \/ SessionEnds
    <2>1. stmt' = stmt /\ gc' = gc
      BY <1>8 DEF DeleteEvicted, LaneAppends, LanePublishes, LaneStops, LaneSeals, SessionEnds, storeVars
    <2> QED  BY <1>1, <2>1
  <1>9. CASE \/ TtlPasses \/ OpenForRun \/ EnqueueRun \/ RunEnds \/ CaptureSnapshots
             \/ \E r \in ResultSetIds, consent \in BOOLEAN : CaptureResolves(r, consent)
             \/ \E ok \in BOOLEAN : CaptureInserts(ok)
    <2>1. stmt' = stmt /\ gc' = gc
      BY <1>9 DEF TtlPasses, OpenForRun, EnqueueRun, RunEnds, CaptureSnapshots, CaptureResolves, CaptureInserts
    <2> QED  BY <1>1, <2>1
  <1> DEFINE Goal == /\ \A r \in ResultSetIds : stmt[r] = "registered" => stmt'[r] # "accepted"
                     /\ ~(gc.phase = "collected" /\ gc'.phase = "off")
  <1> HIDE DEF Goal
  <1> QED  BY <1>3, <1>4, <1>5, <1>6, <1>7, <1>8, <1>9 DEF ResultsNext, Goal

LEMMA RightStep ==
    ASSUME ResultsIInv, ResultsNext
    PROVE  /\ \A r \in ResultSetIds : stmt[r] = "registered" /\ stmt'[r] = "accepted" =>
                 /\ Cardinality({x \in ResultSetIds : cat'[x].state \in {"streaming", "complete"}}) <= Keep
                 /\ \/ cat'[r].state = "streaming"
                    \/ Keep = 1 /\ lane # IdleLane /\ <<lane.rs, r>> \in newer
           /\ gc.phase = "collected" /\ gc'.phase = "off" /\ live =>
                 \A r \in ResultSetIds : stmt[r] # "none" /\ spool[r].present => spool'[r].present
  <1> DEFINE few == Cardinality({x \in ResultSetIds : cat'[x].state \in {"streaming", "complete"}}) <= Keep
             spared(r) == \/ cat'[r].state = "streaming"
                          \/ Keep = 1 /\ lane # IdleLane /\ <<lane.rs, r>> \in newer
  <1>1. ASSUME NEW r \in ResultSetIds, Evicts(r, TRUE)
        PROVE  /\ \A q \in ResultSetIds : stmt[q] = "registered" /\ stmt'[q] = "accepted" => few /\ spared(q)
               /\ ~(gc.phase = "collected" /\ gc'.phase = "off")
    <2>1. /\ few /\ gc' = gc /\ stmt[r] = "registered" /\ stmt' = [stmt EXCEPT ![r] = "accepted"]
          /\ cat'[r] = cat[r] \/ (Keep = 1 /\ lane # IdleLane /\ <<lane.rs, r>> \in newer)
      BY <1>1, EvictsFacts
    <2>2. spared(r)
      BY <2>1 DEF ResultsIInv, NewestIs
    <2> HIDE DEF few, spared
    <2>3. \A q \in ResultSetIds : stmt[q] = "registered" /\ stmt'[q] = "accepted" => q = r
      BY <2>1 DEF ResultsIInv, TablesAre
    <2> QED  BY <2>1, <2>2, <2>3
  <1>2. ASSUME GcSweeps
        PROVE  /\ stmt' = stmt
               /\ live => \A r \in ResultSetIds : stmt[r] # "none" /\ spool[r].present => spool'[r].present
    <2>1. /\ gc.phase = "collected" /\ stmt' = stmt
          /\ spool' = [r \in ResultSetIds |-> IF spool[r].old /\ r \notin gc.keep THEN NoSpool ELSE spool[r]]
      BY <1>2 DEF GcSweeps
    <2>2. live => \A r \in ResultSetIds : stmt[r] # "none" /\ spool[r].old => r \in gc.keep
      BY <2>1 DEF ResultsIInv, GcIs
    <2> QED  BY <2>1, <2>2
  <1> HIDE DEF few, spared
  <1>3. CASE \E r \in ResultSetIds : Evicts(r, TRUE)
    BY <1>1, <1>3 DEF few, spared
  <1>4. CASE GcSweeps
    BY <1>2, <1>4
  <1>5. CASE (\A r \in ResultSetIds : ~Evicts(r, TRUE)) /\ ~GcSweeps
    BY <1>5, NothingElseGoes
  <1> QED  BY <1>3, <1>4, <1>5

(* For any results, limits and number of batches, with the submit, the lane, *)
(* the collection, the compare requests and cancels in the queue             *)
(* interleaved: the result set of a statement that ran is sealed before the  *)
(* statement is over, one of a statement that did not run stays empty, a     *)
(* compare job finds its snapshot as long as it runs, and a partial one was  *)
(* agreed to (_execute_statement, CompareResultInputs.capture, gc_expired).  *)
THEOREM ResultsAreSafe == ResultsSpec => []ResultsInv
  <1>1. ResultsInit => ResultsIInv
    BY ResultsBegin
  <1>2. ResultsIInv /\ [ResultsNext]_resultVars => ResultsIInv'
    BY ResultsKept
  <1>3. ResultsIInv => ResultsInv
    BY ResultsSafe
  <1> QED  BY <1>1, <1>2, <1>3, PTL DEF ResultsSpec

(* For the same: after an eviction at most Keep results of the console are   *)
(* open, also when a statement still running had reopened an evicted one;    *)
(* the one just registered is among them unless Keep = 1 and the running     *)
(* statement wrote its row after it; and the collection takes no spool of an *)
(* active session (_evict_console_resultsets, _gc_result_store_if_due).      *)
THEOREM RightResultsGo == ResultsSpec => RightOnesGo
  <1>1. ResultsIInv /\ [ResultsNext]_resultVars =>
          [/\ \A r \in ResultSetIds : stmt[r] = "registered" /\ stmt'[r] = "accepted" =>
                 /\ Cardinality({x \in ResultSetIds : cat'[x].state \in {"streaming", "complete"}}) <= Keep
                 /\ \/ cat'[r].state = "streaming"
                    \/ Keep = 1 /\ lane # IdleLane /\ <<lane.rs, r>> \in newer
           /\ gc.phase = "collected" /\ gc'.phase = "off" /\ live =>
                 \A r \in ResultSetIds : stmt[r] # "none" /\ spool[r].present => spool'[r].present]_resultVars
    BY RightStep
  <1> QED  BY <1>1, ResultsBegin, ResultsKept, PTL DEF ResultsSpec, RightOnesGo
============================================================================
