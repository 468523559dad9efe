--------------------------- MODULE SessionLaneProofs ---------------------------
(***************************************************************************)
(* Theorems about SessionLane for every set of statements and every        *)
(* mailbox size: the invariant of the session's runtime, that a statement  *)
(* reported cancelled does not run on the server, and that every thread    *)
(* moves session and statements along the edges of their tables.           *)
(*                                                                         *)
(* A critical section composes operators from runtime to runtime, so the   *)
(* inductive invariant is a predicate of a runtime r, a lane l, a server v *)
(* and a history h; each operator is shown to keep it, and an action is    *)
(* the composition of the operators it applies.                            *)
(***************************************************************************)
EXTENDS SessionLane, TLAPS

----------------------------------------------------------------------------
(* The inductive invariant.  It says where the lane thread is in terms of   *)
(* what the lock protects: which statement it executes, what the mailbox    *)
(* still holds, and in which states a cancel can be in flight.              *)

Lanes == [pc : LanePcs, s : Stmts \cup {NoStmt}, out : Terminal \cup {"none"},
          lost : BOOLEAN]

Servers == [op : Stmts \cup {NoStmt}, alive : BOOLEAN, interrupted : BOOLEAN]

Controls == [pc : {"opening", "get", "report", "ended"},
             kind : {"none", "cancel", "destroy", "stop"},
             support : {"unknown", "available", "degraded"}]

Strays == [kind : {"cancel", "destroy"}, target : Stmts, victim : Stmts]

Commands == [kind : {"cancel", "destroy", "stop"}, target : Stmts \cup {NoStmt}]

Box == Seq(Stmts \cup {CloseCmd})

Reasons == {"none", "user", "timeout", "close"}

OnLane == {"execute", "running", "streaming", "finish"}

Before == {"unstarted", "never", "opening"}

Between == {"get", "decrement", "start", "drain", "closeFence"}

HasClose(box) == box # <<>> /\ box[Len(box)] = CloseCmd

CloseIsLast(box) == \A i \in 1..Len(box) : box[i] = CloseCmd => i = Len(box)

InBox(box, s) == \E i \in 1..Len(box) : box[i] = s

\* A close is the last command there is: nothing is accepted behind it.
MailboxShape(r, l) ==
    /\ CloseIsLast(r.mailbox)
    /\ HasClose(r.mailbox) \/ r.closePending => ~r.accepting
    /\ ~(HasClose(r.mailbox) /\ r.closePending)
    /\ l.pc \in {"closeFence", "closing"} =>
          r.mailbox = <<>> /\ ~r.closePending /\ ~r.accepting

\* pending_count counts the statements in the mailbox and the one the lane has
\* taken and not yet counted out; a close is not counted.
Accounting(r, l) ==
    /\ l.pc = "decrement" /\ HasClose(r.mailbox) => r.pending = Len(r.mailbox)
    /\ l.pc = "decrement" /\ ~HasClose(r.mailbox) =>
          r.pending = Len(r.mailbox) + 1
    /\ l.pc # "decrement" /\ HasClose(r.mailbox) =>
          r.pending = Len(r.mailbox) - 1
    /\ l.pc # "decrement" /\ ~HasClose(r.mailbox) => r.pending = Len(r.mailbox)

\* A statement that was accepted will be seen by the lane, unless the session
\* is lost, and one that executes is the lane's.
PlacedAt(r, l, s) ==
    /\ r.stmt[s] = "accepted" /\ r.sess # "session_lost" =>
          InBox(r.mailbox, s) \/ (l.s = s /\ l.pc \in {"decrement", "start"})
    /\ r.stmt[s] \in Running => l.s = s /\ l.pc \in OnLane

Placed(r, l) == \A s \in Stmts : PlacedAt(r, l, s)

\* The session's state at each point of the lane.
LaneShape(r, l) ==
    /\ l.pc \in Before => r.sess = "connecting"
    /\ l.pc \in OnLane =>
          /\ r.sess \in {"executing", "cancelling", "idle", "session_lost"}
          /\ r.stmt[l.s] \in Running \cup {"failed"}
          /\ r.current \in {l.s, NoStmt}
          /\ r.current = NoStmt => r.sess = "session_lost"
    /\ l.pc \in Between => r.sess \in {"idle", "cancelling", "session_lost"}
    /\ l.pc = "closing" => r.sess = "closing"
    /\ l.pc = "ended" =>
          r.sess \in {"closed", "session_lost", "connect_failed"} /\ ~r.accepting
    /\ l.pc \in OnLane \cup {"decrement", "start"} => l.s \in Stmts
    /\ r.current # NoStmt => l.pc \in OnLane /\ r.sess # "session_lost"
    /\ r.sess = "session_lost" => ~r.accepting

\* A cancel is in flight, and the session idle or cancelling, from its begin to
\* its settlement; a lost session has none.
FenceShape(r, l) ==
    /\ r.sess # "session_lost" => (r.inFlight <=> r.cancelStmt # NoStmt)
    /\ r.sess = "session_lost" => ~r.inFlight
    /\ r.cancelStmt # NoStmt =>
          /\ r.sess \in {"idle", "cancelling", "session_lost"}
          /\ r.cancelRequested[r.cancelStmt]
    /\ r.sess = "cancelling" => r.inFlight
    /\ r.inFlight => r.current \in {r.cancelStmt, NoStmt}
    /\ l.pc \in {"closing", "ended"} => ~r.inFlight

Targets(q, requested) ==
    \A i \in 1..Len(q) :
       q[i].kind # "stop" => q[i].target \in Stmts /\ requested[q[i].target]

Struck(r, h, s) == r.cancelRequested[s] \/ \E x \in h : x.victim = s

\* What interrupts a statement was asked for it, or was meant for another one.
StrikeShape(r, l, v, h) ==
    /\ Targets(r.ctlq, r.cancelRequested)
    /\ v.interrupted => v.op # NoStmt /\ Struck(r, h, v.op)
    /\ r.softFlag /\ l.pc \in {"execute", "running", "streaming"} =>
          r.cancelRequested[l.s]
    /\ l.pc = "finish" =>
          l.out \in Terminal /\ (l.out = "cancelled" => Struck(r, h, l.s))
    /\ \A s \in Stmts : r.stmt[s] = "cancelled" => Struck(r, h, s)

\* The server runs the lane's statement, and only during the driver call.
ServerShape(l, v) ==
    v.op # NoStmt => v.alive /\ v.op = l.s /\ l.pc \in {"running", "streaming"}

\* A closed session leaves no statement behind.
SettledShape(r) ==
    r.sess = "closed" => \A s \in Stmts : r.stmt[s] \in Terminal \cup {"none"}

Shape(r, l, v, h) ==
    /\ MailboxShape(r, l) /\ Accounting(r, l) /\ Placed(r, l) /\ LaneShape(r, l)
    /\ FenceShape(r, l) /\ StrikeShape(r, l, v, h) /\ ServerShape(l, v)
    /\ SettledShape(r)

LaneIInv == TypeOK /\ Shape(rt, lane, srv, stray)

\* The edges a step may take, and the only ones the helpers that begin a cancel
\* or a close take.
Legal(r, r2) ==
    /\ r.sess # r2.sess => <<r.sess, r2.sess>> \in SessionTransitions
    /\ \A s \in Stmts :
          \/ r.stmt[s] = r2.stmt[s]
          \/ r.stmt[s] = "none" /\ r2.stmt[s] \in {"accepted", "failed"}
          \/ <<r.stmt[s], r2.stmt[s]>> \in StatementTransitions

CancelsOnly(r, r2) ==
    /\ r2.sess = r.sess \/ (r.sess = "executing" /\ r2.sess = "cancelling")
    /\ \A s \in Stmts :
          \/ r2.stmt[s] = r.stmt[s]
          \/ r.stmt[s] = "accepted" /\ r2.stmt[s] = "cancelled"

\* The updates of several fields that actions write in place, named so that the
\* lemmas can speak of them.
Accepting(r, s) ==
    [r EXCEPT !.stmt[s] = "accepted", !.mailbox = Append(@, s), !.pending = @ + 1]

Starting(r, s) ==
    [r EXCEPT !.softFlag = FALSE, !.current = s, !.sess = "executing",
              !.stmt[s] = "executing"]

Taking(l, s) == [l EXCEPT !.pc = "decrement", !.s = s]

Beginning(l) == [l EXCEPT !.pc = "execute", !.out = "none", !.lost = FALSE]

Returning(l, out) == [l EXCEPT !.pc = "finish", !.out = out]

Released(v) == [v EXCEPT !.op = NoStmt, !.interrupted = FALSE]

Hit(v, cmd) ==
    IF cmd.kind = "destroy"
    THEN [op |-> NoStmt, alive |-> FALSE, interrupted |-> FALSE]
    ELSE [v EXCEPT !.interrupted = v.op # NoStmt]

Recorded(h, v, cmd) ==
    IF v.op \in {NoStmt, cmd.target} THEN h
    ELSE h \cup {[kind |-> cmd.kind, target |-> cmd.target, victim |-> v.op]}

----------------------------------------------------------------------------
(* Sequences: the mailbox and the control queue.                            *)

\* What Append does to a sequence.
LEMMA AppendIs ==
  ASSUME NEW S, NEW q \in Seq(S), NEW x \in S, NEW a, a = Append(q, x)
  PROVE  /\ a \in Seq(S) /\ a # <<>> /\ Len(a) = Len(q) + 1 /\ Len(q) \in Nat
         /\ a[Len(a)] = x /\ \A i \in 1..Len(q) : a[i] = q[i]
  OBVIOUS

\* What is left of a sequence when its head is taken.
LEMMA TailIs ==
  ASSUME NEW S, NEW q \in Seq(S), q # <<>>, NEW t, t = Tail(q)
  PROVE  /\ t \in Seq(S) /\ Len(q) = Len(t) + 1 /\ Len(t) \in Nat
         /\ Head(q) = q[1] /\ Head(q) \in S
         /\ \A i \in 1..Len(t) : t[i] = q[i + 1]
  OBVIOUS

\* The sequence of length 0.
LEMMA EmptyIs ==
  ASSUME NEW S, NEW q \in Seq(S)
  PROVE  Len(q) = 0 <=> q = <<>>
  OBVIOUS

\* A command put behind a mailbox that holds no close.
LEMMA BoxAppend ==
  ASSUME NEW box \in Box, NEW x \in Stmts \cup {CloseCmd}, CloseIsLast(box),
         ~HasClose(box), NEW a, a = Append(box, x)
  PROVE  /\ a \in Box /\ CloseIsLast(a) /\ (HasClose(a) <=> x = CloseCmd)
         /\ Len(a) = Len(box) + 1 /\ Len(box) \in Nat /\ a # <<>>
         /\ InBox(a, x) /\ \A s : InBox(box, s) => InBox(a, s)
<1>1. /\ a \in Box /\ a # <<>> /\ Len(a) = Len(box) + 1 /\ Len(box) \in Nat
      /\ a[Len(a)] = x /\ \A i \in 1..Len(box) : a[i] = box[i]
  BY AppendIs DEF Box
<1>2. \A i \in 1..Len(box) : box[i] # CloseCmd
  BY <1>1 DEF CloseIsLast, HasClose, Box
<1> QED
  BY <1>1, <1>2 DEF CloseIsLast, HasClose, InBox

\* What is behind the head of a mailbox, if a close is last of all.
LEMMA BoxRest ==
  ASSUME NEW box, NEW t, NEW n \in Nat, Len(t) = n, Len(box) = n + 1,
         box # <<>>, n # 0 => t # <<>>, n = 0 => t = <<>>, CloseIsLast(box),
         \A i \in 1..n : t[i] = box[i + 1]
  PROVE  /\ CloseIsLast(t)
         /\ box[1] = CloseCmd => t = <<>> /\ HasClose(box)
         /\ box[1] # CloseCmd => (HasClose(t) <=> HasClose(box))
         /\ \A s : InBox(box, s) => s = box[1] \/ InBox(t, s)
<1>1. CloseIsLast(t)
  BY DEF CloseIsLast
<1>2. ASSUME box[1] = CloseCmd PROVE t = <<>> /\ HasClose(box)
  <2>1. 1 = n + 1
    BY <1>2 DEF CloseIsLast
  <2> QED
    BY <1>2, <2>1 DEF HasClose
<1>3. ASSUME box[1] # CloseCmd PROVE HasClose(t) <=> HasClose(box)
  <2>1. CASE n = 0
    BY <1>3, <2>1 DEF HasClose
  <2>2. CASE n # 0
    BY <1>3, <2>2 DEF HasClose
  <2> QED
    BY <2>1, <2>2
<1>4. ASSUME NEW s, InBox(box, s) PROVE s = box[1] \/ InBox(t, s)
  <2>1. PICK i \in 1..(n + 1) : box[i] = s
    BY <1>4 DEF InBox
  <2>2. i # 1 => i - 1 \in 1..n /\ t[i - 1] = box[i]
    OBVIOUS
  <2> QED
    BY <2>1, <2>2 DEF InBox
<1> QED
  BY <1>1, <1>2, <1>3, <1>4

\* The lane takes the head of its mailbox; a close is taken last of all.
LEMMA BoxTail ==
  ASSUME NEW box \in Box, box # <<>>, CloseIsLast(box), NEW t, t = Tail(box)
  PROVE  /\ t \in Box /\ CloseIsLast(t) /\ Len(box) = Len(t) + 1 /\ Len(t) \in Nat
         /\ Head(box) \in Stmts \cup {CloseCmd}
         /\ Head(box) = CloseCmd => t = <<>> /\ HasClose(box)
         /\ Head(box) # CloseCmd => (HasClose(t) <=> HasClose(box))
         /\ \A s : InBox(box, s) => s = Head(box) \/ InBox(t, s)
<1>1. /\ t \in Box /\ Len(box) = Len(t) + 1 /\ Len(t) \in Nat
      /\ Head(box) = box[1] /\ Head(box) \in Stmts \cup {CloseCmd}
      /\ \A i \in 1..Len(t) : t[i] = box[i + 1]
  BY TailIs DEF Box
<1>2. PICK n \in Nat : n = Len(t)
  BY <1>1
<1>3. (n # 0 => t # <<>>) /\ (n = 0 => t = <<>>)
  <2>1. Len(t) = 0 <=> t = <<>>
    BY <1>1, EmptyIs DEF Box
  <2> QED
    BY <1>2, <2>1
<1> QED
  BY <1>1, <1>2, <1>3, BoxRest

\* A command for a statement whose cancel was requested joins the control queue.
LEMMA TargetsAppend ==
  ASSUME NEW q \in Seq(Commands), NEW cmd \in Commands, NEW cr, NEW cr2,
         Targets(q, cr), \A s \in Stmts : cr[s] => cr2[s],
         cmd.kind # "stop" => cmd.target \in Stmts /\ cr2[cmd.target],
         NEW a, a = Append(q, cmd)
  PROVE  Targets(a, cr2)
<1>1. \A i \in 1..Len(a) : (i \in 1..Len(q) /\ a[i] = q[i]) \/ a[i] = cmd
  BY AppendIs
<1> QED
  BY <1>1 DEF Targets

\* A request recorded is never taken back.
LEMMA TargetsMore ==
  ASSUME NEW q, NEW cr, NEW cr2, Targets(q, cr), \A s \in Stmts : cr[s] => cr2[s]
  PROVE  Targets(q, cr2)
  BY DEF Targets

\* The control lane takes the head of its queue.
LEMMA TargetsTail ==
  ASSUME NEW q \in Seq(Commands), q # <<>>, NEW cr, Targets(q, cr)
  PROVE  /\ Tail(q) \in Seq(Commands) /\ Head(q) \in Commands
         /\ Targets(Tail(q), cr)
         /\ Head(q).kind # "stop" => Head(q).target \in Stmts /\ cr[Head(q).target]
<1>1. /\ Tail(q) \in Seq(Commands) /\ Len(q) = Len(Tail(q)) + 1
      /\ Len(Tail(q)) \in Nat /\ Head(q) = q[1] /\ Head(q) \in Commands
      /\ \A i \in 1..Len(Tail(q)) : Tail(q)[i] = q[i + 1]
  BY TailIs
<1> QED
  BY <1>1 DEF Targets

\* The command records.
LEMMA ControlIs ==
  ASSUME NEW k \in {"cancel", "destroy", "stop"}, NEW t \in Stmts \cup {NoStmt}
  PROVE  /\ Control(k, t) \in Commands
         /\ Control(k, t).kind = k /\ Control(k, t).target = t
  BY DEF Control, Commands

----------------------------------------------------------------------------
(* The "_locked" helpers and the API threads.                               *)

\* What _begin_cancel_locked writes when no cancel is in flight.
LEMMA BeginCancelIs ==
  ASSUME NEW r \in Runtime, NEW s \in Stmts, NEW why \in Reasons, ~r.inFlight,
         NEW b, b = BeginCancel(r, s, why)
  PROVE  /\ b \in Runtime
         /\ b.sess = IF r.sess = "executing" THEN "cancelling" ELSE r.sess
         /\ b.stmt = r.stmt /\ b.mailbox = r.mailbox /\ b.pending = r.pending
         /\ b.cancelRequested = [r.cancelRequested EXCEPT ![s] = TRUE]
         /\ (b.accepting <=> r.accepting) /\ b.current = r.current
         /\ b.inFlight /\ b.cancelStmt = s /\ (b.closePending <=> r.closePending)
         /\ b.softFlag /\ b.ctlq = Append(r.ctlq, Control("cancel", s))
<1>1. b.sess = IF r.sess = "executing" THEN "cancelling" ELSE r.sess
  BY DEF BeginCancel, Runtime
<1>2. /\ b.stmt = r.stmt /\ b.mailbox = r.mailbox /\ b.pending = r.pending
  BY DEF BeginCancel, Runtime
<1>3. b.cancelRequested = [r.cancelRequested EXCEPT ![s] = TRUE]
  BY DEF BeginCancel, Runtime
<1>4. /\ (b.accepting <=> r.accepting) /\ b.current = r.current
  BY DEF BeginCancel, Runtime
<1>5. b.inFlight /\ b.cancelStmt = s /\ (b.closePending <=> r.closePending)
  BY DEF BeginCancel, Runtime
<1>6. b.softFlag /\ b.ctlq = Append(r.ctlq, Control("cancel", s))
  BY DEF BeginCancel, Runtime
<1>7. b \in Runtime
  <2> DEFINE q == Append(r.ctlq, Control("cancel", s))
             cr == [r.cancelRequested EXCEPT ![s] = TRUE]
             st == IF r.sess = "executing" THEN "cancelling" ELSE r.sess
  <2>1. q \in Seq(Commands) /\ cr \in [Stmts -> BOOLEAN] /\ st \in SessionStates
    BY DEF Runtime, Commands, Control, SessionStates
  <2>2. b = [r EXCEPT !.inFlight = TRUE, !.cancelStmt = s, !.reason = why,
                      !.controlDone = FALSE, !.confirmed = FALSE,
                      !.destroySent = FALSE, !.softFlag = TRUE,
                      !.cancelRequested = cr, !.sess = st, !.ctlq = q]
    BY DEF BeginCancel, Runtime
  <2> HIDE DEF q, cr, st
  <2> QED
    BY ZenonT(60), <2>1, <2>2 DEF Runtime, Commands, Reasons
<1> QED
  BY <1>1, <1>2, <1>3, <1>4, <1>5, <1>6, <1>7

USE ConstantsAssumption DEF OnLane, Before, Between, Terminal, Running

\* accepting is switched off: close, shutdown, idle reclaim.
LEMMA StopAcceptingKeeps ==
  ASSUME NEW r \in Runtime, NEW l \in Lanes, NEW v \in Servers,
         NEW h \in SUBSET Strays, Shape(r, l, v, h),
         NEW r2, r2 = [r EXCEPT !.accepting = FALSE]
  PROVE  /\ r2 \in Runtime /\ Shape(r2, l, v, h)
         /\ CancelsOnly(r, r2)
         /\ ~r2.accepting /\ r2.sess = r.sess /\ r2.stmt = r.stmt
         /\ r2.current = r.current /\ r2.mailbox = r.mailbox
         /\ (r2.inFlight <=> r.inFlight)
         /\ (r2.closePending <=> r.closePending)
<1>1. r2 \in Runtime
  BY DEF Runtime
<1>2. /\ ~r2.accepting
  BY DEF Runtime
<1>3. /\ r2.sess = r.sess /\ r2.stmt = r.stmt
      /\ r2.cancelRequested = r.cancelRequested /\ r2.mailbox = r.mailbox
      /\ r2.pending = r.pending /\ r2.current = r.current
      /\ (r2.inFlight <=> r.inFlight) /\ r2.cancelStmt = r.cancelStmt
      /\ (r2.closePending <=> r.closePending) /\ (r2.softFlag <=> r.softFlag)
      /\ r2.ctlq = r.ctlq
  BY DEF Runtime
<1>4. Placed(r2, l)
  <2>1. SUFFICES ASSUME NEW x \in Stmts PROVE PlacedAt(r2, l, x)
    BY DEF Placed
  <2>2. PlacedAt(r, l, x)
    BY DEF Shape, Placed
  <2> QED
    BY <1>2, <1>3, <2>2 DEF PlacedAt
<1>5. /\ MailboxShape(r2, l) /\ Accounting(r2, l) /\ LaneShape(r2, l)
      /\ FenceShape(r2, l) /\ StrikeShape(r2, l, v, h) /\ ServerShape(l, v)
      /\ SettledShape(r2)
  BY <1>2, <1>3
  DEF Shape, MailboxShape, Accounting, LaneShape, FenceShape, StrikeShape,
      Struck, SettledShape
<1>6. CancelsOnly(r, r2)
  BY <1>2, <1>3 DEF CancelsOnly, Runtime
<1> QED
  BY <1>1, <1>4, <1>5, <1>6, <1>2, <1>3 DEF Shape

\* shutdown stops the timer thread.
LEMMA StoppedKeeps ==
  ASSUME NEW r \in Runtime, NEW l \in Lanes, NEW v \in Servers,
         NEW h \in SUBSET Strays, Shape(r, l, v, h),
         NEW r2, r2 = [r EXCEPT !.stopped = TRUE]
  PROVE  /\ r2 \in Runtime /\ Shape(r2, l, v, h)
         /\ CancelsOnly(r, r2)
         /\ r2.sess = r.sess /\ r2.stmt = r.stmt /\ r2.current = r.current
         /\ (r2.accepting <=> r.accepting)
<1>1. r2 \in Runtime
  BY DEF Runtime
<1>2. /\ r2.sess = r.sess /\ r2.stmt = r.stmt
      /\ r2.cancelRequested = r.cancelRequested /\ r2.mailbox = r.mailbox
      /\ r2.pending = r.pending /\ (r2.accepting <=> r.accepting)
      /\ r2.current = r.current /\ (r2.inFlight <=> r.inFlight)
      /\ r2.cancelStmt = r.cancelStmt /\ (r2.closePending <=> r.closePending)
      /\ (r2.softFlag <=> r.softFlag) /\ r2.ctlq = r.ctlq
  BY DEF Runtime
<1>3. Placed(r2, l)
  <2>1. SUFFICES ASSUME NEW x \in Stmts PROVE PlacedAt(r2, l, x)
    BY DEF Placed
  <2>2. PlacedAt(r, l, x)
    BY DEF Shape, Placed
  <2> QED
    BY <1>2, <2>2 DEF PlacedAt
<1>4. /\ MailboxShape(r2, l) /\ Accounting(r2, l) /\ LaneShape(r2, l)
      /\ FenceShape(r2, l) /\ StrikeShape(r2, l, v, h) /\ ServerShape(l, v)
      /\ SettledShape(r2)
  BY <1>2
  DEF Shape, MailboxShape, Accounting, LaneShape, FenceShape, StrikeShape,
      Struck, SettledShape
<1>5. CancelsOnly(r, r2)
  BY <1>2 DEF CancelsOnly, Runtime
<1> QED
  BY <1>1, <1>3, <1>4, <1>5, <1>2 DEF Shape

\* _begin_cancel_locked for the statement on the lane: the fence goes up, and
\* a session that executes is cancelling from then on.
LEMMA BeginCancelKeeps ==
  ASSUME NEW r \in Runtime, NEW l \in Lanes, NEW v \in Servers,
         NEW h \in SUBSET Strays, Shape(r, l, v, h),
         NEW why \in Reasons,
         r.current # NoStmt,
         ~r.inFlight,
         NEW r2, r2 = BeginCancel(r, r.current, why)
  PROVE  /\ r2 \in Runtime /\ Shape(r2, l, v, h)
         /\ CancelsOnly(r, r2)
         /\ r2.mailbox = r.mailbox /\ r2.current = r.current
         /\ (r2.accepting <=> r.accepting)
         /\ (r2.closePending <=> r.closePending)
<1>0. r.current \in Stmts /\ r.current = l.s /\ l.pc \in OnLane
  BY DEF Shape, LaneShape, Runtime
<1>1. r2 \in Runtime
  BY <1>0, BeginCancelIs
<1>2. /\ r2.sess = IF r.sess = "executing" THEN "cancelling" ELSE r.sess
      /\ r2.cancelRequested = [r.cancelRequested EXCEPT ![r.current] = TRUE]
      /\ r2.inFlight
      /\ r2.cancelStmt = r.current
      /\ r2.softFlag
      /\ r2.ctlq = Append(r.ctlq, Control("cancel", r.current))
      /\ r2.stmt = r.stmt /\ r2.mailbox = r.mailbox /\ r2.pending = r.pending
      /\ (r2.accepting <=> r.accepting) /\ r2.current = r.current
      /\ (r2.closePending <=> r.closePending)
  BY <1>0, BeginCancelIs
<1>3. Placed(r2, l)
  <2>1. SUFFICES ASSUME NEW x \in Stmts PROVE PlacedAt(r2, l, x)
    BY DEF Placed
  <2>2. PlacedAt(r, l, x)
    BY DEF Shape, Placed
  <2> QED
    BY <1>2, <2>2 DEF PlacedAt
<1>4. FenceShape(r2, l)
  BY <1>0, <1>2 DEF Shape, FenceShape, LaneShape, Runtime
<1>5. StrikeShape(r2, l, v, h)
  <2>1. \A x \in Stmts : r.cancelRequested[x] => r2.cancelRequested[x]
    BY <1>2 DEF Runtime
  <2>2. r2.cancelRequested[l.s]
    BY <1>0, <1>2 DEF Runtime
  <2>3. PICK cmd : cmd = Control("cancel", r.current)
    OBVIOUS
  <2>c. cmd \in Commands /\ cmd.kind = "cancel" /\ cmd.target = r.current
    BY <1>0, <2>3, ControlIs
  <2>4. Targets(r2.ctlq, r2.cancelRequested)
    <3>1. r.ctlq \in Seq(Commands) /\ Targets(r.ctlq, r.cancelRequested)
      BY DEF Runtime, Commands, Shape, StrikeShape
    <3>2. r2.ctlq = Append(r.ctlq, cmd) /\ cmd.target \in Stmts
          /\ r2.cancelRequested[cmd.target]
      BY <1>0, <1>2, <2>2, <2>3, <2>c
    <3> QED
      BY <2>1, <2>c, <3>1, <3>2, TargetsAppend
  <2>5. \A x \in Stmts : Struck(r, h, x) => Struck(r2, h, x)
    BY <2>1 DEF Struck
  <2> QED
    BY <1>0, <1>2, <2>2, <2>4, <2>5 DEF Shape, StrikeShape, LaneShape, Servers
<1>6. /\ MailboxShape(r2, l) /\ Accounting(r2, l) /\ LaneShape(r2, l)
      /\ ServerShape(l, v) /\ SettledShape(r2)
  BY <1>2 DEF Shape, MailboxShape, Accounting, LaneShape, SettledShape
<1>7. CancelsOnly(r, r2)
  BY <1>2 DEF CancelsOnly, Runtime
<1> QED
  BY <1>1, <1>3, <1>4, <1>5, <1>6, <1>7, <1>2 DEF Shape

\* shutdown cancels the statements that are queued.
LEMMA CancelQueuedKeeps ==
  ASSUME NEW r \in Runtime, NEW l \in Lanes, NEW v \in Servers,
         NEW h \in SUBSET Strays, Shape(r, l, v, h),
         NEW r2, r2 = CancelQueued(r)
  PROVE  /\ r2 \in Runtime /\ Shape(r2, l, v, h)
         /\ CancelsOnly(r, r2)
         /\ r2.mailbox = r.mailbox /\ (r2.accepting <=> r.accepting)
         /\ (r2.closePending <=> r.closePending)
<1>1. r2 \in Runtime
  <2> DEFINE st == [s \in Stmts |-> IF r.stmt[s] = "accepted" THEN "cancelled"
                                 ELSE r.stmt[s]]
             cr == [s \in Stmts |-> r.cancelRequested[s] \/ r.stmt[s] = "accepted"]
  <2>1. st \in [Stmts -> StatementStates] /\ cr \in [Stmts -> BOOLEAN]
    BY DEF Runtime, Commands, Control, SessionStates, StatementStates
  <2>2. r2 = [r EXCEPT !.stmt = st, !.cancelRequested = cr]
    BY DEF CancelQueued, Runtime
  <2> HIDE DEF st, cr
  <2> QED
    BY <2>1, <2>2 DEF Runtime, Commands
<1>2. /\ r2.stmt = [s \in Stmts |-> IF r.stmt[s] = "accepted" THEN "cancelled"
                                  ELSE r.stmt[s]]
      /\ r2.cancelRequested = [s \in Stmts |->
                                     r.cancelRequested[s] \/ r.stmt[s] = "accepted"]
  BY DEF Runtime, CancelQueued
<1>3. /\ r2.sess = r.sess /\ r2.mailbox = r.mailbox /\ r2.pending = r.pending
      /\ (r2.accepting <=> r.accepting) /\ r2.current = r.current
      /\ (r2.inFlight <=> r.inFlight) /\ r2.cancelStmt = r.cancelStmt
      /\ (r2.closePending <=> r.closePending) /\ (r2.softFlag <=> r.softFlag)
      /\ r2.ctlq = r.ctlq
  BY DEF Runtime, CancelQueued
<1>4. Placed(r2, l)
  <2>1. ASSUME NEW x \in Stmts
        PROVE  r2.stmt[x] # "accepted" /\ (r2.stmt[x] \in Running => r.stmt[x] = r2.stmt[x])
    BY <1>2 DEF Runtime
  <2> QED
    BY <1>2, <1>3, <2>1 DEF Shape, Placed, PlacedAt
<1>5. LaneShape(r2, l)
  BY <1>2, <1>3 DEF Shape, LaneShape, Runtime
<1>6. FenceShape(r2, l)
  <2>1. \A x \in Stmts : r.cancelRequested[x] => r2.cancelRequested[x]
    BY <1>2 DEF Runtime
  <2> QED
    BY <1>2, <1>3, <2>1 DEF Shape, FenceShape, Runtime
<1>7. StrikeShape(r2, l, v, h)
  <2>1. \A x \in Stmts : r.cancelRequested[x] => r2.cancelRequested[x]
    BY <1>2 DEF Runtime
  <2>2. Targets(r2.ctlq, r2.cancelRequested)
    BY <1>2, <1>3, <2>1, TargetsMore DEF Shape, StrikeShape
  <2>3. \A x \in Stmts : Struck(r, h, x) => Struck(r2, h, x)
    BY <2>1 DEF Struck
  <2>4. ASSUME NEW x \in Stmts, r2.stmt[x] = "cancelled" PROVE Struck(r2, h, x)
    <3>1. r.stmt[x] = "cancelled" \/ r2.cancelRequested[x]
      BY <1>2, <2>4 DEF Runtime
    <3>2. r.stmt[x] = "cancelled" => Struck(r, h, x)
      BY DEF Shape, StrikeShape
    <3> QED
      BY <2>3, <3>1, <3>2 DEF Struck
  <2> QED
    BY <1>2, <1>3, <2>1, <2>2, <2>3, <2>4
    DEF Shape, StrikeShape, LaneShape, Servers
<1>8. /\ MailboxShape(r2, l) /\ Accounting(r2, l) /\ ServerShape(l, v)
      /\ SettledShape(r2)
  BY <1>2, <1>3 DEF Shape, MailboxShape, Accounting, SettledShape
<1>9. CancelsOnly(r, r2)
  BY <1>2, <1>3 DEF CancelsOnly, Runtime
<1> QED
  BY <1>1, <1>4, <1>5, <1>6, <1>7, <1>8, <1>9, <1>2, <1>3 DEF Shape

\* The close command: in the mailbox behind everything accepted, or pending
\* until the mailbox is drained.
LEMMA PutCloseKeeps ==
  ASSUME NEW r \in Runtime, NEW l \in Lanes, NEW v \in Servers,
         NEW h \in SUBSET Strays, Shape(r, l, v, h),
         ~r.accepting, ~HasClose(r.mailbox), ~r.closePending,
         l.pc \notin {"closeFence", "closing"},
         NEW r2, r2 = PutClose(r)
  PROVE  r2 \in Runtime /\ Shape(r2, l, v, h) /\ CancelsOnly(r, r2)
<1>0. /\ r.mailbox \in Box /\ CloseIsLast(r.mailbox) /\ r.pending \in Nat
  BY DEF Runtime, Box, Shape, MailboxShape
<1>1. CASE Len(r.mailbox) < MailboxSize
  <2> DEFINE box == Append(r.mailbox, CloseCmd)
  <2>1. /\ box \in Box /\ CloseIsLast(box) /\ HasClose(box) /\ box # <<>>
        /\ Len(box) = Len(r.mailbox) + 1 /\ Len(r.mailbox) \in Nat
        /\ \A s : InBox(r.mailbox, s) => InBox(box, s)
    BY <1>0, BoxAppend
  <2>2. r2 = [r EXCEPT !.mailbox = box]
    BY <1>1 DEF PutClose
  <2> HIDE DEF box
  <2>3. r2 \in Runtime
    BY <2>1, <2>2 DEF Runtime, Box
  <2>4. /\ r2.mailbox = box /\ r2.sess = r.sess /\ r2.stmt = r.stmt
        /\ r2.cancelRequested = r.cancelRequested /\ r2.pending = r.pending
        /\ r2.current = r.current /\ r2.cancelStmt = r.cancelStmt
        /\ r2.ctlq = r.ctlq
    BY <2>2 DEF Runtime
  <2>5. /\ (r2.accepting <=> r.accepting) /\ (r2.inFlight <=> r.inFlight)
        /\ (r2.closePending <=> r.closePending) /\ (r2.softFlag <=> r.softFlag)
    BY <2>2 DEF Runtime
  <2>6. MailboxShape(r2, l)
    BY <2>1, <2>4, <2>5 DEF Shape, MailboxShape
  <2>7. Accounting(r2, l)
    <3>1. Accounting(r, l)
      BY DEF Shape
    <3> QED
      BY <1>0, <2>1, <2>4, <3>1 DEF Accounting
  <2>8. Placed(r2, l)
    BY <2>1, <2>4 DEF Shape, Placed, PlacedAt
  <2>9. LaneShape(r2, l) /\ FenceShape(r2, l)
    BY <2>4, <2>5 DEF Shape, LaneShape, FenceShape
  <2>10. StrikeShape(r2, l, v, h) /\ ServerShape(l, v) /\ SettledShape(r2)
    BY <2>4, <2>5 DEF Shape, StrikeShape, SettledShape, Struck
  <2>11. CancelsOnly(r, r2)
    BY <2>4 DEF CancelsOnly
  <2> QED
    BY <2>3, <2>6, <2>7, <2>8, <2>9, <2>10, <2>11 DEF Shape
<1>2. CASE ~(Len(r.mailbox) < MailboxSize)
  <2>1. r2 = [r EXCEPT !.closePending = TRUE]
    BY <1>2 DEF PutClose
  <2>2. r2 \in Runtime
    BY <2>1 DEF Runtime
  <2>3. /\ r2.mailbox = r.mailbox /\ r2.sess = r.sess /\ r2.stmt = r.stmt
        /\ r2.cancelRequested = r.cancelRequested /\ r2.pending = r.pending
        /\ r2.current = r.current /\ r2.cancelStmt = r.cancelStmt
        /\ r2.ctlq = r.ctlq
    BY <2>1 DEF Runtime
  <2>4. /\ (r2.accepting <=> r.accepting) /\ (r2.inFlight <=> r.inFlight)
        /\ (r2.softFlag <=> r.softFlag)
    BY <2>1 DEF Runtime
  <2>5. MailboxShape(r2, l)
    BY <2>3, <2>4 DEF Shape, MailboxShape
  <2>6. Accounting(r2, l) /\ Placed(r2, l)
    BY <2>3 DEF Shape, Accounting, Placed, PlacedAt
  <2>7. LaneShape(r2, l) /\ FenceShape(r2, l)
    BY <2>3, <2>4 DEF Shape, LaneShape, FenceShape
  <2>8. StrikeShape(r2, l, v, h) /\ ServerShape(l, v) /\ SettledShape(r2)
    BY <2>3, <2>4 DEF Shape, StrikeShape, SettledShape, Struck
  <2>9. CancelsOnly(r, r2)
    BY <2>3 DEF CancelsOnly
  <2> QED
    BY <2>2, <2>5, <2>6, <2>7, <2>8, <2>9 DEF Shape
<1> QED
  BY <1>1, <1>2

\* A statement is accepted into the mailbox, behind which there is no close.
LEMMA SubmitKeeps ==
  ASSUME NEW r \in Runtime, NEW l \in Lanes, NEW v \in Servers,
         NEW h \in SUBSET Strays, Shape(r, l, v, h),
         NEW s \in Stmts,
         r.stmt[s] = "none",
         r.accepting,
         NEW r2, r2 = Accepting(r, s)
  PROVE  /\ r2 \in Runtime /\ Shape(r2, l, v, h)
         /\ Legal(r, r2)
<1> USE DEF Accepting
<1>0. /\ r.mailbox \in Box /\ CloseIsLast(r.mailbox) /\ ~HasClose(r.mailbox)
      /\ l.pc \notin {"closeFence", "closing"} /\ r.pending \in Nat
  BY DEF Runtime, Box, Shape, MailboxShape
<1>a. /\ Append(r.mailbox, s) \in Box /\ CloseIsLast(Append(r.mailbox, s))
      /\ ~HasClose(Append(r.mailbox, s))
      /\ Len(Append(r.mailbox, s)) = Len(r.mailbox) + 1 /\ Len(r.mailbox) \in Nat
      /\ InBox(Append(r.mailbox, s), s)
      /\ \A x : InBox(r.mailbox, x) => InBox(Append(r.mailbox, s), x)
  <2>1. s \in Stmts \cup {CloseCmd} /\ s # CloseCmd
    OBVIOUS
  <2> QED
    BY <1>0, <2>1, BoxAppend
<1>1. r2 \in Runtime
  <2> DEFINE st == [r.stmt EXCEPT ![s] = "accepted"]
             box == Append(r.mailbox, s)
             n == r.pending + 1
  <2>1. st \in [Stmts -> StatementStates] /\ box \in Box /\ n \in Nat
    BY <1>0, <1>a DEF Runtime, Commands, Control, SessionStates, StatementStates
  <2>2. r2 = [r EXCEPT !.stmt = st, !.mailbox = box, !.pending = n]
    BY DEF Runtime
  <2> HIDE DEF st, box, n
  <2> QED
    BY ZenonT(60), <2>1, <2>2 DEF Runtime, Commands, Box
<1>2. /\ r2.stmt = [r.stmt EXCEPT ![s] = "accepted"]
      /\ r2.mailbox = Append(r.mailbox, s)
      /\ r2.pending = r.pending + 1
  BY DEF Runtime
<1>3. /\ r2.sess = r.sess /\ r2.cancelRequested = r.cancelRequested
      /\ (r2.accepting <=> r.accepting) /\ r2.current = r.current
      /\ (r2.inFlight <=> r.inFlight) /\ r2.cancelStmt = r.cancelStmt
      /\ (r2.closePending <=> r.closePending) /\ (r2.softFlag <=> r.softFlag)
      /\ r2.ctlq = r.ctlq
  BY DEF Runtime
<1>4. MailboxShape(r2, l)
  BY <1>2, <1>3, <1>0, <1>a DEF Shape, MailboxShape
<1>5. Accounting(r2, l)
  <2>1. Accounting(r, l)
    BY DEF Shape
  <2> QED
    BY <1>0, <1>a, <1>2, <1>3, <2>1 DEF Accounting
<1>6. Placed(r2, l)
  BY <1>2, <1>3, <1>0, <1>a DEF Shape, Placed, PlacedAt, Runtime
<1>7. LaneShape(r2, l)
  BY <1>2, <1>3 DEF Shape, LaneShape, Runtime
<1>8. StrikeShape(r2, l, v, h)
  BY <1>2, <1>3 DEF Shape, StrikeShape, Struck, Runtime
<1>9. SettledShape(r2)
  BY <1>2, <1>3 DEF Shape, LaneShape, Lanes, LanePcs, SettledShape
<1>10. /\ FenceShape(r2, l) /\ ServerShape(l, v)
  BY <1>2, <1>3 DEF Shape, FenceShape
<1>11. Legal(r, r2)
  BY <1>2, <1>3 DEF Legal, SessionTransitions, StatementTransitions, Runtime
<1> QED
  BY <1>1, <1>4, <1>5, <1>6, <1>7, <1>8, <1>9, <1>10, <1>11 DEF Shape

\* results.register raised: the statement is failed and never queued.
LEMMA SubmitFailsKeeps ==
  ASSUME NEW r \in Runtime, NEW l \in Lanes, NEW v \in Servers,
         NEW h \in SUBSET Strays, Shape(r, l, v, h),
         NEW s \in Stmts,
         r.stmt[s] = "none",
         NEW r2, r2 = [r EXCEPT !.stmt[s] = "failed"]
  PROVE  /\ r2 \in Runtime /\ Shape(r2, l, v, h)
         /\ Legal(r, r2)
<1>1. r2 \in Runtime
  <2> DEFINE st == [r.stmt EXCEPT ![s] = "failed"]
  <2>1. st \in [Stmts -> StatementStates]
    BY DEF Runtime, Commands, Control, SessionStates, StatementStates
  <2>2. r2 = [r EXCEPT !.stmt = st]
    BY DEF Runtime
  <2> HIDE DEF st
  <2> QED
    BY <2>1, <2>2 DEF Runtime, Commands
<1>2. /\ r2.stmt = [r.stmt EXCEPT ![s] = "failed"]
  BY DEF Runtime
<1>3. /\ r2.sess = r.sess /\ r2.cancelRequested = r.cancelRequested
      /\ r2.mailbox = r.mailbox /\ r2.pending = r.pending
      /\ (r2.accepting <=> r.accepting) /\ r2.current = r.current
      /\ (r2.inFlight <=> r.inFlight) /\ r2.cancelStmt = r.cancelStmt
      /\ (r2.closePending <=> r.closePending) /\ (r2.softFlag <=> r.softFlag)
      /\ r2.ctlq = r.ctlq
  BY DEF Runtime
<1>4. Placed(r2, l)
  BY <1>2, <1>3 DEF Shape, Placed, PlacedAt, Runtime
<1>5. LaneShape(r2, l)
  BY <1>2, <1>3 DEF Shape, LaneShape, Runtime
<1>6. StrikeShape(r2, l, v, h)
  BY <1>2, <1>3 DEF Shape, StrikeShape, Struck, Runtime
<1>7. SettledShape(r2)
  BY <1>2, <1>3 DEF Shape, SettledShape, Runtime
<1>8. /\ MailboxShape(r2, l) /\ Accounting(r2, l) /\ FenceShape(r2, l)
      /\ ServerShape(l, v)
  BY <1>2, <1>3 DEF Shape, MailboxShape, Accounting, FenceShape
<1>9. Legal(r, r2)
  BY <1>2, <1>3 DEF Legal, SessionTransitions, StatementTransitions, Runtime
<1> QED
  BY <1>1, <1>4, <1>5, <1>6, <1>7, <1>8, <1>9 DEF Shape

\* A cancel of a statement that is still queued.
LEMMA CancelAcceptedKeeps ==
  ASSUME NEW r \in Runtime, NEW l \in Lanes, NEW v \in Servers,
         NEW h \in SUBSET Strays, Shape(r, l, v, h),
         NEW s \in Stmts,
         r.stmt[s] = "accepted",
         NEW r2, r2 = [r EXCEPT !.stmt[s] = "cancelled", !.cancelRequested[s] = TRUE]
  PROVE  /\ r2 \in Runtime /\ Shape(r2, l, v, h)
         /\ Legal(r, r2)
<1>1. r2 \in Runtime
  <2> DEFINE st == [r.stmt EXCEPT ![s] = "cancelled"]
             cr == [r.cancelRequested EXCEPT ![s] = TRUE]
  <2>1. st \in [Stmts -> StatementStates] /\ cr \in [Stmts -> BOOLEAN]
    BY DEF Runtime, Commands, Control, SessionStates, StatementStates
  <2>2. r2 = [r EXCEPT !.stmt = st, !.cancelRequested = cr]
    BY DEF Runtime
  <2> HIDE DEF st, cr
  <2> QED
    BY <2>1, <2>2 DEF Runtime, Commands
<1>2. /\ r2.stmt = [r.stmt EXCEPT ![s] = "cancelled"]
      /\ r2.cancelRequested = [r.cancelRequested EXCEPT ![s] = TRUE]
  BY DEF Runtime
<1>3. /\ r2.sess = r.sess /\ r2.mailbox = r.mailbox /\ r2.pending = r.pending
      /\ (r2.accepting <=> r.accepting) /\ r2.current = r.current
      /\ (r2.inFlight <=> r.inFlight) /\ r2.cancelStmt = r.cancelStmt
      /\ (r2.closePending <=> r.closePending) /\ (r2.softFlag <=> r.softFlag)
      /\ r2.ctlq = r.ctlq
  BY DEF Runtime
<1>4. Placed(r2, l)
  BY <1>2, <1>3 DEF Shape, Placed, PlacedAt, Runtime
<1>5. LaneShape(r2, l)
  BY <1>2, <1>3 DEF Shape, LaneShape, Runtime
<1>6. FenceShape(r2, l)
  <2>1. \A x \in Stmts : r.cancelRequested[x] => r2.cancelRequested[x]
    BY <1>2 DEF Runtime
  <2> QED
    BY <1>2, <1>3, <2>1 DEF Shape, FenceShape, Runtime
<1>7. StrikeShape(r2, l, v, h)
  <2>1. \A x \in Stmts : r.cancelRequested[x] => r2.cancelRequested[x]
    BY <1>2 DEF Runtime
  <2>2. Targets(r2.ctlq, r2.cancelRequested)
    BY <1>2, <1>3, <2>1, TargetsMore DEF Shape, StrikeShape
  <2>3. \A x \in Stmts : Struck(r, h, x) => Struck(r2, h, x)
    BY <2>1 DEF Struck
  <2>4. ASSUME NEW x \in Stmts, r2.stmt[x] = "cancelled" PROVE Struck(r2, h, x)
    <3>1. r.stmt[x] = "cancelled" \/ r2.cancelRequested[x]
      BY <1>2, <2>4 DEF Runtime
    <3>2. r.stmt[x] = "cancelled" => Struck(r, h, x)
      BY DEF Shape, StrikeShape
    <3> QED
      BY <2>3, <3>1, <3>2 DEF Struck
  <2> QED
    BY <1>2, <1>3, <2>1, <2>2, <2>3, <2>4
    DEF Shape, StrikeShape, LaneShape, Servers
<1>8. SettledShape(r2)
  BY <1>2, <1>3 DEF Shape, SettledShape, Runtime
<1>9. /\ MailboxShape(r2, l) /\ Accounting(r2, l) /\ ServerShape(l, v)
  BY <1>2, <1>3 DEF Shape, MailboxShape, Accounting
<1>10. Legal(r, r2)
  BY <1>2, <1>3 DEF Legal, SessionTransitions, StatementTransitions, Runtime
<1> QED
  BY <1>1, <1>4, <1>5, <1>6, <1>7, <1>8, <1>9, <1>10 DEF Shape

\* shutdown tells the control lane to stop.
LEMMA ControlStopKeeps ==
  ASSUME NEW r \in Runtime, NEW l \in Lanes, NEW v \in Servers,
         NEW h \in SUBSET Strays, Shape(r, l, v, h),
         NEW r2, r2 = [r EXCEPT !.ctlq = Append(@, Control("stop", NoStmt))]
  PROVE  /\ r2 \in Runtime /\ Shape(r2, l, v, h)
         /\ Legal(r, r2)
<1>1. r2 \in Runtime
  <2> DEFINE q == Append(r.ctlq, Control("stop", NoStmt))
  <2>1. q \in Seq(Commands)
    BY DEF Runtime, Commands, Control, SessionStates, StatementStates
  <2>2. r2 = [r EXCEPT !.ctlq = q]
    BY DEF Runtime
  <2> HIDE DEF q
  <2> QED
    BY <2>1, <2>2 DEF Runtime, Commands
<1>2. /\ r2.ctlq = Append(r.ctlq, Control("stop", NoStmt))
  BY DEF Runtime
<1>3. /\ r2.sess = r.sess /\ r2.stmt = r.stmt
      /\ r2.cancelRequested = r.cancelRequested /\ r2.mailbox = r.mailbox
      /\ r2.pending = r.pending /\ (r2.accepting <=> r.accepting)
      /\ r2.current = r.current /\ (r2.inFlight <=> r.inFlight)
      /\ r2.cancelStmt = r.cancelStmt /\ (r2.closePending <=> r.closePending)
      /\ (r2.softFlag <=> r.softFlag)
  BY DEF Runtime
<1>4. Placed(r2, l)
  <2>1. SUFFICES ASSUME NEW x \in Stmts PROVE PlacedAt(r2, l, x)
    BY DEF Placed
  <2>2. PlacedAt(r, l, x)
    BY DEF Shape, Placed
  <2> QED
    BY <1>2, <1>3, <2>2 DEF PlacedAt
<1>5. StrikeShape(r2, l, v, h)
  <2>1. PICK cmd : cmd = Control("stop", NoStmt)
    OBVIOUS
  <2>c. cmd \in Commands /\ cmd.kind = "stop" /\ cmd.target = NoStmt
    BY <2>1, ControlIs DEF Runtime
  <2>2. r.ctlq \in Seq(Commands) /\ Targets(r.ctlq, r.cancelRequested)
    BY DEF Runtime, Commands, Shape, StrikeShape
  <2>3. r2.ctlq = Append(r.ctlq, cmd) /\ r2.cancelRequested = r.cancelRequested
    BY <1>2, <1>3, <2>1
  <2>4. cmd.kind # "stop" => cmd.target \in Stmts /\ r.cancelRequested[cmd.target]
    BY <2>c
  <2>5. Targets(r2.ctlq, r.cancelRequested)
    BY <2>2, <2>3, <2>4, <2>c, TargetsAppend
  <2> QED
    BY <1>2, <1>3, <2>5 DEF Shape, StrikeShape, Struck
<1>6. /\ MailboxShape(r2, l) /\ Accounting(r2, l) /\ LaneShape(r2, l)
      /\ FenceShape(r2, l) /\ ServerShape(l, v) /\ SettledShape(r2)
  BY <1>2, <1>3
  DEF Shape, MailboxShape, Accounting, LaneShape, FenceShape, SettledShape
<1>7. Legal(r, r2)
  BY <1>2, <1>3 DEF Legal, SessionTransitions, StatementTransitions, Runtime
<1> QED
  BY <1>1, <1>4, <1>5, <1>6, <1>7 DEF Shape

\* A cancel past its grace is escalated to the destruction of the connection.
LEMMA EscalateKeeps ==
  ASSUME NEW r \in Runtime, NEW l \in Lanes, NEW v \in Servers,
         NEW h \in SUBSET Strays, Shape(r, l, v, h),
         r.inFlight,
         NEW r2, r2 = [r EXCEPT !.destroySent = TRUE,
                               !.ctlq = Append(@, Control("destroy", r.cancelStmt))]
  PROVE  /\ r2 \in Runtime /\ Shape(r2, l, v, h)
         /\ CancelsOnly(r, r2)
<1>0. r.cancelStmt \in Stmts /\ r.cancelRequested[r.cancelStmt]
  BY DEF Shape, FenceShape, Runtime
<1>1. r2 \in Runtime
  <2> DEFINE q == Append(r.ctlq, Control("destroy", r.cancelStmt))
  <2>1. q \in Seq(Commands)
    BY DEF Runtime, Commands, Control, SessionStates, StatementStates
  <2>2. r2 = [r EXCEPT !.destroySent = TRUE, !.ctlq = q]
    BY DEF Runtime
  <2> HIDE DEF q
  <2> QED
    BY ZenonT(60), <2>1, <2>2 DEF Runtime, Commands
<1>2. /\ r2.ctlq = Append(r.ctlq, Control("destroy", r.cancelStmt))
  BY DEF Runtime
<1>3. /\ r2.sess = r.sess /\ r2.stmt = r.stmt
      /\ r2.cancelRequested = r.cancelRequested /\ r2.mailbox = r.mailbox
      /\ r2.pending = r.pending /\ (r2.accepting <=> r.accepting)
      /\ r2.current = r.current /\ (r2.inFlight <=> r.inFlight)
      /\ r2.cancelStmt = r.cancelStmt /\ (r2.closePending <=> r.closePending)
      /\ (r2.softFlag <=> r.softFlag)
  BY DEF Runtime
<1>4. Placed(r2, l)
  <2>1. SUFFICES ASSUME NEW x \in Stmts PROVE PlacedAt(r2, l, x)
    BY DEF Placed
  <2>2. PlacedAt(r, l, x)
    BY DEF Shape, Placed
  <2> QED
    BY <1>2, <1>3, <2>2 DEF PlacedAt
<1>5. StrikeShape(r2, l, v, h)
  <2>1. PICK cmd : cmd = Control("destroy", r.cancelStmt)
    OBVIOUS
  <2>c. cmd \in Commands /\ cmd.kind = "destroy" /\ cmd.target = r.cancelStmt
    BY <2>1, ControlIs DEF Runtime
  <2>2. r.ctlq \in Seq(Commands) /\ Targets(r.ctlq, r.cancelRequested)
    BY DEF Runtime, Commands, Shape, StrikeShape
  <2>3. r2.ctlq = Append(r.ctlq, cmd) /\ r2.cancelRequested = r.cancelRequested
    BY <1>2, <1>3, <2>1
  <2>4. cmd.kind # "stop" => cmd.target \in Stmts /\ r.cancelRequested[cmd.target]
    BY <2>c, <1>0
  <2>5. Targets(r2.ctlq, r.cancelRequested)
    BY <2>2, <2>3, <2>4, <2>c, TargetsAppend
  <2> QED
    BY <1>2, <1>3, <2>5 DEF Shape, StrikeShape, Struck
<1>6. /\ MailboxShape(r2, l) /\ Accounting(r2, l) /\ LaneShape(r2, l)
      /\ FenceShape(r2, l) /\ ServerShape(l, v) /\ SettledShape(r2)
  BY <1>2, <1>3
  DEF Shape, MailboxShape, Accounting, LaneShape, FenceShape, SettledShape
<1>7. CancelsOnly(r, r2)
  BY <1>2, <1>3 DEF CancelsOnly, Runtime
<1> QED
  BY <1>1, <1>4, <1>5, <1>6, <1>7 DEF Shape

----------------------------------------------------------------------------
(* The end of a statement and the answers of the control lane.              *)

\* What losing the session writes.
LEMMA LoseIs ==
  ASSUME NEW r \in Runtime, NEW r2, r2 = Lose(r)
  PROVE  /\ r2 \in Runtime /\ r2.sess = "session_lost"
         /\ r.sess = "session_lost" => r2 = r
         /\ r.sess # "session_lost" => ~r2.accepting /\ ~r2.inFlight
         /\ r2.stmt = r.stmt /\ r2.cancelRequested = r.cancelRequested
         /\ r2.mailbox = r.mailbox /\ r2.pending = r.pending
         /\ r2.current = r.current /\ r2.cancelStmt = r.cancelStmt
         /\ r2.ctlq = r.ctlq
         /\ (r2.closePending <=> r.closePending) /\ (r2.softFlag <=> r.softFlag)
<1>1. CASE r.sess = "session_lost"
  BY <1>1 DEF Lose
<1>2. CASE r.sess # "session_lost"
  <2>1. r2 = [r EXCEPT !.accepting = FALSE, !.inFlight = FALSE,
                       !.sess = "session_lost"]
    BY <1>2 DEF Lose
  <2>2. r2 \in Runtime
    BY <2>1 DEF Runtime, SessionStates
  <2>3. r2.sess = "session_lost" /\ ~r2.accepting /\ ~r2.inFlight
    BY <2>1 DEF Runtime
  <2>4. /\ r2.stmt = r.stmt /\ r2.cancelRequested = r.cancelRequested
        /\ r2.mailbox = r.mailbox /\ r2.pending = r.pending
        /\ r2.current = r.current /\ r2.cancelStmt = r.cancelStmt
        /\ r2.ctlq = r.ctlq
    BY <2>1 DEF Runtime
  <2>5. (r2.closePending <=> r.closePending) /\ (r2.softFlag <=> r.softFlag)
    BY <2>1 DEF Runtime
  <2> QED
    BY <1>2, <2>2, <2>3, <2>4, <2>5
<1> QED
  BY <1>1, <1>2

\* What lifting the fence writes.
LEMMA SettleIs ==
  ASSUME NEW r \in Runtime, NEW s, NEW r2, r2 = Settle(r, s)
  PROVE  /\ r2 \in Runtime
         /\ ~Settles(r, s) => r2 = r
         /\ Settles(r, s) =>
               /\ ~r2.inFlight /\ ~r2.softFlag /\ r2.cancelStmt = NoStmt
               /\ r2.sess = IF r.sess = "cancelling" THEN "idle" ELSE r.sess
         /\ r2.stmt = r.stmt /\ r2.cancelRequested = r.cancelRequested
         /\ r2.mailbox = r.mailbox /\ r2.pending = r.pending
         /\ r2.current = r.current /\ r2.ctlq = r.ctlq
         /\ (r2.closePending <=> r.closePending)
         /\ (r2.accepting <=> r.accepting)
<1>1. CASE ~Settles(r, s)
  BY <1>1 DEF Settle
<1>2. CASE Settles(r, s)
  <2> DEFINE st == IF r.sess = "cancelling" THEN "idle" ELSE r.sess
  <2>0. st \in SessionStates
    BY DEF Runtime, SessionStates
  <2>1. r2 = [r EXCEPT !.inFlight = FALSE, !.cancelStmt = NoStmt,
                       !.reason = "none", !.destroySent = FALSE,
                       !.softFlag = FALSE, !.sess = st]
    BY <1>2 DEF Settle, Runtime
  <2> HIDE DEF st
  <2>2. r2 \in Runtime
    BY ZenonT(60), <2>0, <2>1 DEF Runtime
  <2>3. ~r2.inFlight /\ ~r2.softFlag /\ r2.cancelStmt = NoStmt /\ r2.sess = st
    BY <2>1 DEF Runtime
  <2>4. /\ r2.stmt = r.stmt /\ r2.cancelRequested = r.cancelRequested
        /\ r2.mailbox = r.mailbox /\ r2.pending = r.pending
        /\ r2.current = r.current /\ r2.ctlq = r.ctlq
    BY <2>1 DEF Runtime
  <2>5. (r2.closePending <=> r.closePending) /\ (r2.accepting <=> r.accepting)
    BY <2>1 DEF Runtime
  <2> QED
    BY <1>2, <2>2, <2>3, <2>4, <2>5 DEF st
<1> QED
  BY <1>1, <1>2


\* The control lane recorded that its cancel returned.
LEMMA ReportKeeps ==
  ASSUME NEW r \in Runtime, NEW l \in Lanes, NEW v \in Servers,
         NEW h \in SUBSET Strays, Shape(r, l, v, h),
         NEW r2, r2 = [r EXCEPT !.controlDone = TRUE]
  PROVE  /\ r2 \in Runtime /\ Shape(r2, l, v, h)
         /\ r2.sess = r.sess /\ r2.stmt = r.stmt
<1>1. r2 \in Runtime
  BY DEF Runtime
<1>2. /\ r2.sess = r.sess /\ r2.stmt = r.stmt
      /\ r2.cancelRequested = r.cancelRequested /\ r2.mailbox = r.mailbox
      /\ r2.pending = r.pending /\ (r2.accepting <=> r.accepting)
      /\ r2.current = r.current /\ (r2.inFlight <=> r.inFlight)
      /\ r2.cancelStmt = r.cancelStmt /\ (r2.closePending <=> r.closePending)
      /\ (r2.softFlag <=> r.softFlag) /\ r2.ctlq = r.ctlq
  BY DEF Runtime
<1>3. Placed(r2, l)
  <2>1. SUFFICES ASSUME NEW x \in Stmts PROVE PlacedAt(r2, l, x)
    BY DEF Placed
  <2>2. PlacedAt(r, l, x)
    BY DEF Shape, Placed
  <2> QED
    BY <1>2, <2>2 DEF PlacedAt
<1>4. /\ MailboxShape(r2, l) /\ Accounting(r2, l) /\ LaneShape(r2, l)
      /\ FenceShape(r2, l) /\ StrikeShape(r2, l, v, h) /\ ServerShape(l, v)
      /\ SettledShape(r2)
  BY <1>2
  DEF Shape, MailboxShape, Accounting, LaneShape, FenceShape, StrikeShape,
      Struck, SettledShape
<1> QED
  BY <1>1, <1>3, <1>4, <1>2 DEF Shape

\* The lane recorded that the server confirmed an interrupt.
LEMMA ConfirmedKeeps ==
  ASSUME NEW r \in Runtime, NEW l \in Lanes, NEW v \in Servers,
         NEW h \in SUBSET Strays, Shape(r, l, v, h),
         NEW r2, r2 = [r EXCEPT !.confirmed = TRUE]
  PROVE  /\ r2 \in Runtime /\ Shape(r2, l, v, h)
         /\ Legal(r, r2)
<1>1. r2 \in Runtime
  BY DEF Runtime
<1>2. /\ r2.sess = r.sess /\ r2.stmt = r.stmt
      /\ r2.cancelRequested = r.cancelRequested /\ r2.mailbox = r.mailbox
      /\ r2.pending = r.pending /\ (r2.accepting <=> r.accepting)
      /\ r2.current = r.current /\ (r2.inFlight <=> r.inFlight)
      /\ r2.cancelStmt = r.cancelStmt /\ (r2.closePending <=> r.closePending)
      /\ (r2.softFlag <=> r.softFlag) /\ r2.ctlq = r.ctlq
  BY DEF Runtime
<1>3. Placed(r2, l)
  <2>1. SUFFICES ASSUME NEW x \in Stmts PROVE PlacedAt(r2, l, x)
    BY DEF Placed
  <2>2. PlacedAt(r, l, x)
    BY DEF Shape, Placed
  <2> QED
    BY <1>2, <2>2 DEF PlacedAt
<1>4. /\ MailboxShape(r2, l) /\ Accounting(r2, l) /\ LaneShape(r2, l)
      /\ FenceShape(r2, l) /\ StrikeShape(r2, l, v, h) /\ ServerShape(l, v)
      /\ SettledShape(r2)
  BY <1>2
  DEF Shape, MailboxShape, Accounting, LaneShape, FenceShape, StrikeShape,
      Struck, SettledShape
<1>5. Legal(r, r2)
  BY <1>2 DEF Legal, SessionTransitions, StatementTransitions, Runtime
<1> QED
  BY <1>1, <1>3, <1>4, <1>5 DEF Shape

\* The fence is lifted: the session it held is idle.
LEMMA SettleKeeps ==
  ASSUME NEW r \in Runtime, NEW l \in Lanes, NEW v \in Servers,
         NEW h \in SUBSET Strays, Shape(r, l, v, h),
         NEW s, NEW r2, r2 = Settle(r, s)
  PROVE  r2 \in Runtime /\ Shape(r2, l, v, h)
<1>1. CASE ~Settles(r, s)
  BY <1>1, SettleIs
<1>2. CASE Settles(r, s)
  <2>1. /\ r2 \in Runtime
        /\ ~r2.inFlight /\ ~r2.softFlag /\ r2.cancelStmt = NoStmt
        /\ r2.sess = IF r.sess = "cancelling" THEN "idle" ELSE r.sess
        /\ r2.stmt = r.stmt /\ r2.cancelRequested = r.cancelRequested
        /\ r2.mailbox = r.mailbox /\ r2.pending = r.pending
        /\ r2.current = r.current /\ r2.ctlq = r.ctlq
        /\ (r2.closePending <=> r.closePending)
        /\ (r2.accepting <=> r.accepting)
    BY <1>2, SettleIs
  <2>2. MailboxShape(r2, l) /\ Accounting(r2, l) /\ Placed(r2, l)
    BY <2>1 DEF Shape, MailboxShape, Accounting, Placed, PlacedAt
  <2>3. LaneShape(r2, l)
    BY <2>1 DEF Shape, LaneShape
  <2>4. FenceShape(r2, l)
    BY <2>1 DEF Shape, FenceShape
  <2>5. StrikeShape(r2, l, v, h)
    BY <2>1 DEF Shape, StrikeShape, Struck
  <2>6. ServerShape(l, v) /\ SettledShape(r2)
    BY <2>1 DEF Shape, SettledShape
  <2> QED
    BY <2>1, <2>2, <2>3, <2>4, <2>5, <2>6 DEF Shape
<1> QED
  BY <1>1, <1>2

\* The control lane reports a cancel: the fence of the cancelled statement may
\* be lifted now.
LEMMA OnCancelDoneKeeps ==
  ASSUME NEW r \in Runtime, NEW l \in Lanes, NEW v \in Servers,
         NEW h \in SUBSET Strays, Shape(r, l, v, h),
         NEW r2, r2 = OnCancelDone(r)
  PROVE  r2 \in Runtime /\ Shape(r2, l, v, h) /\ Legal(r, r2)
<1>1. CASE r.cancelStmt = NoStmt
  BY <1>1 DEF OnCancelDone, Legal
<1>2. CASE r.cancelStmt # NoStmt
  <2>1. PICK m : m = [r EXCEPT !.controlDone = TRUE]
    OBVIOUS
  <2>2. /\ m \in Runtime /\ Shape(m, l, v, h)
        /\ m.sess = r.sess /\ m.stmt = r.stmt
    BY <2>1, ReportKeeps
  <2>3. r2 = Settle(m, r.cancelStmt)
    BY <1>2, <2>1 DEF OnCancelDone
  <2>4. r2.stmt = r.stmt /\ (r2.sess = r.sess \/ <<r.sess, r2.sess>> = <<"cancelling", "idle">>)
    BY <2>2, <2>3, SettleIs
  <2>5. Legal(r, r2)
    BY <2>4 DEF Legal, SessionTransitions
  <2> QED
    BY <2>2, <2>3, <2>5, SettleKeeps
<1> QED
  BY <1>1, <1>2

\* The control lane reports that the connection is destroyed: the statement
\* that runs is failed, never cancelled, and the session is lost.
LEMMA OnDestroyDoneKeeps ==
  ASSUME NEW r \in Runtime, NEW l \in Lanes, NEW v \in Servers,
         NEW h \in SUBSET Strays, Shape(r, l, v, h),
         NEW r2, r2 = OnDestroyDone(r)
  PROVE  r2 \in Runtime /\ Shape(r2, l, v, h) /\ Legal(r, r2)
<1>1. CASE r.cancelStmt = NoStmt
  BY <1>1 DEF OnDestroyDone, Legal
<1>2. CASE r.cancelStmt # NoStmt
  <2> DEFINE st == IF r.stmt[r.cancelStmt] \in Terminal THEN r.stmt
                   ELSE [r.stmt EXCEPT ![r.cancelStmt] = "failed"]
             ended == IF r.stmt[r.cancelStmt] \in Terminal THEN r
                      ELSE [r EXCEPT !.stmt[r.cancelStmt] = "failed"]
             dead == Lose(ended)
  <2>0. r.cancelStmt \in Stmts
    BY <1>2 DEF Runtime
  <2>1. st \in [Stmts -> StatementStates]
    BY <2>0 DEF Runtime, StatementStates
  <2>2. ended = [r EXCEPT !.stmt = st]
    BY DEF Runtime
  <2>3. r2 = [dead EXCEPT !.current = NoStmt]
    BY <1>2 DEF OnDestroyDone
  <2>4. \A x \in Stmts : \/ st[x] = r.stmt[x]
                         \/ st[x] = "failed" /\ r.stmt[x] \notin Terminal
    BY <2>0 DEF Runtime
  <2> HIDE DEF st, ended
  <2>5. ended \in Runtime
    BY <2>1, <2>2 DEF Runtime
  <2>6. /\ ended.stmt = st /\ ended.sess = r.sess
        /\ ended.cancelRequested = r.cancelRequested
        /\ ended.mailbox = r.mailbox /\ ended.pending = r.pending
        /\ ended.cancelStmt = r.cancelStmt /\ ended.ctlq = r.ctlq
    BY <2>2 DEF Runtime
  <2>7. /\ (ended.closePending <=> r.closePending)
        /\ (ended.softFlag <=> r.softFlag) /\ (ended.inFlight <=> r.inFlight)
        /\ (ended.accepting <=> r.accepting)
    BY <2>2 DEF Runtime
  <2> HIDE DEF dead
  <2>8. /\ dead \in Runtime /\ dead.sess = "session_lost"
        /\ ~dead.accepting /\ ~dead.inFlight
        /\ dead.stmt = st /\ dead.cancelRequested = r.cancelRequested
        /\ dead.mailbox = r.mailbox /\ dead.pending = r.pending
        /\ dead.cancelStmt = r.cancelStmt /\ dead.ctlq = r.ctlq
        /\ (dead.closePending <=> r.closePending)
        /\ (dead.softFlag <=> r.softFlag)
    BY <2>5, <2>6, <2>7, LoseIs DEF dead, Shape, LaneShape, FenceShape
  <2>9. r2 \in Runtime
    BY <2>3, <2>8 DEF Runtime
  <2>10. /\ r2.sess = "session_lost" /\ r2.current = NoStmt
         /\ r2.stmt = st /\ r2.cancelRequested = r.cancelRequested
         /\ r2.mailbox = r.mailbox /\ r2.pending = r.pending
         /\ r2.cancelStmt = r.cancelStmt /\ r2.ctlq = r.ctlq
    BY <2>3, <2>8 DEF Runtime
  <2>11. /\ ~r2.accepting /\ ~r2.inFlight
         /\ (r2.closePending <=> r.closePending)
         /\ (r2.softFlag <=> r.softFlag)
    BY <2>3, <2>8 DEF Runtime
  <2>12. MailboxShape(r2, l) /\ Accounting(r2, l)
    BY <2>10, <2>11 DEF Shape, MailboxShape, Accounting
  <2>13. Placed(r2, l)
    BY <2>4, <2>10 DEF Shape, Placed, PlacedAt
  <2>14. LaneShape(r2, l)
    BY <1>2, <2>0, <2>4, <2>10, <2>11 DEF Shape, LaneShape, FenceShape, Lanes
  <2>15. FenceShape(r2, l)
    BY <2>10, <2>11 DEF Shape, FenceShape
  <2>16. StrikeShape(r2, l, v, h)
    BY <2>4, <2>10, <2>11 DEF Shape, StrikeShape, Struck
  <2>17. ServerShape(l, v) /\ SettledShape(r2)
    BY <2>10 DEF Shape, SettledShape
  <2>18. Legal(r, r2)
    <3>1. \A x \in Stmts : r.stmt[x] \in StatementStates
      BY DEF Runtime
    <3>2. r.sess \in {"idle", "cancelling", "session_lost"}
      BY <1>2 DEF Shape, FenceShape
    <3> QED
      BY <2>4, <2>10, <3>1, <3>2
         DEF Legal, SessionTransitions, StatementTransitions, StatementStates
  <2> QED
    BY <2>9, <2>12, <2>13, <2>14, <2>15, <2>16, <2>17, <2>18 DEF Shape
<1> QED
  BY <1>1, <1>2

----------------------------------------------------------------------------
(* Beginning a close, and the timer.                                        *)

\* The helpers that begin cancels and closes compose.
LEMMA CancelsTwice ==
  ASSUME NEW r, NEW m, NEW r2, CancelsOnly(r, m), CancelsOnly(m, r2)
  PROVE  CancelsOnly(r, r2)
  BY DEF CancelsOnly

\* What they write is legal.
LEMMA CancelsAreLegal ==
  ASSUME NEW r, NEW r2, CancelsOnly(r, r2)
  PROVE  Legal(r, r2)
  BY DEF CancelsOnly, Legal, SessionTransitions, StatementTransitions

\* A close: no more statements, the one that runs cancelled, at shutdown the
\* queued ones too, and the command put behind them.
LEMMA QueueCloseKeeps ==
  ASSUME NEW r \in Runtime, NEW l \in Lanes, NEW v \in Servers,
         NEW h \in SUBSET Strays, Shape(r, l, v, h),
         NEW why, NEW cancelCurrent \in BOOLEAN,
         NEW r2, r2 = QueueClose(r, why, cancelCurrent)
  PROVE  r2 \in Runtime /\ Shape(r2, l, v, h) /\ CancelsOnly(r, r2)
<1>1. CASE ~r.accepting
  BY <1>1 DEF QueueClose, CancelsOnly
<1>2. CASE r.accepting
  <2>0. /\ ~HasClose(r.mailbox) /\ ~r.closePending
        /\ l.pc \notin {"closeFence", "closing"}
    BY <1>2 DEF Shape, MailboxShape
  <2>1. PICK m1 : m1 = [r EXCEPT !.accepting = FALSE]
    OBVIOUS
  <2>2. /\ m1 \in Runtime /\ Shape(m1, l, v, h) /\ CancelsOnly(r, m1)
        /\ ~m1.accepting /\ m1.current = r.current /\ m1.mailbox = r.mailbox
        /\ (m1.closePending <=> r.closePending)
    BY <2>1, StopAcceptingKeeps
  <2>3. PICK m2 : m2 = IF /\ cancelCurrent
                          /\ r.current # NoStmt
                          /\ r.stmt[r.current] \in Running
                       THEN BeginCancel(m1, r.current, "close") ELSE m1
    OBVIOUS
  <2>4. /\ m2 \in Runtime /\ Shape(m2, l, v, h) /\ CancelsOnly(m1, m2)
        /\ ~m2.accepting /\ m2.mailbox = r.mailbox
        /\ (m2.closePending <=> r.closePending)
    <3>1. CASE m2 = m1
      BY <2>2, <3>1 DEF CancelsOnly
    <3>2. CASE m2 # m1
      <4>1. /\ r.current # NoStmt /\ m2 = BeginCancel(m1, m1.current, "close")
            /\ ~m1.inFlight
        BY <2>2, <2>3, <3>2 DEF BeginCancel
      <4> QED
        BY <2>2, <4>1, BeginCancelKeeps DEF Reasons
    <3> QED
      BY <3>1, <3>2
  <2>5. PICK m3 : m3 = IF why = "shutdown" THEN CancelQueued(m2) ELSE m2
    OBVIOUS
  <2>6. /\ m3 \in Runtime /\ Shape(m3, l, v, h) /\ CancelsOnly(m2, m3)
        /\ ~m3.accepting /\ m3.mailbox = r.mailbox
        /\ (m3.closePending <=> r.closePending)
    <3>1. CASE why = "shutdown"
      BY <2>4, <2>5, <3>1, CancelQueuedKeeps
    <3>2. CASE why # "shutdown"
      BY <2>4, <2>5, <3>2 DEF CancelsOnly
    <3> QED
      BY <3>1, <3>2
  <2>7. r2 = PutClose(m3)
    BY <1>2, <2>1, <2>3, <2>5 DEF QueueClose
  <2>8. r2 \in Runtime /\ Shape(r2, l, v, h) /\ CancelsOnly(m3, r2)
    BY <2>0, <2>6, <2>7, PutCloseKeeps
  <2> QED
    BY <2>2, <2>4, <2>6, <2>8, CancelsTwice
<1> QED
  BY <1>1, <1>2

\* One round of the timer: a statement past its limit is cancelled, a cancel
\* past its grace escalated, an idle session closed.
LEMMA TimersKeep ==
  ASSUME NEW r \in Runtime, NEW l \in Lanes, NEW v \in Servers,
         NEW h \in SUBSET Strays, Shape(r, l, v, h), NEW due,
         NEW r2, r2 = ReclaimIdle(Escalate(TimeOutStatement(r, due), due), due)
  PROVE  r2 \in Runtime /\ Shape(r2, l, v, h) /\ CancelsOnly(r, r2)
<1>1. PICK m1 : m1 = TimeOutStatement(r, due)
  OBVIOUS
<1>2. m1 \in Runtime /\ Shape(m1, l, v, h) /\ CancelsOnly(r, m1)
  <2>1. CASE m1 = r
    BY <2>1 DEF CancelsOnly
  <2>2. CASE m1 # r
    <3>1. r.current # NoStmt /\ ~r.inFlight /\ m1 = BeginCancel(r, r.current, "timeout")
      BY <1>1, <2>2 DEF TimeOutStatement
    <3> QED
      BY <3>1, BeginCancelKeeps DEF Reasons
  <2> QED
    BY <2>1, <2>2
<1>3. PICK m2 : m2 = Escalate(m1, due)
  OBVIOUS
<1>4. m2 \in Runtime /\ Shape(m2, l, v, h) /\ CancelsOnly(m1, m2)
  <2>1. CASE m2 = m1
    BY <1>2, <2>1 DEF CancelsOnly
  <2>2. CASE m2 # m1
    BY ZenonT(60), <1>2, <1>3, <2>2, EscalateKeeps DEF Escalate
  <2> QED
    BY <2>1, <2>2
<1>5. r2 \in Runtime /\ Shape(r2, l, v, h) /\ CancelsOnly(m2, r2)
  <2>1. CASE r2 = m2
    BY <1>4, <2>1 DEF CancelsOnly
  <2>2. CASE r2 # m2
    <3>1. r2 = QueueClose(m2, "idle_timeout", FALSE)
      BY <1>1, <1>3, <2>2 DEF ReclaimIdle
    <3> QED
      BY <1>4, <3>1, QueueCloseKeeps
  <2> QED
    BY <2>1, <2>2
<1> QED
  BY <1>2, <1>4, <1>5, CancelsTwice

----------------------------------------------------------------------------
(* The lane thread.                                                         *)

\* The lane thread is created, or never will be.
LEMMA AttachKeeps ==
  ASSUME NEW r \in Runtime, NEW l \in Lanes, NEW v \in Servers,
         NEW h \in SUBSET Strays, Shape(r, l, v, h),
         l.pc = "unstarted",
         NEW pc \in {"opening", "never"},
         NEW l2, l2 = [l EXCEPT !.pc = pc]
  PROVE  l2 \in Lanes /\ Shape(r, l2, v, h)
<1>1. l2 \in Lanes
  BY DEF Lanes, LanePcs
<1>2. l2.pc = pc /\ l2.s = l.s /\ l2.out = l.out
  BY DEF Lanes
<1>3. Placed(r, l2)
  <2>1. SUFFICES ASSUME NEW x \in Stmts PROVE PlacedAt(r, l2, x)
    BY DEF Placed
  <2>2. PlacedAt(r, l, x)
    BY DEF Shape, Placed
  <2> QED
    BY <1>2, <2>2 DEF PlacedAt
<1>4. /\ MailboxShape(r, l2) /\ Accounting(r, l2) /\ LaneShape(r, l2)
      /\ FenceShape(r, l2) /\ StrikeShape(r, l2, v, h) /\ ServerShape(l2, v)
      /\ SettledShape(r)
  BY <1>2
  DEF Shape, MailboxShape, Accounting, LaneShape, FenceShape, StrikeShape,
      Struck, ServerShape
<1> QED
  BY <1>1, <1>3, <1>4 DEF Shape

\* The connection opens: the session is idle.
LEMMA OpensKeeps ==
  ASSUME NEW r \in Runtime, NEW l \in Lanes, NEW v \in Servers,
         NEW h \in SUBSET Strays, Shape(r, l, v, h),
         l.pc = "opening",
         NEW r2, r2 = [r EXCEPT !.sess = "idle"],
         NEW l2, l2 = [l EXCEPT !.pc = "get"],
         NEW v2, v2 = [v EXCEPT !.alive = TRUE]
  PROVE  /\ r2 \in Runtime /\ l2 \in Lanes /\ v2 \in Servers /\ Shape(r2, l2, v2, h)
         /\ Legal(r, r2)
<1>1. r2 \in Runtime
  BY DEF Runtime, SessionStates
<1>2. /\ r2.sess = "idle"
  BY DEF Runtime
<1>3. /\ r2.stmt = r.stmt /\ r2.cancelRequested = r.cancelRequested
      /\ r2.mailbox = r.mailbox /\ r2.pending = r.pending
      /\ (r2.accepting <=> r.accepting) /\ r2.current = r.current
      /\ (r2.inFlight <=> r.inFlight) /\ r2.cancelStmt = r.cancelStmt
      /\ (r2.closePending <=> r.closePending) /\ (r2.softFlag <=> r.softFlag)
      /\ r2.ctlq = r.ctlq
  BY DEF Runtime
<1>4. l2 \in Lanes
  BY DEF Lanes, LanePcs
<1>5. l2.pc = "get" /\ l2.s = l.s /\ l2.out = l.out
  BY DEF Lanes
<1>6. v2 \in Servers
  BY DEF Servers
<1>7. v2.op = v.op /\ v2.alive /\ (v2.interrupted <=> v.interrupted)
  BY DEF Servers
<1>8. Placed(r2, l2)
  BY ZenonT(60), <1>2, <1>3, <1>5, <1>7 DEF Shape, Placed, PlacedAt, LaneShape
<1>9. FenceShape(r2, l2)
  BY <1>2, <1>3, <1>5, <1>7 DEF Shape, FenceShape, LaneShape
<1>10. /\ MailboxShape(r2, l2) /\ Accounting(r2, l2) /\ LaneShape(r2, l2)
       /\ StrikeShape(r2, l2, v2, h) /\ ServerShape(l2, v2) /\ SettledShape(r2)
  BY <1>2, <1>3, <1>5, <1>7
  DEF Shape, MailboxShape, Accounting, LaneShape, StrikeShape, Struck,
      ServerShape, SettledShape
<1>11. Legal(r, r2)
  BY <1>2, <1>3, <1>5, <1>7 DEF Shape, LaneShape, Legal, SessionTransitions
<1> QED
  BY <1>1, <1>4, <1>6, <1>8, <1>9, <1>10, <1>11 DEF Shape

\* The connection does not open.
LEMMA OpenFailsKeeps ==
  ASSUME NEW r \in Runtime, NEW l \in Lanes, NEW v \in Servers,
         NEW h \in SUBSET Strays, Shape(r, l, v, h),
         l.pc = "opening",
         NEW r2, r2 = [r EXCEPT !.sess = "connect_failed", !.accepting = FALSE],
         NEW l2, l2 = [l EXCEPT !.pc = "ended"]
  PROVE  /\ r2 \in Runtime /\ l2 \in Lanes /\ Shape(r2, l2, v, h)
         /\ Legal(r, r2)
<1>1. r2 \in Runtime
  BY DEF Runtime, SessionStates
<1>2. /\ r2.sess = "connect_failed"
      /\ ~r2.accepting
  BY DEF Runtime
<1>3. /\ r2.stmt = r.stmt /\ r2.cancelRequested = r.cancelRequested
      /\ r2.mailbox = r.mailbox /\ r2.pending = r.pending /\ r2.current = r.current
      /\ (r2.inFlight <=> r.inFlight) /\ r2.cancelStmt = r.cancelStmt
      /\ (r2.closePending <=> r.closePending) /\ (r2.softFlag <=> r.softFlag)
      /\ r2.ctlq = r.ctlq
  BY DEF Runtime
<1>4. l2 \in Lanes
  BY DEF Lanes, LanePcs
<1>5. l2.pc = "ended" /\ l2.s = l.s /\ l2.out = l.out
  BY DEF Lanes
<1>6. Placed(r2, l2)
  BY <1>2, <1>3, <1>5 DEF Shape, Placed, PlacedAt, LaneShape
<1>7. FenceShape(r2, l2)
  BY <1>2, <1>3, <1>5 DEF Shape, FenceShape, LaneShape
<1>8. /\ MailboxShape(r2, l2) /\ Accounting(r2, l2) /\ LaneShape(r2, l2)
      /\ StrikeShape(r2, l2, v, h) /\ ServerShape(l2, v) /\ SettledShape(r2)
  BY <1>2, <1>3, <1>5
  DEF Shape, MailboxShape, Accounting, LaneShape, StrikeShape, Struck,
      ServerShape, SettledShape
<1>9. Legal(r, r2)
  BY <1>2, <1>3, <1>5 DEF Shape, LaneShape, Legal, SessionTransitions
<1> QED
  BY <1>1, <1>4, <1>6, <1>7, <1>8, <1>9 DEF Shape

\* The lane takes the close command: nothing is left behind it.
LEMMA GetsCloseKeeps ==
  ASSUME NEW r \in Runtime, NEW l \in Lanes, NEW v \in Servers,
         NEW h \in SUBSET Strays, Shape(r, l, v, h),
         l.pc = "get",
         r.mailbox # <<>>,
         Head(r.mailbox) = CloseCmd,
         NEW r2, r2 = [r EXCEPT !.mailbox = Tail(@)],
         NEW l2, l2 = [l EXCEPT !.pc = "closeFence"]
  PROVE  /\ r2 \in Runtime /\ l2 \in Lanes /\ Shape(r2, l2, v, h)
         /\ Legal(r, r2)
<1>0. r.mailbox \in Box /\ CloseIsLast(r.mailbox)
  BY DEF Runtime, Box, Shape, MailboxShape
<1>a. PICK t : t = Tail(r.mailbox)
  OBVIOUS
<1>b. /\ t \in Box /\ CloseIsLast(t) /\ Len(r.mailbox) = Len(t) + 1
      /\ Len(t) \in Nat
      /\ Head(r.mailbox) \in Stmts \cup {CloseCmd}
      /\ Head(r.mailbox) = CloseCmd => t = <<>> /\ HasClose(r.mailbox)
      /\ Head(r.mailbox) # CloseCmd => (HasClose(t) <=> HasClose(r.mailbox))
      /\ \A s : InBox(r.mailbox, s) => s = Head(r.mailbox) \/ InBox(t, s)
  BY <1>0, <1>a, BoxTail
<1>1. r2 \in Runtime
  <2>1. r2 = [r EXCEPT !.mailbox = t]
    BY <1>a
  <2> QED
    BY <1>b, <2>1 DEF Runtime, Box
<1>2. /\ r2.mailbox = Tail(r.mailbox)
  BY DEF Runtime
<1>3. /\ r2.sess = r.sess /\ r2.stmt = r.stmt
      /\ r2.cancelRequested = r.cancelRequested /\ r2.pending = r.pending
      /\ (r2.accepting <=> r.accepting) /\ r2.current = r.current
      /\ (r2.inFlight <=> r.inFlight) /\ r2.cancelStmt = r.cancelStmt
      /\ (r2.closePending <=> r.closePending) /\ (r2.softFlag <=> r.softFlag)
      /\ r2.ctlq = r.ctlq
  BY DEF Runtime
<1>4. l2 \in Lanes
  BY DEF Lanes, LanePcs
<1>5. l2.pc = "closeFence" /\ l2.s = l.s /\ l2.out = l.out
  BY DEF Lanes
<1>6. MailboxShape(r2, l2)
  BY <1>2, <1>3, <1>5, <1>a, <1>b DEF Shape, MailboxShape
<1>7. Accounting(r2, l2)
  <2>1. Accounting(r, l) /\ ~HasClose(t) /\ Len(t) = 0
    BY <1>b DEF Shape, HasClose
  <2> QED
    BY <1>a, <1>b, <1>2, <1>3, <1>5, <2>1 DEF Accounting
<1>8. Placed(r2, l2)
  <2>1. SUFFICES ASSUME NEW x \in Stmts PROVE PlacedAt(r2, l2, x)
    BY DEF Placed
  <2>2. PlacedAt(r, l, x) /\ ~InBox(r.mailbox, x)
    BY <1>b DEF Shape, Placed, InBox
  <2> QED
    BY <1>2, <1>3, <1>5, <2>2 DEF PlacedAt
<1>9. /\ LaneShape(r2, l2) /\ FenceShape(r2, l2) /\ StrikeShape(r2, l2, v, h)
      /\ ServerShape(l2, v) /\ SettledShape(r2)
  BY <1>2, <1>3, <1>5
  DEF Shape, LaneShape, FenceShape, StrikeShape, Struck, ServerShape,
      SettledShape
<1>10. Legal(r, r2)
  BY <1>2, <1>3, <1>5
  DEF Legal, SessionTransitions, StatementTransitions, Runtime
<1> QED
  BY <1>1, <1>4, <1>6, <1>7, <1>8, <1>9, <1>10 DEF Shape

\* The lane takes a statement; it is still counted as pending.
LEMMA GetsKeeps ==
  ASSUME NEW r \in Runtime, NEW l \in Lanes, NEW v \in Servers,
         NEW h \in SUBSET Strays, Shape(r, l, v, h),
         l.pc = "get",
         r.mailbox # <<>>,
         Head(r.mailbox) # CloseCmd,
         NEW r2, r2 = [r EXCEPT !.mailbox = Tail(@)],
         NEW l2, l2 = Taking(l, Head(r.mailbox))
  PROVE  /\ r2 \in Runtime /\ l2 \in Lanes /\ Shape(r2, l2, v, h)
         /\ Legal(r, r2)
<1> USE DEF Taking
<1>0. r.mailbox \in Box /\ CloseIsLast(r.mailbox)
  BY DEF Runtime, Box, Shape, MailboxShape
<1>a. PICK t : t = Tail(r.mailbox)
  OBVIOUS
<1>b. /\ t \in Box /\ CloseIsLast(t) /\ Len(r.mailbox) = Len(t) + 1
      /\ Len(t) \in Nat
      /\ Head(r.mailbox) \in Stmts \cup {CloseCmd}
      /\ Head(r.mailbox) = CloseCmd => t = <<>> /\ HasClose(r.mailbox)
      /\ Head(r.mailbox) # CloseCmd => (HasClose(t) <=> HasClose(r.mailbox))
      /\ \A s : InBox(r.mailbox, s) => s = Head(r.mailbox) \/ InBox(t, s)
  BY <1>0, <1>a, BoxTail
<1>1. r2 \in Runtime
  <2>1. r2 = [r EXCEPT !.mailbox = t]
    BY <1>a
  <2> QED
    BY <1>b, <2>1 DEF Runtime, Box
<1>2. /\ r2.mailbox = Tail(r.mailbox)
  BY DEF Runtime
<1>3. /\ r2.sess = r.sess /\ r2.stmt = r.stmt
      /\ r2.cancelRequested = r.cancelRequested /\ r2.pending = r.pending
      /\ (r2.accepting <=> r.accepting) /\ r2.current = r.current
      /\ (r2.inFlight <=> r.inFlight) /\ r2.cancelStmt = r.cancelStmt
      /\ (r2.closePending <=> r.closePending) /\ (r2.softFlag <=> r.softFlag)
      /\ r2.ctlq = r.ctlq
  BY DEF Runtime
<1>4. l2 \in Lanes
  BY <1>b DEF Lanes, LanePcs
<1>5. l2.pc = "decrement" /\ l2.s = Head(r.mailbox) /\ l2.out = l.out
  BY DEF Lanes
<1>6. MailboxShape(r2, l2)
  BY <1>2, <1>3, <1>5, <1>a, <1>b DEF Shape, MailboxShape
<1>7. Accounting(r2, l2)
  <2>1. Accounting(r, l)
    BY DEF Shape
  <2> QED
    BY <1>a, <1>b, <1>2, <1>3, <1>5, <2>1 DEF Accounting
<1>8. Placed(r2, l2)
  <2>1. SUFFICES ASSUME NEW x \in Stmts PROVE PlacedAt(r2, l2, x)
    BY DEF Placed
  <2>2. PlacedAt(r, l, x)
    BY DEF Shape, Placed
  <2> QED
    BY <1>2, <1>3, <1>5, <1>a, <1>b, <2>2 DEF PlacedAt
<1>9. LaneShape(r2, l2)
  BY <1>2, <1>3, <1>5, <1>b DEF Shape, LaneShape
<1>10. ServerShape(l2, v)
  BY <1>2, <1>3, <1>5 DEF Shape, ServerShape
<1>11. /\ FenceShape(r2, l2) /\ StrikeShape(r2, l2, v, h) /\ SettledShape(r2)
  BY <1>2, <1>3, <1>5 DEF Shape, FenceShape, StrikeShape, Struck, SettledShape
<1>12. Legal(r, r2)
  BY <1>2, <1>3, <1>5
  DEF Legal, SessionTransitions, StatementTransitions, Runtime
<1> QED
  BY <1>1, <1>4, <1>6, <1>7, <1>8, <1>9, <1>10, <1>11, <1>12 DEF Shape

\* pending_count follows.
LEMMA DecrementsKeeps ==
  ASSUME NEW r \in Runtime, NEW l \in Lanes, NEW v \in Servers,
         NEW h \in SUBSET Strays, Shape(r, l, v, h),
         l.pc = "decrement",
         NEW r2, r2 = [r EXCEPT !.pending = @ - 1],
         NEW l2, l2 = [l EXCEPT !.pc = "start"]
  PROVE  /\ r2 \in Runtime /\ l2 \in Lanes /\ Shape(r2, l2, v, h)
         /\ Legal(r, r2)
<1>0. r.pending \in Nat /\ Len(r.mailbox) \in Nat
  BY DEF Runtime
<1>a. r.pending # 0
  <2>1. Accounting(r, l) /\ (HasClose(r.mailbox) => Len(r.mailbox) # 0)
    <3>1. HasClose(r.mailbox) => r.mailbox # <<>>
      BY DEF HasClose
    <3>2. Len(r.mailbox) = 0 <=> r.mailbox = <<>>
      BY EmptyIs DEF Runtime
    <3> QED
      BY <3>1, <3>2 DEF Shape
  <2> QED
    BY <1>0, <2>1 DEF Accounting
<1>b. r.pending - 1 \in Nat
  BY <1>0, <1>a
<1>1. r2 \in Runtime
  BY <1>b DEF Runtime
<1>2. /\ r2.pending = r.pending - 1
  BY DEF Runtime
<1>3. /\ r2.sess = r.sess /\ r2.stmt = r.stmt
      /\ r2.cancelRequested = r.cancelRequested /\ r2.mailbox = r.mailbox
      /\ (r2.accepting <=> r.accepting) /\ r2.current = r.current
      /\ (r2.inFlight <=> r.inFlight) /\ r2.cancelStmt = r.cancelStmt
      /\ (r2.closePending <=> r.closePending) /\ (r2.softFlag <=> r.softFlag)
      /\ r2.ctlq = r.ctlq
  BY DEF Runtime
<1>4. l2 \in Lanes
  BY DEF Lanes, LanePcs
<1>5. l2.pc = "start" /\ l2.s = l.s /\ l2.out = l.out
  BY DEF Lanes
<1>6. Accounting(r2, l2)
  <2>1. Accounting(r, l)
    BY DEF Shape
  <2> QED
    BY <1>0, <1>a, <1>2, <1>3, <1>5, <2>1 DEF Accounting
<1>7. Placed(r2, l2)
  <2>1. SUFFICES ASSUME NEW x \in Stmts PROVE PlacedAt(r2, l2, x)
    BY DEF Placed
  <2>2. PlacedAt(r, l, x)
    BY DEF Shape, Placed
  <2> QED
    BY <1>2, <1>3, <1>5, <2>2 DEF PlacedAt
<1>8. /\ MailboxShape(r2, l2) /\ LaneShape(r2, l2) /\ FenceShape(r2, l2)
      /\ StrikeShape(r2, l2, v, h) /\ ServerShape(l2, v) /\ SettledShape(r2)
  BY <1>2, <1>3, <1>5
  DEF Shape, MailboxShape, LaneShape, FenceShape, StrikeShape, Struck,
      ServerShape, SettledShape
<1>9. Legal(r, r2)
  BY <1>2, <1>3, <1>5
  DEF Legal, SessionTransitions, StatementTransitions, Runtime
<1> QED
  BY <1>1, <1>4, <1>6, <1>7, <1>8, <1>9 DEF Shape

\* The lane starts a statement: no cancel is in flight.
LEMMA StartsKeeps ==
  ASSUME NEW r \in Runtime, NEW l \in Lanes, NEW v \in Servers,
         NEW h \in SUBSET Strays, Shape(r, l, v, h),
         l.pc = "start",
         r.stmt[l.s] = "accepted",
         r.accepting \/ r.sess \in {"idle", "executing"},
         ~(r.inFlight /\ r.sess \in Active),
         NEW r2, r2 = Starting(r, l.s),
         NEW l2, l2 = Beginning(l)
  PROVE  /\ r2 \in Runtime /\ l2 \in Lanes /\ Shape(r2, l2, v, h)
         /\ Legal(r, r2)
<1> USE DEF Starting, Beginning
<1>0. l.s \in Stmts /\ r.sess = "idle" /\ ~r.inFlight /\ r.cancelStmt = NoStmt
  BY DEF Shape, LaneShape, FenceShape, Active
<1>1. r2 \in Runtime
  <2> DEFINE st == [r.stmt EXCEPT ![l.s] = "executing"]
  <2>1. st \in [Stmts -> StatementStates]
    BY <1>0 DEF Runtime, StatementStates
  <2>2. r2 = [r EXCEPT !.softFlag = FALSE, !.current = l.s,
                       !.sess = "executing", !.stmt = st]
    BY DEF Runtime
  <2> HIDE DEF st
  <2> QED
    BY ZenonT(60), <1>0, <2>1, <2>2 DEF Runtime, SessionStates
<1>2. /\ r2.sess = "executing"
      /\ r2.stmt = [r.stmt EXCEPT ![l.s] = "executing"]
      /\ r2.current = l.s
      /\ ~r2.softFlag
  BY DEF Runtime
<1>3. /\ r2.cancelRequested = r.cancelRequested /\ r2.mailbox = r.mailbox
      /\ r2.pending = r.pending /\ (r2.accepting <=> r.accepting)
      /\ (r2.inFlight <=> r.inFlight) /\ r2.cancelStmt = r.cancelStmt
      /\ (r2.closePending <=> r.closePending) /\ r2.ctlq = r.ctlq
  BY DEF Runtime
<1>4. l2 \in Lanes
  BY DEF Lanes, LanePcs
<1>5. l2.pc = "execute" /\ l2.s = l.s /\ l2.out = "none"
  BY DEF Lanes
<1>6. Placed(r2, l2)
  <2>1. SUFFICES ASSUME NEW x \in Stmts PROVE PlacedAt(r2, l2, x)
    BY DEF Placed
  <2>2. PlacedAt(r, l, x) /\ (x # l.s => r2.stmt[x] = r.stmt[x])
        /\ r2.stmt[l.s] = "executing"
    BY <1>0, <1>2, <1>3, <1>5 DEF Shape, Placed, Runtime
  <2> QED
    BY <1>0, <1>2, <1>3, <1>5, <2>2 DEF PlacedAt
<1>7. LaneShape(r2, l2)
  BY <1>2, <1>3, <1>5, <1>0 DEF Shape, LaneShape, Runtime
<1>8. FenceShape(r2, l2)
  BY <1>2, <1>3, <1>5, <1>0 DEF Shape, FenceShape
<1>9. StrikeShape(r2, l2, v, h)
  <2>1. \A x \in Stmts : r2.stmt[x] = "cancelled" => r.stmt[x] = "cancelled"
    BY <1>0, <1>2, <1>3, <1>5 DEF Runtime
  <2> QED
    BY <1>2, <1>3, <1>5, <2>1 DEF Shape, StrikeShape, ServerShape, Struck
<1>10. /\ MailboxShape(r2, l2) /\ Accounting(r2, l2) /\ ServerShape(l2, v)
       /\ SettledShape(r2)
  BY <1>2, <1>3, <1>5
  DEF Shape, MailboxShape, Accounting, ServerShape, SettledShape
<1>11. Legal(r, r2)
  <2>1. \A x \in Stmts : r2.stmt[x] = r.stmt[x] \/ (x = l.s /\ r2.stmt[x] = "executing")
    BY <1>2, <1>3, <1>5 DEF Runtime
  <2> QED
    BY <1>0, <1>2, <1>3, <1>5, <2>1
    DEF Legal, SessionTransitions, StatementTransitions
<1> QED
  BY <1>1, <1>4, <1>6, <1>7, <1>8, <1>9, <1>10, <1>11 DEF Shape

\* The lane skips a statement that was cancelled, or whose session is lost.
LEMMA SkipsKeeps ==
  ASSUME NEW r \in Runtime, NEW l \in Lanes, NEW v \in Servers,
         NEW h \in SUBSET Strays, Shape(r, l, v, h),
         l.pc = "start",
         ~(r.stmt[l.s] = "accepted" /\ (r.accepting \/ r.sess \in {"idle", "executing"})),
         ~(r.inFlight /\ r.sess \in Active),
         NEW l2, l2 = [l EXCEPT !.pc = "drain"]
  PROVE  l2 \in Lanes /\ Shape(r, l2, v, h)
<1>0. /\ l.s \in Stmts
      /\ r.stmt[l.s] = "accepted" => r.sess = "session_lost"
  BY DEF Shape, LaneShape, FenceShape, Active
<1>1. l2 \in Lanes
  BY DEF Lanes, LanePcs
<1>2. l2.pc = "drain" /\ l2.s = l.s /\ l2.out = l.out
  BY DEF Lanes
<1>3. Placed(r, l2)
  <2>1. SUFFICES ASSUME NEW x \in Stmts PROVE PlacedAt(r, l2, x)
    BY DEF Placed
  <2>2. PlacedAt(r, l, x)
    BY DEF Shape, Placed
  <2> QED
    BY <1>2, <1>0, <2>2 DEF PlacedAt
<1>4. /\ MailboxShape(r, l2) /\ Accounting(r, l2) /\ LaneShape(r, l2)
      /\ FenceShape(r, l2) /\ StrikeShape(r, l2, v, h) /\ ServerShape(l2, v)
      /\ SettledShape(r)
  BY <1>2
  DEF Shape, MailboxShape, Accounting, LaneShape, FenceShape, StrikeShape,
      Struck, ServerShape
<1> QED
  BY <1>1, <1>3, <1>4 DEF Shape

\* The soft-cancel check before the statement reaches the server.
LEMMA SoftCancelKeeps ==
  ASSUME NEW r \in Runtime, NEW l \in Lanes, NEW v \in Servers,
         NEW h \in SUBSET Strays, Shape(r, l, v, h),
         l.pc = "execute",
         r.softFlag,
         NEW out \in {"timeout", "cancelled"},
         NEW l2, l2 = [l EXCEPT !.pc = "finish", !.out = out]
  PROVE  l2 \in Lanes /\ Shape(r, l2, v, h)
<1>1. l2 \in Lanes
  BY DEF Lanes, LanePcs
<1>2. l2.pc = "finish" /\ l2.s = l.s /\ l2.out = out
  BY DEF Lanes
<1>3. Placed(r, l2)
  <2>1. SUFFICES ASSUME NEW x \in Stmts PROVE PlacedAt(r, l2, x)
    BY DEF Placed
  <2>2. PlacedAt(r, l, x)
    BY DEF Shape, Placed
  <2> QED
    BY <1>2, <2>2 DEF PlacedAt
<1>4. /\ MailboxShape(r, l2) /\ Accounting(r, l2) /\ LaneShape(r, l2)
      /\ FenceShape(r, l2) /\ StrikeShape(r, l2, v, h) /\ ServerShape(l2, v)
      /\ SettledShape(r)
  BY <1>2
  DEF Shape, MailboxShape, Accounting, LaneShape, FenceShape, StrikeShape,
      Struck, ServerShape
<1> QED
  BY <1>1, <1>3, <1>4 DEF Shape

\* The statement reaches the server.
LEMMA ExecutesKeeps ==
  ASSUME NEW r \in Runtime, NEW l \in Lanes, NEW v \in Servers,
         NEW h \in SUBSET Strays, Shape(r, l, v, h),
         l.pc = "execute",
         ~r.softFlag,
         NEW l2, l2 = [l EXCEPT !.pc = "running"],
         NEW v2, v2 = IF v.alive
                  THEN [v EXCEPT !.op = l.s, !.interrupted = FALSE] ELSE v
  PROVE  l2 \in Lanes /\ v2 \in Servers /\ Shape(r, l2, v2, h)
<1>0. l.s \in Stmts
  BY DEF Shape, LaneShape
<1>1. l2 \in Lanes
  BY DEF Lanes, LanePcs
<1>2. l2.pc = "running" /\ l2.s = l.s /\ l2.out = l.out
  BY DEF Lanes
<1>3. v2 \in Servers
  BY <1>0 DEF Servers
<1>4. /\ v2.alive <=> v.alive
      /\ v.alive => v2.op = l.s /\ ~v2.interrupted
      /\ ~v.alive => v2 = v
  BY DEF Servers
<1>5. Placed(r, l2)
  <2>1. SUFFICES ASSUME NEW x \in Stmts PROVE PlacedAt(r, l2, x)
    BY DEF Placed
  <2>2. PlacedAt(r, l, x)
    BY DEF Shape, Placed
  <2> QED
    BY <1>2, <1>4, <2>2 DEF PlacedAt
<1>6. /\ MailboxShape(r, l2) /\ Accounting(r, l2) /\ LaneShape(r, l2)
      /\ FenceShape(r, l2) /\ StrikeShape(r, l2, v2, h) /\ ServerShape(l2, v2)
      /\ SettledShape(r)
  BY <1>2, <1>4
  DEF Shape, MailboxShape, Accounting, LaneShape, FenceShape, StrikeShape,
      Struck, ServerShape
<1> QED
  BY <1>1, <1>3, <1>5, <1>6 DEF Shape

\* cursor.execute returned: the statement streams.
LEMMA StreamsKeeps ==
  ASSUME NEW r \in Runtime, NEW l \in Lanes, NEW v \in Servers,
         NEW h \in SUBSET Strays, Shape(r, l, v, h),
         l.pc = "running",
         NEW r2, r2 = [r EXCEPT !.stmt[l.s] =
                               IF @ = "executing" THEN "streaming" ELSE @],
         NEW l2, l2 = [l EXCEPT !.pc = "streaming"]
  PROVE  /\ r2 \in Runtime /\ l2 \in Lanes /\ Shape(r2, l2, v, h)
         /\ Legal(r, r2)
<1>0. l.s \in Stmts /\ r.stmt[l.s] \in Running \cup {"failed"}
  BY DEF Shape, LaneShape
<1>1. r2 \in Runtime
  <2> DEFINE st == [r.stmt EXCEPT ![l.s] =
                      IF r.stmt[l.s] = "executing" THEN "streaming"
                      ELSE r.stmt[l.s]]
  <2>1. st \in [Stmts -> StatementStates]
    BY <1>0 DEF Runtime, StatementStates
  <2>2. r2 = [r EXCEPT !.stmt = st]
    BY DEF Runtime
  <2> HIDE DEF st
  <2> QED
    BY <2>1, <2>2 DEF Runtime
<1>2. /\ \A x \in Stmts :
            r2.stmt[x] # r.stmt[x] =>
               r.stmt[x] = "executing" /\ r2.stmt[x] = "streaming"
  BY DEF Runtime
<1>3. /\ r2.sess = r.sess /\ r2.cancelRequested = r.cancelRequested
      /\ r2.mailbox = r.mailbox /\ r2.pending = r.pending
      /\ (r2.accepting <=> r.accepting) /\ r2.current = r.current
      /\ (r2.inFlight <=> r.inFlight) /\ r2.cancelStmt = r.cancelStmt
      /\ (r2.closePending <=> r.closePending) /\ (r2.softFlag <=> r.softFlag)
      /\ r2.ctlq = r.ctlq
  BY DEF Runtime
<1>4. l2 \in Lanes
  BY DEF Lanes, LanePcs
<1>5. l2.pc = "streaming" /\ l2.s = l.s /\ l2.out = l.out
  BY DEF Lanes
<1>6. Placed(r2, l2)
  <2>1. SUFFICES ASSUME NEW x \in Stmts PROVE PlacedAt(r2, l2, x)
    BY DEF Placed
  <2>2. PlacedAt(r, l, x)
    BY DEF Shape, Placed
  <2> QED
    BY <1>2, <1>3, <1>5, <2>2 DEF PlacedAt
<1>7. /\ MailboxShape(r2, l2) /\ Accounting(r2, l2) /\ LaneShape(r2, l2)
      /\ FenceShape(r2, l2) /\ StrikeShape(r2, l2, v, h) /\ ServerShape(l2, v)
      /\ SettledShape(r2)
  BY <1>2, <1>3, <1>5
  DEF Shape, MailboxShape, Accounting, LaneShape, FenceShape, StrikeShape,
      Struck, ServerShape, SettledShape
<1>8. Legal(r, r2)
  BY <1>2, <1>3, <1>5 DEF Legal, StatementTransitions
<1> QED
  BY <1>1, <1>4, <1>6, <1>7, <1>8 DEF Shape

\* The driver call returns with an outcome; a cancelled one was struck.
LEMMA DriverReturnsKeeps ==
  ASSUME NEW r \in Runtime, NEW l \in Lanes, NEW v \in Servers,
         NEW h \in SUBSET Strays, Shape(r, l, v, h),
         l.pc \in {"running", "streaming"},
         NEW out \in Terminal,
         out = "cancelled" => Struck(r, h, l.s),
         NEW l2, l2 = Returning(l, out),
         NEW v2, v2 = Released(v)
  PROVE  l2 \in Lanes /\ v2 \in Servers /\ Shape(r, l2, v2, h)
<1> USE DEF Returning, Released
<1>1. l2 \in Lanes
  BY DEF Lanes, LanePcs
<1>2. l2.pc = "finish" /\ l2.s = l.s /\ l2.out = out
  BY DEF Lanes
<1>3. v2 \in Servers
  BY DEF Servers
<1>4. v2.op = NoStmt /\ ~v2.interrupted
  BY DEF Servers
<1>5. Placed(r, l2)
  <2>1. SUFFICES ASSUME NEW x \in Stmts PROVE PlacedAt(r, l2, x)
    BY DEF Placed
  <2>2. PlacedAt(r, l, x)
    BY DEF Shape, Placed
  <2> QED
    BY <1>2, <1>4, <2>2 DEF PlacedAt
<1>6. /\ MailboxShape(r, l2) /\ Accounting(r, l2) /\ LaneShape(r, l2)
      /\ FenceShape(r, l2) /\ StrikeShape(r, l2, v2, h) /\ ServerShape(l2, v2)
      /\ SettledShape(r)
  BY <1>2, <1>4
  DEF Shape, MailboxShape, Accounting, LaneShape, FenceShape, StrikeShape,
      Struck, ServerShape
<1> QED
  BY <1>1, <1>3, <1>5, <1>6 DEF Shape

\* The connection is found dead.
LEMMA FindsDeadKeeps ==
  ASSUME NEW r \in Runtime, NEW l \in Lanes, NEW v \in Servers,
         NEW h \in SUBSET Strays, Shape(r, l, v, h),
         l.pc \in {"running", "streaming"},
         ~v.alive,
         NEW l2, l2 = [l EXCEPT !.pc = "finish", !.out = "failed", !.lost = TRUE]
  PROVE  l2 \in Lanes /\ Shape(r, l2, v, h)
<1>1. l2 \in Lanes
  BY DEF Lanes, LanePcs
<1>2. l2.pc = "finish" /\ l2.s = l.s /\ l2.out = "failed"
  BY DEF Lanes
<1>3. Placed(r, l2)
  <2>1. SUFFICES ASSUME NEW x \in Stmts PROVE PlacedAt(r, l2, x)
    BY DEF Placed
  <2>2. PlacedAt(r, l, x)
    BY DEF Shape, Placed
  <2> QED
    BY <1>2, <2>2 DEF PlacedAt
<1>4. StrikeShape(r, l2, v, h)
  BY <1>2 DEF Shape, StrikeShape, ServerShape, Struck
<1>5. ServerShape(l2, v)
  BY <1>2 DEF Shape, ServerShape
<1>6. /\ MailboxShape(r, l2) /\ Accounting(r, l2) /\ LaneShape(r, l2)
      /\ FenceShape(r, l2) /\ SettledShape(r)
  BY <1>2 DEF Shape, MailboxShape, Accounting, LaneShape, FenceShape
<1> QED
  BY <1>1, <1>3, <1>4, <1>5, <1>6 DEF Shape

\* What the last critical section of a statement writes.
LEMMA FinishedIs ==
  ASSUME NEW r \in Runtime, NEW l \in Lanes, NEW v \in Servers,
         NEW h \in SUBSET Strays, Shape(r, l, v, h), l.pc = "finish",
         NEW lost \in BOOLEAN, NEW r2, r2 = Finished(r, l.s, l.out, lost)
  PROVE  /\ r2 \in Runtime /\ r2.current = NoStmt
         /\ r2.stmt[l.s] \in Terminal
         /\ r2.stmt[l.s] = l.out \/ r2.stmt[l.s] = r.stmt[l.s]
         /\ r.stmt[l.s] \in Terminal => r2.stmt[l.s] = r.stmt[l.s]
         /\ \A x \in Stmts : r2.stmt[x] # r.stmt[x] => x = l.s
         /\ r2.cancelRequested = r.cancelRequested /\ r2.mailbox = r.mailbox
         /\ r2.pending = r.pending /\ r2.ctlq = r.ctlq
         /\ (r2.closePending <=> r.closePending)
         /\ r2.sess \in {"idle", "cancelling", "session_lost"}
         /\ r2.sess = "session_lost" => ~r2.accepting /\ ~r2.inFlight
         /\ r2.sess # "session_lost" =>
               /\ r.sess # "session_lost" /\ (r2.accepting <=> r.accepting)
               /\ r2.inFlight <=> r2.cancelStmt # NoStmt
         /\ r2.cancelStmt \in {r.cancelStmt, NoStmt}
         /\ r2.sess = "cancelling" => r2.inFlight /\ r.sess = "cancelling"
<1>0. /\ l.s \in Stmts /\ l.out \in Terminal
      /\ r.stmt[l.s] \in Running \cup {"failed"}
      /\ r.sess \in {"executing", "cancelling", "idle", "session_lost"}
      /\ r.current \in {l.s, NoStmt}
  BY DEF Shape, LaneShape, StrikeShape
<1>1. PICK st : st = IF r.stmt[l.s] \in Terminal THEN r.stmt
                     ELSE [r.stmt EXCEPT ![l.s] = l.out]
  OBVIOUS
<1>2. /\ st \in [Stmts -> StatementStates] /\ st[l.s] \in Terminal
      /\ st[l.s] = l.out \/ st[l.s] = r.stmt[l.s]
      /\ r.stmt[l.s] \in Terminal => st[l.s] = r.stmt[l.s]
      /\ \A x \in Stmts : st[x] # r.stmt[x] => x = l.s
  BY <1>0, <1>1 DEF Runtime, StatementStates
<1>3. PICK m1 : m1 = Ended(r, l.s, l.out)
  OBVIOUS
<1>4. m1 = [r EXCEPT !.stmt = st]
  BY <1>1, <1>3 DEF Runtime, Ended
<1>5. m1 \in Runtime
  BY <1>2, <1>4 DEF Runtime
<1>6. /\ m1.stmt = st /\ m1.sess = r.sess /\ m1.current = r.current
      /\ m1.cancelRequested = r.cancelRequested /\ m1.mailbox = r.mailbox
      /\ m1.pending = r.pending /\ m1.cancelStmt = r.cancelStmt
      /\ m1.ctlq = r.ctlq
  BY <1>4 DEF Runtime
<1>7. /\ (m1.closePending <=> r.closePending) /\ (m1.inFlight <=> r.inFlight)
      /\ (m1.accepting <=> r.accepting)
  BY <1>4 DEF Runtime
<1>8. PICK m2 : m2 = LostIf(lost, m1)
  OBVIOUS
<1>9. /\ m2 \in Runtime /\ m2.stmt = st /\ m2.current = r.current
      /\ m2.cancelRequested = r.cancelRequested /\ m2.mailbox = r.mailbox
      /\ m2.pending = r.pending /\ m2.cancelStmt = r.cancelStmt
      /\ m2.ctlq = r.ctlq /\ (m2.closePending <=> r.closePending)
      /\ m2.sess \in {r.sess, "session_lost"}
      /\ m2.sess = "session_lost" => ~m2.accepting /\ ~m2.inFlight
      /\ m2.sess # "session_lost" =>
            /\ r.sess # "session_lost" /\ (m2.accepting <=> r.accepting)
            /\ (m2.inFlight <=> r.inFlight)
  <2>1. CASE lost
    BY <1>5, <1>6, <1>7, <1>8, <2>1, LoseIs DEF Shape, LaneShape, FenceShape, LostIf
  <2>2. CASE ~lost
    BY <1>5, <1>6, <1>7, <1>8, <2>2 DEF Shape, LaneShape, FenceShape, LostIf
  <2> QED
    BY <2>1, <2>2
<1>10. PICK m3 : m3 = Vacated(m2, l.s)
  OBVIOUS
<1>11. m3 = [m2 EXCEPT !.current = NoStmt]
  BY <1>0, <1>9, <1>10 DEF Runtime, Vacated
<1>12. m3 \in Runtime
  BY <1>9, <1>11 DEF Runtime
<1>13. /\ m3.stmt = st /\ m3.current = NoStmt /\ m3.sess = m2.sess
       /\ m3.cancelRequested = r.cancelRequested /\ m3.mailbox = r.mailbox
       /\ m3.pending = r.pending /\ m3.cancelStmt = r.cancelStmt
       /\ m3.ctlq = r.ctlq
  BY <1>9, <1>11 DEF Runtime
<1>14. /\ (m3.closePending <=> r.closePending) /\ (m3.inFlight <=> m2.inFlight)
       /\ (m3.accepting <=> m2.accepting)
  BY <1>9, <1>11 DEF Runtime
<1>15. PICK m4 : m4 = Settle(m3, l.s)
  OBVIOUS
<1>16. /\ m4 \in Runtime /\ m4.stmt = st /\ m4.current = NoStmt
       /\ m4.cancelRequested = r.cancelRequested /\ m4.mailbox = r.mailbox
       /\ m4.pending = r.pending /\ m4.ctlq = r.ctlq
       /\ (m4.closePending <=> r.closePending)
       /\ (m4.accepting <=> m2.accepting)
       /\ \/ /\ m4.sess = m2.sess /\ m4.cancelStmt = r.cancelStmt
             /\ (m4.inFlight <=> m2.inFlight)
          \/ /\ ~m4.inFlight /\ m4.cancelStmt = NoStmt /\ m2.inFlight
             /\ m4.sess = IF m2.sess = "cancelling" THEN "idle" ELSE m2.sess
  BY <1>12, <1>13, <1>14, <1>15, SettleIs DEF Settles
<1>17. r2 = IF ~m4.inFlight /\ m4.sess \in {"executing", "cancelling"}
            THEN [m4 EXCEPT !.sess = "idle"] ELSE m4
  <2>1. r2 = Rested(m4)
    BY <1>3, <1>8, <1>10, <1>15 DEF Finished
  <2> QED
    BY <2>1 DEF Rested
<1>18. /\ r2 \in Runtime /\ r2.stmt = st /\ r2.current = NoStmt
       /\ r2.cancelRequested = r.cancelRequested /\ r2.mailbox = r.mailbox
       /\ r2.pending = r.pending /\ r2.ctlq = r.ctlq
       /\ (r2.closePending <=> r.closePending)
       /\ (r2.accepting <=> m2.accepting) /\ (r2.inFlight <=> m4.inFlight)
       /\ r2.cancelStmt = m4.cancelStmt
       /\ r2.sess = IF ~m4.inFlight /\ m4.sess \in {"executing", "cancelling"}
                    THEN "idle" ELSE m4.sess
  <2>1. CASE ~(~m4.inFlight /\ m4.sess \in {"executing", "cancelling"})
    BY <1>16, <1>17, <2>1
  <2>2. CASE ~m4.inFlight /\ m4.sess \in {"executing", "cancelling"}
    <3>1. r2 = [m4 EXCEPT !.sess = "idle"]
      BY <1>17, <2>2
    <3>2. r2 \in Runtime
      BY ZenonT(60), <1>16, <3>1 DEF Runtime, SessionStates
    <3>3. /\ r2.stmt = st /\ r2.current = NoStmt
          /\ r2.cancelRequested = r.cancelRequested /\ r2.mailbox = r.mailbox
          /\ r2.pending = r.pending /\ r2.ctlq = r.ctlq
          /\ r2.cancelStmt = m4.cancelStmt /\ r2.sess = "idle"
      BY <1>16, <3>1 DEF Runtime
    <3>4. /\ (r2.closePending <=> r.closePending)
          /\ (r2.accepting <=> m2.accepting) /\ (r2.inFlight <=> m4.inFlight)
      BY <1>16, <3>1 DEF Runtime
    <3> QED
      BY <2>2, <3>2, <3>3, <3>4
  <2> QED
    BY <2>1, <2>2
<1>19. /\ r.sess # "session_lost" => (r.inFlight <=> r.cancelStmt # NoStmt)
       /\ r.cancelStmt # NoStmt =>
             r.sess \in {"idle", "cancelling", "session_lost"}
  BY DEF Shape, FenceShape
<1>20. r2.sess \in {"idle", "cancelling", "session_lost"}
  BY <1>0, <1>9, <1>16, <1>18, <1>19
<1>21. /\ r2.sess = "session_lost" => ~r2.accepting /\ ~r2.inFlight
       /\ r2.sess # "session_lost" =>
               /\ r.sess # "session_lost" /\ (r2.accepting <=> r.accepting)
               /\ r2.inFlight <=> r2.cancelStmt # NoStmt
       /\ r2.cancelStmt \in {r.cancelStmt, NoStmt}
       /\ r2.sess = "cancelling" => r2.inFlight /\ r.sess = "cancelling"
  BY <1>9, <1>16, <1>18, <1>19
<1> QED
  BY <1>2, <1>18, <1>20, <1>21

\* A statement finishes: its outcome is recorded unless it has one, the lane is
\* free and the fence is lifted, or the session is lost.
LEMMA FinishesKeeps ==
  ASSUME NEW r \in Runtime, NEW l \in Lanes, NEW v \in Servers,
         NEW h \in SUBSET Strays, Shape(r, l, v, h), l.pc = "finish",
         NEW r2, r2 = Finished(r, l.s, l.out, l.lost),
         NEW l2, l2 = [l EXCEPT !.pc = "drain"],
         NEW v2, v2 = IF r2.sess = "session_lost"
                      THEN [v EXCEPT !.alive = FALSE] ELSE v
  PROVE  /\ r2 \in Runtime /\ l2 \in Lanes /\ v2 \in Servers
         /\ Shape(r2, l2, v2, h) /\ Legal(r, r2)
<1>1. /\ r2 \in Runtime /\ r2.current = NoStmt
      /\ r2.stmt[l.s] \in Terminal
      /\ r2.stmt[l.s] = l.out \/ r2.stmt[l.s] = r.stmt[l.s]
      /\ r.stmt[l.s] \in Terminal => r2.stmt[l.s] = r.stmt[l.s]
      /\ \A x \in Stmts : r2.stmt[x] # r.stmt[x] => x = l.s
      /\ r2.cancelRequested = r.cancelRequested /\ r2.mailbox = r.mailbox
      /\ r2.pending = r.pending /\ r2.ctlq = r.ctlq
      /\ (r2.closePending <=> r.closePending)
      /\ r2.sess \in {"idle", "cancelling", "session_lost"}
      /\ r2.sess = "session_lost" => ~r2.accepting /\ ~r2.inFlight
      /\ r2.sess # "session_lost" =>
            /\ r.sess # "session_lost" /\ (r2.accepting <=> r.accepting)
            /\ r2.inFlight <=> r2.cancelStmt # NoStmt
      /\ r2.cancelStmt \in {r.cancelStmt, NoStmt}
      /\ r2.sess = "cancelling" => r2.inFlight /\ r.sess = "cancelling"
  <2>1. PICK lost \in BOOLEAN : lost = l.lost
    BY DEF Lanes
  <2> QED
    BY <2>1, FinishedIs
<1>2. l2 \in Lanes /\ l2.pc = "drain" /\ l2.s = l.s
  BY DEF Lanes, LanePcs
<1>3. v.op = NoStmt /\ ~v.interrupted
  BY DEF Shape, ServerShape, StrikeShape, Servers
<1>4. v2 \in Servers /\ v2.op = NoStmt /\ ~v2.interrupted
  BY <1>3 DEF Servers
<1>5. MailboxShape(r2, l2) /\ Accounting(r2, l2)
  <2>1. r2.accepting => r.accepting
    BY <1>1
  <2> QED
    BY <1>1, <1>2, <2>1 DEF Shape, MailboxShape, Accounting
<1>6. Placed(r2, l2)
  <2>1. SUFFICES ASSUME NEW x \in Stmts PROVE PlacedAt(r2, l2, x)
    BY DEF Placed
  <2>2. PlacedAt(r, l, x) /\ (r2.stmt[x] \in Terminal \/ r2.stmt[x] = r.stmt[x])
    BY <1>1 DEF Shape, Placed
  <2>3. r2.stmt[x] \notin Running
    <3>1. CASE x = l.s
      BY <1>1, <3>1
    <3>2. CASE x # l.s
      BY <1>1, <2>2, <3>2 DEF PlacedAt
    <3> QED
      BY <3>1, <3>2
  <2> QED
    BY <1>1, <1>2, <2>2, <2>3 DEF PlacedAt
<1>7. LaneShape(r2, l2)
  BY <1>1, <1>2 DEF Shape, LaneShape
<1>8. FenceShape(r2, l2)
  BY <1>1, <1>2 DEF Shape, FenceShape
<1>9. StrikeShape(r2, l2, v2, h)
  <2>1. ASSUME NEW x \in Stmts, r2.stmt[x] = "cancelled" PROVE Struck(r2, h, x)
    <3>1. r.stmt[x] = "cancelled" \/ (x = l.s /\ l.out = "cancelled")
      BY <1>1, <2>1
    <3>2. Struck(r, h, x)
      BY <3>1 DEF Shape, StrikeShape
    <3> QED
      BY <1>1, <3>2 DEF Struck
  <2> QED
    BY <1>1, <1>2, <1>4, <2>1 DEF Shape, StrikeShape
<1>10. ServerShape(l2, v2)
  BY <1>4 DEF ServerShape
<1>11. SettledShape(r2)
  BY <1>1 DEF SettledShape
<1>12. Legal(r, r2)
  <2>1. r.sess \in {"executing", "cancelling", "idle", "session_lost"}
        /\ r.stmt[l.s] \in Running \cup {"failed"}
    BY DEF Shape, LaneShape
  <2>2. r.sess # r2.sess => <<r.sess, r2.sess>> \in SessionTransitions
    BY <1>1, <2>1 DEF SessionTransitions
  <2>3. ASSUME NEW x \in Stmts, r2.stmt[x] # r.stmt[x]
        PROVE  <<r.stmt[x], r2.stmt[x]>> \in StatementTransitions
    <3>1. x = l.s /\ r.stmt[x] \in Running \cup {"failed"}
          /\ r2.stmt[x] \in Terminal
      BY <1>1, <2>1, <2>3
    <3>2. r.stmt[x] # "failed"
      BY <1>1, <2>3, <3>1
    <3> QED
      BY <3>1, <3>2 DEF StatementTransitions
  <2> QED
    BY <2>2, <2>3 DEF Legal
<1> QED
  BY <1>1, <1>2, <1>4, <1>5, <1>6, <1>7, <1>8, <1>9, <1>10, <1>11, <1>12 DEF Shape

\* The mailbox is drained and a close was pending: the lane closes.
LEMMA DrainsCloseKeeps ==
  ASSUME NEW r \in Runtime, NEW l \in Lanes, NEW v \in Servers,
         NEW h \in SUBSET Strays, Shape(r, l, v, h),
         l.pc = "drain",
         r.closePending,
         r.mailbox = <<>>,
         NEW r2, r2 = [r EXCEPT !.closePending = FALSE],
         NEW l2, l2 = [l EXCEPT !.pc = "closeFence"]
  PROVE  /\ r2 \in Runtime /\ l2 \in Lanes /\ Shape(r2, l2, v, h)
         /\ Legal(r, r2)
<1>1. r2 \in Runtime
  BY DEF Runtime
<1>2. /\ ~r2.closePending
  BY DEF Runtime
<1>3. /\ r2.sess = r.sess /\ r2.stmt = r.stmt
      /\ r2.cancelRequested = r.cancelRequested /\ r2.mailbox = r.mailbox
      /\ r2.pending = r.pending /\ (r2.accepting <=> r.accepting)
      /\ r2.current = r.current /\ (r2.inFlight <=> r.inFlight)
      /\ r2.cancelStmt = r.cancelStmt /\ (r2.softFlag <=> r.softFlag)
      /\ r2.ctlq = r.ctlq
  BY DEF Runtime
<1>4. l2 \in Lanes
  BY DEF Lanes, LanePcs
<1>5. l2.pc = "closeFence" /\ l2.s = l.s /\ l2.out = l.out
  BY DEF Lanes
<1>6. Placed(r2, l2)
  <2>1. SUFFICES ASSUME NEW x \in Stmts PROVE PlacedAt(r2, l2, x)
    BY DEF Placed
  <2>2. PlacedAt(r, l, x)
    BY DEF Shape, Placed
  <2> QED
    BY <1>2, <1>3, <1>5, <2>2 DEF PlacedAt
<1>7. /\ MailboxShape(r2, l2) /\ Accounting(r2, l2) /\ LaneShape(r2, l2)
      /\ FenceShape(r2, l2) /\ StrikeShape(r2, l2, v, h) /\ ServerShape(l2, v)
      /\ SettledShape(r2)
  BY <1>2, <1>3, <1>5
  DEF Shape, MailboxShape, Accounting, LaneShape, FenceShape, StrikeShape,
      Struck, ServerShape, SettledShape
<1>8. Legal(r, r2)
  BY <1>2, <1>3, <1>5
  DEF Legal, SessionTransitions, StatementTransitions, Runtime
<1> QED
  BY <1>1, <1>4, <1>6, <1>7, <1>8 DEF Shape

\* The lane returns to its mailbox.
LEMMA DrainsKeeps ==
  ASSUME NEW r \in Runtime, NEW l \in Lanes, NEW v \in Servers,
         NEW h \in SUBSET Strays, Shape(r, l, v, h),
         l.pc = "drain",
         NEW l2, l2 = [l EXCEPT !.pc = "get"]
  PROVE  l2 \in Lanes /\ Shape(r, l2, v, h)
<1>1. l2 \in Lanes
  BY DEF Lanes, LanePcs
<1>2. l2.pc = "get" /\ l2.s = l.s /\ l2.out = l.out
  BY DEF Lanes
<1>3. Placed(r, l2)
  <2>1. SUFFICES ASSUME NEW x \in Stmts PROVE PlacedAt(r, l2, x)
    BY DEF Placed
  <2>2. PlacedAt(r, l, x)
    BY DEF Shape, Placed
  <2> QED
    BY <1>2, <2>2 DEF PlacedAt
<1>4. /\ MailboxShape(r, l2) /\ Accounting(r, l2) /\ LaneShape(r, l2)
      /\ FenceShape(r, l2) /\ StrikeShape(r, l2, v, h) /\ ServerShape(l2, v)
      /\ SettledShape(r)
  BY <1>2
  DEF Shape, MailboxShape, Accounting, LaneShape, FenceShape, StrikeShape,
      Struck, ServerShape
<1> QED
  BY <1>1, <1>3, <1>4 DEF Shape

\* A close of a session that is over already.
LEMMA EndsKeeps ==
  ASSUME NEW r \in Runtime, NEW l \in Lanes, NEW v \in Servers,
         NEW h \in SUBSET Strays, Shape(r, l, v, h),
         l.pc = "closeFence",
         r.sess \in {"closed", "session_lost", "connect_failed"},
         NEW l2, l2 = [l EXCEPT !.pc = "ended"]
  PROVE  l2 \in Lanes /\ Shape(r, l2, v, h)
<1>1. l2 \in Lanes
  BY DEF Lanes, LanePcs
<1>2. l2.pc = "ended" /\ l2.s = l.s /\ l2.out = l.out
  BY DEF Lanes
<1>3. Placed(r, l2)
  <2>1. SUFFICES ASSUME NEW x \in Stmts PROVE PlacedAt(r, l2, x)
    BY DEF Placed
  <2>2. PlacedAt(r, l, x)
    BY DEF Shape, Placed
  <2> QED
    BY <1>2, <2>2 DEF PlacedAt
<1>4. LaneShape(r, l2)
  BY <1>2 DEF Shape, LaneShape, MailboxShape
<1>5. FenceShape(r, l2)
  BY <1>2 DEF Shape, FenceShape, LaneShape
<1>6. /\ MailboxShape(r, l2) /\ Accounting(r, l2) /\ StrikeShape(r, l2, v, h)
      /\ ServerShape(l2, v) /\ SettledShape(r)
  BY <1>2 DEF Shape, MailboxShape, Accounting, StrikeShape, Struck, ServerShape
<1> QED
  BY <1>1, <1>3, <1>4, <1>5, <1>6 DEF Shape

\* The lane begins to close: nothing is queued, no cancel in flight.
LEMMA BeginsCloseKeeps ==
  ASSUME NEW r \in Runtime, NEW l \in Lanes, NEW v \in Servers,
         NEW h \in SUBSET Strays, Shape(r, l, v, h),
         l.pc = "closeFence",
         r.sess \notin {"closed", "session_lost", "connect_failed"},
         ~(r.inFlight /\ r.sess \in Active),
         NEW r2, r2 = [r EXCEPT !.sess = "closing"],
         NEW l2, l2 = [l EXCEPT !.pc = "closing"]
  PROVE  /\ r2 \in Runtime /\ l2 \in Lanes /\ Shape(r2, l2, v, h)
         /\ Legal(r, r2)
<1>0. r.sess = "idle" /\ ~r.inFlight /\ r.cancelStmt = NoStmt /\ r.current = NoStmt
  BY DEF Shape, LaneShape, FenceShape, Active
<1>1. r2 \in Runtime
  BY DEF Runtime, SessionStates
<1>2. /\ r2.sess = "closing"
  BY DEF Runtime
<1>3. /\ r2.stmt = r.stmt /\ r2.cancelRequested = r.cancelRequested
      /\ r2.mailbox = r.mailbox /\ r2.pending = r.pending
      /\ (r2.accepting <=> r.accepting) /\ r2.current = r.current
      /\ (r2.inFlight <=> r.inFlight) /\ r2.cancelStmt = r.cancelStmt
      /\ (r2.closePending <=> r.closePending) /\ (r2.softFlag <=> r.softFlag)
      /\ r2.ctlq = r.ctlq
  BY DEF Runtime
<1>4. l2 \in Lanes
  BY DEF Lanes, LanePcs
<1>5. l2.pc = "closing" /\ l2.s = l.s /\ l2.out = l.out
  BY DEF Lanes
<1>6. Placed(r2, l2)
  <2>1. SUFFICES ASSUME NEW x \in Stmts PROVE PlacedAt(r2, l2, x)
    BY DEF Placed
  <2>2. PlacedAt(r, l, x)
    BY DEF Shape, Placed
  <2> QED
    BY <1>2, <1>3, <1>5, <1>0, <2>2 DEF PlacedAt
<1>7. LaneShape(r2, l2)
  BY <1>2, <1>3, <1>5, <1>0 DEF Shape, LaneShape
<1>8. FenceShape(r2, l2)
  BY <1>2, <1>3, <1>5, <1>0 DEF Shape, FenceShape
<1>9. /\ MailboxShape(r2, l2) /\ Accounting(r2, l2) /\ StrikeShape(r2, l2, v, h)
      /\ ServerShape(l2, v) /\ SettledShape(r2)
  BY <1>2, <1>3, <1>5
  DEF Shape, MailboxShape, Accounting, StrikeShape, Struck, ServerShape,
      SettledShape
<1>10. Legal(r, r2)
  BY <1>0, <1>2, <1>3, <1>5 DEF Legal, SessionTransitions
<1> QED
  BY <1>1, <1>4, <1>6, <1>7, <1>8, <1>9, <1>10 DEF Shape

\* The session is closed: every statement is settled.
LEMMA ClosesKeeps ==
  ASSUME NEW r \in Runtime, NEW l \in Lanes, NEW v \in Servers,
         NEW h \in SUBSET Strays, Shape(r, l, v, h),
         l.pc = "closing",
         NEW r2, r2 = [r EXCEPT !.sess = "closed"],
         NEW l2, l2 = [l EXCEPT !.pc = "ended"],
         NEW v2, v2 = [v EXCEPT !.alive = FALSE]
  PROVE  /\ r2 \in Runtime /\ l2 \in Lanes /\ v2 \in Servers /\ Shape(r2, l2, v2, h)
         /\ Legal(r, r2)
<1>0. r.sess = "closing" /\ ~r.inFlight /\ r.cancelStmt = NoStmt
      /\ r.mailbox = <<>> /\ ~r.accepting /\ v.op = NoStmt
  BY DEF Shape, LaneShape, FenceShape, MailboxShape, ServerShape
<1>1. r2 \in Runtime
  BY DEF Runtime, SessionStates
<1>2. /\ r2.sess = "closed"
  BY DEF Runtime
<1>3. /\ r2.stmt = r.stmt /\ r2.cancelRequested = r.cancelRequested
      /\ r2.mailbox = r.mailbox /\ r2.pending = r.pending
      /\ (r2.accepting <=> r.accepting) /\ r2.current = r.current
      /\ (r2.inFlight <=> r.inFlight) /\ r2.cancelStmt = r.cancelStmt
      /\ (r2.closePending <=> r.closePending) /\ (r2.softFlag <=> r.softFlag)
      /\ r2.ctlq = r.ctlq
  BY DEF Runtime
<1>4. l2 \in Lanes
  BY DEF Lanes, LanePcs
<1>5. l2.pc = "ended" /\ l2.s = l.s /\ l2.out = l.out
  BY DEF Lanes
<1>6. v2 \in Servers
  BY DEF Servers
<1>7. v2.op = v.op /\ (v2.interrupted <=> v.interrupted)
  BY DEF Servers
<1>8. MailboxShape(r2, l2)
  BY <1>2, <1>3, <1>5, <1>7, <1>0 DEF Shape, MailboxShape
<1>9. Placed(r2, l2)
  <2>1. SUFFICES ASSUME NEW x \in Stmts PROVE PlacedAt(r2, l2, x)
    BY DEF Placed
  <2>2. PlacedAt(r, l, x)
    BY DEF Shape, Placed
  <2> QED
    BY <1>2, <1>3, <1>5, <1>7, <1>0, <2>2 DEF PlacedAt
<1>10. LaneShape(r2, l2)
  BY <1>2, <1>3, <1>5, <1>7, <1>0 DEF Shape, LaneShape
<1>11. FenceShape(r2, l2)
  BY <1>2, <1>3, <1>5, <1>7, <1>0 DEF Shape, FenceShape
<1>12. ServerShape(l2, v2)
  BY <1>2, <1>3, <1>5, <1>7, <1>0 DEF ServerShape
<1>13. SettledShape(r2)
  <2>1. SUFFICES ASSUME NEW x \in Stmts PROVE r.stmt[x] \in Terminal \cup {"none"}
    BY <1>2, <1>3, <1>5, <1>7 DEF SettledShape
  <2>2. PlacedAt(r, l, x) /\ ~InBox(r.mailbox, x) /\ r.stmt[x] \in StatementStates
    BY <1>0 DEF Shape, Placed, InBox, Runtime
  <2> QED
    BY <1>0, <2>2 DEF PlacedAt, StatementStates
<1>14. /\ Accounting(r2, l2) /\ StrikeShape(r2, l2, v2, h)
  BY <1>2, <1>3, <1>5, <1>7 DEF Shape, Accounting, StrikeShape, Struck
<1>15. Legal(r, r2)
  BY <1>0, <1>2, <1>3, <1>5, <1>7 DEF Legal, SessionTransitions
<1> QED
  BY <1>1, <1>4, <1>6, <1>8, <1>9, <1>10, <1>11, <1>12, <1>13, <1>14, <1>15
  DEF Shape

----------------------------------------------------------------------------
(* The control lane and the server.                                         *)

\* The control lane takes a command; its statement was asked to be cancelled.
LEMMA TakesCommandKeeps ==
  ASSUME NEW r \in Runtime, NEW l \in Lanes, NEW v \in Servers,
         NEW h \in SUBSET Strays, Shape(r, l, v, h),
         r.ctlq # <<>>,
         NEW r2, r2 = [r EXCEPT !.ctlq = Tail(@)]
  PROVE  /\ r2 \in Runtime /\ Shape(r2, l, v, h)
         /\ Legal(r, r2)
         /\ r2.cancelRequested = r.cancelRequested
<1>0. r.ctlq \in Seq(Commands) /\ Targets(r.ctlq, r.cancelRequested)
  BY DEF Runtime, Commands, Shape, StrikeShape
<1>a. Tail(r.ctlq) \in Seq(Commands) /\ Targets(Tail(r.ctlq), r.cancelRequested)
  BY <1>0, TargetsTail
<1>1. r2 \in Runtime
  <2> DEFINE q == Tail(r.ctlq)
  <2>1. q \in Seq(Commands) /\ r2 = [r EXCEPT !.ctlq = q]
    BY <1>a
  <2> HIDE DEF q
  <2> QED
    BY <2>1 DEF Runtime, Commands
<1>2. /\ r2.ctlq = Tail(r.ctlq)
  BY DEF Runtime
<1>3. /\ r2.sess = r.sess /\ r2.stmt = r.stmt
      /\ r2.cancelRequested = r.cancelRequested /\ r2.mailbox = r.mailbox
      /\ r2.pending = r.pending /\ (r2.accepting <=> r.accepting)
      /\ r2.current = r.current /\ (r2.inFlight <=> r.inFlight)
      /\ r2.cancelStmt = r.cancelStmt /\ (r2.closePending <=> r.closePending)
      /\ (r2.softFlag <=> r.softFlag)
  BY DEF Runtime
<1>4. Placed(r2, l)
  <2>1. SUFFICES ASSUME NEW x \in Stmts PROVE PlacedAt(r2, l, x)
    BY DEF Placed
  <2>2. PlacedAt(r, l, x)
    BY DEF Shape, Placed
  <2> QED
    BY <1>2, <1>3, <2>2 DEF PlacedAt
<1>5. StrikeShape(r2, l, v, h)
  BY <1>2, <1>3, <1>a DEF Shape, StrikeShape, Struck
<1>6. /\ MailboxShape(r2, l) /\ Accounting(r2, l) /\ LaneShape(r2, l)
      /\ FenceShape(r2, l) /\ ServerShape(l, v) /\ SettledShape(r2)
  BY <1>2, <1>3
  DEF Shape, MailboxShape, Accounting, LaneShape, FenceShape, SettledShape
<1>7. Legal(r, r2)
  BY <1>2, <1>3 DEF Legal, SessionTransitions, StatementTransitions, Runtime
<1> QED
  BY <1>1, <1>4, <1>5, <1>6, <1>7, <1>2, <1>3 DEF Shape

\* A command reaches the server: what it interrupts was meant, or is recorded as
\* stray.
LEMMA StrikesKeeps ==
  ASSUME NEW r \in Runtime, NEW l \in Lanes, NEW v \in Servers,
         NEW h \in SUBSET Strays, Shape(r, l, v, h),
         NEW cmd \in Commands,
         cmd.kind # "stop",
         cmd.target \in Stmts,
         r.cancelRequested[cmd.target],
         v.alive,
         NEW v2, v2 = Hit(v, cmd),
         NEW h2, h2 = Recorded(h, v, cmd)
  PROVE  v2 \in Servers /\ h2 \in SUBSET Strays /\ Shape(r, l, v2, h2)
<1> USE DEF Hit, Recorded
<1>1. v2 \in Servers
  BY DEF Servers
<1>2. /\ v2.op \in {v.op, NoStmt}
      /\ v2.op # NoStmt => v2.alive /\ v2.op = v.op
      /\ v2.interrupted => v2.op # NoStmt
  BY DEF Servers
<1>3. h2 \in SUBSET Strays
  BY DEF Strays, Commands, Servers
<1>4. StrikeShape(r, l, v2, h2)
  <2>1. \A x \in Stmts : Struck(r, h, x) => Struck(r, h2, x)
    BY DEF Struck
  <2>2. v.op # NoStmt => Struck(r, h2, v.op)
    <3>1. CASE v.op = cmd.target
      BY <3>1 DEF Struck
    <3>2. CASE v.op \notin {NoStmt, cmd.target}
      <4>1. PICK x : x = [kind |-> cmd.kind, target |-> cmd.target, victim |-> v.op]
        OBVIOUS
      <4>2. x \in h2 /\ x.victim = v.op
        BY <3>2, <4>1
      <4> QED
        BY <4>2 DEF Struck
    <3> QED
      BY <3>1, <3>2
  <2> QED
    BY <1>2, <2>1, <2>2 DEF Shape, StrikeShape, LaneShape
<1>5. /\ MailboxShape(r, l) /\ Accounting(r, l) /\ Placed(r, l) /\ LaneShape(r, l)
      /\ FenceShape(r, l) /\ ServerShape(l, v2) /\ SettledShape(r)
  BY <1>2 DEF Shape, ServerShape
<1> QED
  BY <1>1, <1>3, <1>4, <1>5 DEF Shape

\* The connection is dropped.
LEMMA DropsKeeps ==
  ASSUME NEW r \in Runtime, NEW l \in Lanes, NEW v \in Servers,
         NEW h \in SUBSET Strays, Shape(r, l, v, h),
         NEW v2, v2 = [op |-> NoStmt, alive |-> FALSE, interrupted |-> FALSE]
  PROVE  v2 \in Servers /\ Shape(r, l, v2, h)
<1>1. v2 \in Servers
  BY DEF Servers
<1>2. v2.op = NoStmt /\ ~v2.interrupted
  BY DEF Servers
<1>3. /\ MailboxShape(r, l) /\ Accounting(r, l) /\ Placed(r, l) /\ LaneShape(r, l)
      /\ FenceShape(r, l) /\ StrikeShape(r, l, v2, h) /\ ServerShape(l, v2)
      /\ SettledShape(r)
  BY <1>2 DEF Shape, StrikeShape, Struck, ServerShape
<1> QED
  BY <1>1, <1>3 DEF Shape

----------------------------------------------------------------------------
(* The invariant and the theorems.                                          *)

\* Initially the lane is not started and nothing was submitted.
LEMMA InitKeeps ==
  ASSUME Init
  PROVE  LaneIInv
<1>1. TypeOK
  <2>1. rt \in Runtime
    BY DEF Init, Runtime, SessionStates, StatementStates
  <2>2. lane \in Lanes /\ ctl \in Controls /\ srv \in Servers /\ stray = {}
    BY DEF Init, Lanes, LanePcs, Controls, Servers
  <2> QED
    BY <2>1, <2>2 DEF TypeOK, Lanes, Controls, Servers
<1>2. MailboxShape(rt, lane) /\ Accounting(rt, lane)
  BY DEF Init, MailboxShape, Accounting, CloseIsLast, HasClose
<1>3. Placed(rt, lane)
  BY DEF Init, Placed, PlacedAt
<1>4. LaneShape(rt, lane) /\ FenceShape(rt, lane)
  BY DEF Init, LaneShape, FenceShape
<1>5. StrikeShape(rt, lane, srv, stray)
  BY DEF Init, StrikeShape, Targets
<1>6. ServerShape(lane, srv) /\ SettledShape(rt)
  BY DEF Init, ServerShape, SettledShape
<1> QED
  BY <1>1, <1>2, <1>3, <1>4, <1>5, <1>6 DEF LaneIInv, Shape

\* Every step of every thread keeps the invariant and takes a legal edge.
LEMMA StepKeeps ==
  ASSUME LaneIInv, Next
  PROVE  LaneIInv' /\ Legal(rt, rt')
<1>1. PICK r, l, v, h : r = rt /\ l = lane /\ v = srv /\ h = stray
  OBVIOUS
<1>2. PICK r2, l2, v2, h2 : r2 = rt' /\ l2 = lane' /\ v2 = srv' /\ h2 = stray'
  OBVIOUS
<1>3. /\ r \in Runtime /\ l \in Lanes /\ v \in Servers /\ h \in SUBSET Strays
      /\ ctl \in Controls /\ Shape(r, l, v, h)
  BY <1>1 DEF LaneIInv, TypeOK, Lanes, Servers, Controls, Strays
<1> DEFINE Kept == /\ r2 \in Runtime /\ l2 \in Lanes /\ v2 \in Servers
                   /\ h2 \in SUBSET Strays /\ Shape(r2, l2, v2, h2)
                   /\ Legal(r, r2) /\ ctl' \in Controls
<1>4. SUFFICES Kept
  BY <1>1, <1>2 DEF LaneIInv, TypeOK, Lanes, Servers, Controls, Strays
<1>5. r2 = r => Legal(r, r2)
  BY DEF Legal
<1>6. ctl' = ctl => ctl' \in Controls
  BY <1>3
<1>7. CASE ControlOpens
  <2>1. ctl' \in Controls
    BY <1>3, <1>7 DEF ControlOpens, Controls
  <2> QED
    BY <1>1, <1>2, <1>3, <1>5, <1>7, <2>1 DEF ControlOpens
<1>8. CASE AttachReady
  BY <1>1, <1>2, <1>3, <1>5, <1>6, <1>8, AttachKeeps DEF AttachReady
<1>9. CASE AttachGivesUp
  BY <1>1, <1>2, <1>3, <1>5, <1>6, <1>9, AttachKeeps DEF AttachGivesUp
<1>10. ASSUME NEW s \in Stmts, Submit(s) PROVE Kept
  <2>1. /\ l2 = l /\ v2 = v /\ h2 = h /\ ctl' = ctl
        /\ r.stmt[s] = "none" /\ r.accepting
        /\ r2 = Accepting(r, s)
    BY <1>1, <1>2, <1>10 DEF Submit, CanSubmit, Accepting
  <2>2. r2 \in Runtime /\ Shape(r2, l, v, h) /\ Legal(r, r2)
    BY <1>3, <2>1, SubmitKeeps
  <2> QED
    BY <1>3, <1>6, <2>1, <2>2
<1>11. ASSUME NEW s \in Stmts, SubmitWithoutResultSet(s) PROVE Kept
  BY <1>1, <1>2, <1>3, <1>6, <1>11, SubmitFailsKeeps
     DEF SubmitWithoutResultSet, CanSubmit
<1>12. ASSUME NEW s \in Stmts, Cancel(s) PROVE Kept
  <2>1. l2 = l /\ v2 = v /\ h2 = h /\ ctl' = ctl
    BY <1>1, <1>2, <1>12 DEF Cancel
  <2>2. \/ /\ r.stmt[s] = "accepted"
           /\ r2 = [r EXCEPT !.stmt[s] = "cancelled", !.cancelRequested[s] = TRUE]
        \/ r.current = s /\ ~r.inFlight /\ r2 = BeginCancel(r, r.current, "user")
    BY <1>1, <1>2, <1>12 DEF Cancel
  <2>3. CASE /\ r.stmt[s] = "accepted"
             /\ r2 = [r EXCEPT !.stmt[s] = "cancelled", !.cancelRequested[s] = TRUE]
    <3>1. r2 \in Runtime /\ Shape(r2, l, v, h) /\ Legal(r, r2)
      BY ZenonT(60), <1>3, <2>3, CancelAcceptedKeeps
    <3> QED
      BY <1>3, <1>6, <2>1, <3>1
  <2>4. CASE r.current = s /\ ~r.inFlight /\ r2 = BeginCancel(r, r.current, "user")
    BY <1>3, <1>6, <2>1, <2>4, BeginCancelKeeps, CancelsAreLegal DEF Reasons
  <2> QED
    BY <2>2, <2>3, <2>4
<1>13. CASE Close
  <2>1. l2 = l /\ v2 = v /\ h2 = h /\ ctl' = ctl /\ r2 = QueueClose(r, "user", TRUE)
    BY <1>1, <1>2, <1>13 DEF Close
  <2> QED
    BY <1>3, <1>6, <2>1, QueueCloseKeeps, CancelsAreLegal
<1>14. CASE Shutdown
  <2>1. PICK m : m = [r EXCEPT !.stopped = TRUE]
    OBVIOUS
  <2>2. m \in Runtime /\ Shape(m, l, v, h) /\ CancelsOnly(r, m)
    BY <1>3, <2>1, StoppedKeeps
  <2>3. /\ l2 = l /\ v2 = v /\ h2 = h /\ ctl' = ctl
        /\ r2 = m \/ r2 = QueueClose(m, "shutdown", TRUE)
    BY <1>1, <1>2, <1>14, <2>1 DEF Shutdown
  <2>4. r2 \in Runtime /\ Shape(r2, l, v, h) /\ CancelsOnly(r, r2)
    <3>1. CASE r2 = m
      BY <2>2, <3>1
    <3>2. CASE r2 = QueueClose(m, "shutdown", TRUE)
      <4>1. r2 \in Runtime /\ Shape(r2, l, v, h) /\ CancelsOnly(m, r2)
        BY <1>3, <2>2, <3>2, QueueCloseKeeps
      <4> QED
        BY <2>2, <4>1, CancelsTwice
    <3> QED
      BY <2>3, <3>1, <3>2
  <2> QED
    BY <1>3, <1>6, <2>3, <2>4, CancelsAreLegal
<1>15. CASE ControlStop
  <2>1. /\ l2 = l /\ v2 = v /\ h2 = h /\ ctl' = ctl
        /\ r2 = [r EXCEPT !.ctlq = Append(@, Control("stop", NoStmt))]
    BY <1>1, <1>2, <1>15 DEF ControlStop
  <2> QED
    BY <1>3, <1>6, <2>1, ControlStopKeeps
<1>16. ASSUME NEW due \in SUBSET Deadlines, RunTimersOnce(due) PROVE Kept
  <2>1. /\ l2 = l /\ v2 = v /\ h2 = h /\ ctl' = ctl
        /\ r2 = ReclaimIdle(Escalate(TimeOutStatement(r, due), due), due)
    BY <1>1, <1>2, <1>16 DEF RunTimersOnce
  <2> QED
    BY <1>3, <1>6, <2>1, TimersKeep, CancelsAreLegal
<1>17. CASE LaneOpens
  <2>1. /\ h2 = h /\ ctl' = ctl /\ l.pc = "opening"
        /\ \/ /\ r2 = [r EXCEPT !.sess = "idle"] /\ v2 = [v EXCEPT !.alive = TRUE]
              /\ l2 = [l EXCEPT !.pc = "get"]
           \/ /\ r2 = [r EXCEPT !.sess = "connect_failed", !.accepting = FALSE]
              /\ l2 = [l EXCEPT !.pc = "ended"] /\ v2 = v
    BY <1>1, <1>2, <1>17 DEF LaneOpens, Goto
  <2> QED
    BY <1>3, <1>6, <2>1, OpensKeeps, OpenFailsKeeps
<1>18. CASE LaneGets
  <2>1. /\ v2 = v /\ h2 = h /\ ctl' = ctl /\ l.pc = "get" /\ r.mailbox # <<>>
        /\ r2 = [r EXCEPT !.mailbox = Tail(@)]
        /\ Head(r.mailbox) = CloseCmd => l2 = [l EXCEPT !.pc = "closeFence"]
        /\ Head(r.mailbox) # CloseCmd => l2 = Taking(l, Head(r.mailbox))
    BY <1>1, <1>2, <1>18 DEF LaneGets, Goto, Taking
  <2>2. CASE Head(r.mailbox) = CloseCmd
    BY <1>3, <1>6, <2>1, <2>2, GetsCloseKeeps
  <2>3. CASE Head(r.mailbox) # CloseCmd
    <3>1. /\ r2 \in Runtime /\ l2 \in Lanes /\ Shape(r2, l2, v, h)
          /\ Legal(r, r2)
      BY <1>3, <2>1, <2>3, GetsKeeps
    <3> QED
      BY <1>3, <1>6, <2>1, <3>1
  <2> QED
    BY <2>2, <2>3
<1>19. CASE LaneDecrements
  <2>1. /\ v2 = v /\ h2 = h /\ ctl' = ctl /\ l.pc = "decrement"
        /\ r2 = [r EXCEPT !.pending = @ - 1] /\ l2 = [l EXCEPT !.pc = "start"]
    BY <1>1, <1>2, <1>19 DEF LaneDecrements, Goto
  <2> QED
    BY <1>3, <1>6, <2>1, DecrementsKeeps
<1>20. CASE LaneStarts
  <2>1. /\ v2 = v /\ h2 = h /\ ctl' = ctl /\ l.pc = "start"
        /\ ~(r.inFlight /\ r.sess \in Active)
    BY <1>1, <1>2, <1>20 DEF LaneStarts, Fenced
  <2>2. \/ /\ r.stmt[l.s] = "accepted"
           /\ r.accepting \/ r.sess \in {"idle", "executing"}
           /\ r2 = Starting(r, l.s) /\ l2 = Beginning(l)
        \/ /\ ~(/\ r.stmt[l.s] = "accepted"
                /\ r.accepting \/ r.sess \in {"idle", "executing"})
           /\ r2 = r /\ l2 = [l EXCEPT !.pc = "drain"]
    BY <1>1, <1>2, <1>20 DEF LaneStarts, MayStart, Goto, Starting, Beginning
  <2>3. CASE /\ r.stmt[l.s] = "accepted"
             /\ r.accepting \/ r.sess \in {"idle", "executing"}
             /\ r2 = Starting(r, l.s) /\ l2 = Beginning(l)
    <3>1. /\ r2 \in Runtime /\ l2 \in Lanes /\ Shape(r2, l2, v, h)
          /\ Legal(r, r2)
      BY <1>3, <2>1, <2>3, StartsKeeps
    <3> QED
      BY <1>3, <1>6, <2>1, <3>1
  <2>4. CASE /\ ~(/\ r.stmt[l.s] = "accepted"
                  /\ r.accepting \/ r.sess \in {"idle", "executing"})
             /\ r2 = r /\ l2 = [l EXCEPT !.pc = "drain"]
    BY <1>3, <1>5, <1>6, <2>1, <2>4, SkipsKeeps
  <2> QED
    BY <2>2, <2>3, <2>4
<1>21. CASE LaneExecutes
  <2>1. /\ r2 = r /\ h2 = h /\ ctl' = ctl /\ l.pc = "execute"
        /\ r.softFlag => /\ v2 = v
                         /\ \E out \in {"timeout", "cancelled"} :
                               l2 = [l EXCEPT !.pc = "finish", !.out = out]
        /\ ~r.softFlag =>
              /\ l2 = [l EXCEPT !.pc = "running"]
              /\ v2 = IF v.alive THEN [v EXCEPT !.op = l.s, !.interrupted = FALSE]
                      ELSE v
    BY <1>1, <1>2, <1>21 DEF LaneExecutes, CancelOutcome, Goto
  <2>2. CASE r.softFlag
    BY <1>3, <1>5, <1>6, <2>1, <2>2, SoftCancelKeeps
  <2>3. CASE ~r.softFlag
    BY <1>3, <1>5, <1>6, <2>1, <2>3, ExecutesKeeps
  <2> QED
    BY <2>2, <2>3
<1>22. CASE LaneFinishes
  <2>1. /\ h2 = h /\ ctl' = ctl /\ l.pc = "finish"
        /\ r2 = Finished(r, l.s, l.out, l.lost) /\ l2 = [l EXCEPT !.pc = "drain"]
        /\ v2 = IF r2.sess = "session_lost" THEN [v EXCEPT !.alive = FALSE] ELSE v
    BY <1>1, <1>2, <1>22 DEF LaneFinishes, Goto
  <2> QED
    BY <1>3, <1>6, <2>1, FinishesKeeps
<1>23. CASE LaneDrains
  <2>1. /\ v2 = v /\ h2 = h /\ ctl' = ctl /\ l.pc = "drain"
        /\ \/ /\ r.closePending /\ r.mailbox = <<>>
              /\ r2 = [r EXCEPT !.closePending = FALSE]
              /\ l2 = [l EXCEPT !.pc = "closeFence"]
           \/ r2 = r /\ l2 = [l EXCEPT !.pc = "get"]
    BY <1>1, <1>2, <1>23 DEF LaneDrains, Goto
  <2> QED
    BY <1>3, <1>5, <1>6, <2>1, DrainsCloseKeeps, DrainsKeeps
<1>24. CASE LaneBeginsClose
  <2>1. /\ v2 = v /\ h2 = h /\ ctl' = ctl /\ l.pc = "closeFence"
        /\ ~(r.inFlight /\ r.sess \in Active)
        /\ \/ /\ r.sess \in {"closed", "session_lost", "connect_failed"}
              /\ r2 = r /\ l2 = [l EXCEPT !.pc = "ended"]
           \/ /\ r.sess \notin {"closed", "session_lost", "connect_failed"}
              /\ r2 = [r EXCEPT !.sess = "closing"] /\ l2 = [l EXCEPT !.pc = "closing"]
    BY <1>1, <1>2, <1>24 DEF LaneBeginsClose, Fenced, Goto
  <2> QED
    BY <1>3, <1>5, <1>6, <2>1, EndsKeeps, BeginsCloseKeeps
<1>25. CASE LaneCloses
  <2>1. /\ h2 = h /\ ctl' = ctl /\ l.pc = "closing"
        /\ r2 = [r EXCEPT !.sess = "closed"] /\ v2 = [v EXCEPT !.alive = FALSE]
        /\ l2 = [l EXCEPT !.pc = "ended"]
    BY <1>1, <1>2, <1>25 DEF LaneCloses, Goto
  <2> QED
    BY <1>3, <1>6, <2>1, ClosesKeeps
<1>26. CASE LaneStreams
  <2>1. /\ v2 = v /\ h2 = h /\ ctl' = ctl /\ l.pc = "running"
        /\ r2 = [r EXCEPT !.stmt[l.s] = IF @ = "executing" THEN "streaming" ELSE @]
        /\ l2 = [l EXCEPT !.pc = "streaming"]
    BY <1>1, <1>2, <1>26 DEF LaneStreams, Goto
  <2> QED
    BY <1>3, <1>6, <2>1, StreamsKeeps
<1>27. ASSUME NEW out \in Terminal, DriverReturns(out), r2 = r,
              l.pc \in {"running", "streaming"},
              out = "cancelled" => Struck(r, h, l.s)
       PROVE  Kept
  <2>1. h2 = h /\ ctl' = ctl /\ l2 = Returning(l, out) /\ v2 = Released(v)
    BY <1>1, <1>2, <1>27 DEF DriverReturns, Returning, Released
  <2>2. l2 \in Lanes /\ v2 \in Servers /\ Shape(r, l2, v2, h)
    BY <1>3, <1>27, <2>1, DriverReturnsKeeps
  <2> QED
    BY <1>3, <1>5, <1>6, <1>27, <2>1, <2>2
<1>28. CASE LaneSucceeds
  BY <1>1, <1>2, <1>27, <1>28 DEF LaneSucceeds
<1>29. CASE LaneFails
  BY <1>1, <1>2, <1>27, <1>29 DEF LaneFails
<1>30. CASE LaneSoftCancels
  <2>1. /\ r2 = r /\ l.pc = "streaming"
        /\ DriverReturns(CancelOutcome) /\ CancelOutcome \in {"timeout", "cancelled"}
        /\ r.softFlag
    BY <1>1, <1>2, <1>30 DEF LaneSoftCancels, CancelOutcome
  <2>2. Struck(r, h, l.s)
    BY <1>3, <2>1 DEF Shape, StrikeShape, Struck
  <2>3. PICK out \in {"timeout", "cancelled"} : out = CancelOutcome
    BY <2>1
  <2>4. DriverReturns(out)
    BY <2>1, <2>3
  <2> QED
    BY <1>27, <2>1, <2>2, <2>3, <2>4
<1>31. CASE LaneInterrupted
  <2>1. PICK m : m = [r EXCEPT !.confirmed = TRUE]
    OBVIOUS
  <2>2. m \in Runtime /\ Shape(m, l, v, h) /\ Legal(r, m)
    BY <1>3, <2>1, ConfirmedKeeps
  <2>3. PICK out \in {"timeout", "cancelled"} : out = CancelOutcome
    BY DEF CancelOutcome
  <2>4. /\ h2 = h /\ ctl' = ctl /\ l2 = Returning(l, out) /\ v2 = Released(v)
        /\ r2 = m /\ l.pc \in {"running", "streaming"} /\ v.interrupted
    BY <1>1, <1>2, <1>31, <2>1, <2>3
       DEF LaneInterrupted, DriverReturns, Returning, Released
  <2>5. Struck(m, h, l.s)
    BY <2>2, <2>4 DEF Shape, StrikeShape, ServerShape
  <2>6. l2 \in Lanes /\ v2 \in Servers /\ Shape(m, l2, v2, h)
    BY <1>3, <2>2, <2>4, <2>5, DriverReturnsKeeps
  <2> QED
    BY <1>3, <1>6, <2>2, <2>4, <2>6
<1>32. CASE LaneFindsDead
  <2>1. /\ r2 = r /\ v2 = v /\ h2 = h /\ ctl' = ctl /\ ~v.alive
        /\ l.pc \in {"running", "streaming"}
        /\ l2 = [l EXCEPT !.pc = "finish", !.out = "failed", !.lost = TRUE]
    BY <1>1, <1>2, <1>32 DEF LaneFindsDead
  <2> QED
    BY <1>3, <1>5, <1>6, <2>1, FindsDeadKeeps
<1>33. CASE ControlRuns
  <2>1. PICK cmd : cmd = Head(r.ctlq)
    OBVIOUS
  <2>2. /\ l2 = l /\ r.ctlq # <<>> /\ r2 = [r EXCEPT !.ctlq = Tail(@)]
        /\ \/ /\ cmd.kind # "stop" /\ v.alive
              /\ v2 = Hit(v, cmd) /\ h2 = Recorded(h, v, cmd)
           \/ v2 = v /\ h2 = h
    BY <1>1, <1>2, <1>33, <2>1 DEF ControlRuns, Strikes, Hit, Recorded
  <2>3. /\ r2 \in Runtime /\ Shape(r2, l, v, h) /\ Legal(r, r2)
        /\ r2.cancelRequested = r.cancelRequested
    BY <1>3, <2>2, TakesCommandKeeps
  <2>4. /\ cmd \in Commands
        /\ cmd.kind # "stop" => cmd.target \in Stmts /\ r.cancelRequested[cmd.target]
    <3>1. r.ctlq \in Seq(Commands) /\ Targets(r.ctlq, r.cancelRequested)
      BY <1>3 DEF Runtime, Commands, Shape, StrikeShape
    <3> QED
      BY <2>1, <2>2, <3>1, TargetsTail
  <2>5. ctl' \in Controls
    <3>1. ctl' = [ctl EXCEPT !.pc = IF cmd.kind = "stop" THEN "ended" ELSE "report",
                             !.kind = cmd.kind]
      BY <1>1, <1>33, <2>1 DEF ControlRuns
    <3> QED
      BY <1>3, <2>4, <3>1 DEF Controls, Commands
  <2>6. CASE v2 = v /\ h2 = h
    BY <1>3, <2>2, <2>3, <2>5, <2>6
  <2>7. CASE ~(v2 = v /\ h2 = h)
    <3>1. /\ cmd.target \in Stmts /\ r2.cancelRequested[cmd.target]
          /\ cmd.kind # "stop" /\ v.alive
      BY <2>2, <2>3, <2>4, <2>7
    <3>a. v2 = Hit(v, cmd) /\ h2 = Recorded(h, v, cmd)
      BY <2>2, <2>7
    <3>2. v2 \in Servers /\ h2 \in SUBSET Strays /\ Shape(r2, l, v2, h2)
      BY <1>3, <2>3, <2>4, <3>1, <3>a, StrikesKeeps
    <3> QED
      BY <1>3, <2>2, <2>3, <2>5, <3>2
  <2> QED
    BY <2>6, <2>7
<1>34. CASE ControlReports
  <2>1. ctl' \in Controls
    BY <1>3, <1>34 DEF ControlReports, Controls
  <2>2. /\ l2 = l /\ v2 = v /\ h2 = h
        /\ r2 = OnCancelDone(r) \/ r2 = OnDestroyDone(r)
    BY <1>1, <1>2, <1>34 DEF ControlReports
  <2> QED
    BY <1>3, <2>1, <2>2, OnCancelDoneKeeps, OnDestroyDoneKeeps
<1>35. CASE ServerDrops
  <2>1. /\ r2 = r /\ l2 = l /\ h2 = h /\ ctl' = ctl
        /\ v2 = [op |-> NoStmt, alive |-> FALSE, interrupted |-> FALSE]
    BY <1>1, <1>2, <1>35 DEF ServerDrops
  <2> QED
    BY <1>3, <1>5, <1>6, <2>1, DropsKeeps
<1>36. CASE LaneInBroker
  BY <1>36, <1>17, <1>18, <1>19, <1>20, <1>21, <1>22, <1>23, <1>24, <1>25
     DEF LaneInBroker
<1>37. CASE LaneInDriver
  BY <1>37, <1>26, <1>28, <1>29, <1>30, <1>31, <1>32 DEF LaneInDriver
<1> HIDE DEF Kept
<1> QED
  BY <1>7, <1>8, <1>9, <1>10, <1>11, <1>12, <1>13, <1>14, <1>15, <1>16, <1>33,
     <1>34, <1>35, <1>36, <1>37 DEF Next

\* A stuttering step keeps it, too.
LEMMA StutterKeeps ==
  ASSUME LaneIInv, UNCHANGED vars
  PROVE  LaneIInv'
  BY DEF LaneIInv, TypeOK, Shape, MailboxShape, Accounting, Placed, PlacedAt,
         LaneShape, FenceShape, StrikeShape, Struck, ServerShape, SettledShape, vars

\* What the invariant says of the properties the runs check.
LEMMA InvariantImplies ==
  ASSUME LaneIInv
  PROVE  LaneInv
<1>1. /\ MailboxShape(rt, lane) /\ Accounting(rt, lane) /\ LaneShape(rt, lane)
      /\ FenceShape(rt, lane) /\ StrikeShape(rt, lane, srv, stray)
      /\ ServerShape(lane, srv) /\ SettledShape(rt)
  BY DEF LaneIInv, Shape
<1>2. MailboxNeverDiverges
  <2>1. Len(rt.mailbox) \in Nat /\ rt.pending \in Nat
    BY DEF LaneIInv, TypeOK, Runtime
  <2>2. rt.accepting => ~HasClose(rt.mailbox)
    BY <1>1 DEF MailboxShape
  <2>3. rt.accepting => rt.pending \in {Len(rt.mailbox), Len(rt.mailbox) + 1}
    BY <1>1, <2>2 DEF Accounting
  <2> QED
    BY <2>1, <2>3 DEF MailboxNeverDiverges
<1>3. FenceBlocksNext
  BY <1>1 DEF FenceBlocksNext, FenceShape
<1>4. CancelWasRequested
  BY <1>1 DEF CancelWasRequested, StrikeShape, Struck
<1>5. ClosedMeansSettled
  BY <1>1 DEF ClosedMeansSettled, SettledShape
<1>6. HonestCancel
  <2>1. SUFFICES ASSUME NEW s \in Stmts, rt.stmt[s] \in {"cancelled", "timeout"},
                        srv.op = s
                 PROVE  FALSE
    BY DEF HonestCancel
  <2>2. lane.s = s /\ lane.pc \in OnLane
    BY <1>1, <2>1 DEF ServerShape
  <2> QED
    BY <1>1, <2>1, <2>2 DEF LaneShape
<1> QED
  BY <1>2, <1>3, <1>4, <1>5, <1>6 DEF LaneInv, LaneIInv

\* The inductive invariant holds in every reachable state.
LEMMA LaneIsInductive == Spec => []LaneIInv
<1>1. Init => LaneIInv
  BY InitKeeps
<1>2. LaneIInv /\ [Next]_vars => LaneIInv'
  BY StepKeeps, StutterKeeps
<1> QED
  BY <1>1, <1>2, PTL DEF Spec

\* For every set of statements and every mailbox size, the mailbox has room
\* whenever submit counts on it, no statement starts behind a cancel in flight,
\* one ends cancelled only if it or the command that hit it was asked for, and
\* a closed session has settled every statement (SessionRuntime and its lane).
THEOREM LaneIsSafe == Spec => []LaneInv
<1>1. LaneIInv => LaneInv
  BY InvariantImplies
<1> QED
  BY <1>1, LaneIsInductive, PTL

\* No thread ever asks transition_session or transition_statement for an edge
\* that is not in its table: the API threads, the timer, the lane and the
\* control lane move the session and its statements along legal edges only.
THEOREM TransitionsAreLegal == Spec => LegalTransitions
<1>1. LaneIInv /\ [Next]_vars => Legal(rt, rt') \/ UNCHANGED vars
  BY StepKeeps
<1>2. LaneIInv /\ [Next]_vars =>
         [/\ rt.sess # rt'.sess => <<rt.sess, rt'.sess>> \in SessionTransitions
          /\ \A s \in Stmts :
                \/ rt.stmt[s] = rt'.stmt[s]
                \/ rt.stmt[s] = "none" /\ rt'.stmt[s] \in {"accepted", "failed"}
                \/ <<rt.stmt[s], rt'.stmt[s]>> \in StatementTransitions]_vars
  BY <1>1 DEF Legal
<1> QED
  BY <1>2, LaneIsInductive, PTL DEF Spec, LegalTransitions

=============================================================================
