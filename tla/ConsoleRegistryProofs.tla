------------------------ MODULE ConsoleRegistryProofs ------------------------
(* A console has one session and one holder, for any number of consoles,     *)
(* windows, requests and restarts of the process.                            *)
EXTENDS ConsoleRegistry, FiniteSetTheorems, TLAPS

----------------------------------------------------------------------------
(* The inductive invariant.                                                  *)

\* Identifiers that were not given out yet are unused everywhere.
Fresh ==
    /\ \A s \in Sids : s >= nextSid =>
          /\ srow[s] = NoRow /\ rt[s] = NoRuntime
          /\ \A r \in Requests : strow[<<s, r>>] = "none" /\ starts[<<s, r>>] = 0
    /\ \A w \in Windows : view[w].session < nextSid

\* A row belongs to a console that exists and is not ahead of its epoch.
RowsKnown ==
    \A s \in Sids :
        /\ srow[s].state = "none" => srow[s] = NoRow
        /\ srow[s] # NoRow =>
              /\ srow[s].console \in Consoles /\ console[srow[s].console].alive
              /\ srow[s].epoch <= console[srow[s].console].epoch
              /\ srow[s].boot <= boot
        /\ srow[s] = NoRow => \A r \in Requests : strow[<<s, r>>] = "none"

\* So does a runtime, whose console may be deleted.
RuntimesKnown ==
    \A s \in Sids :
        /\ rt[s].state = "none" => rt[s] = NoRuntime
        /\ rt[s] # NoRuntime => /\ up /\ rt[s].console \in Consoles
                                /\ rt[s].epoch <= console[rt[s].console].epoch

\* A row and a runtime of one session agree.
Linked ==
    \A s \in Sids : srow[s] # NoRow /\ rt[s] # NoRuntime =>
        /\ srow[s].console = rt[s].console /\ srow[s].state = rt[s].state
        /\ srow[s].epoch = rt[s].epoch

\* Only the newest row of a console can be active.
NewestIsActive ==
    \A s, t \in Sids :
        s < t /\ srow[s] # NoRow /\ srow[t] # NoRow /\ srow[s].console = srow[t].console
            => srow[s].state \in EndedStates

\* The dictionary of consoles points to a live runtime if there is one.
CurrentIs ==
    /\ \A s \in Sids : Live(s) => current[rt[s].console] = s
    /\ \A c \in Consoles : current[c] # 0 =>
          rt[current[c]] # NoRuntime /\ rt[current[c]].console = c

\* An attach between its two locks has a runtime without a lane.
AttachIs ==
    /\ attaching.session = 0 => attaching = NoAttach
    /\ attaching.session # 0 =>
          /\ rt[attaching.session] # NoRuntime /\ rt[attaching.session].lane = "none"
          /\ attaching.window \in Windows
          /\ \A w \in Windows : view[w].session # attaching.session
    /\ \A s \in Sids : rt[s].lane = "none" => rt[s].running = "none"

\* No window holds an epoch its console has not reached, and no two windows
\* hold the same one of a session.
ViewsDiffer ==
    /\ \A w \in Windows : view[w].session # 0 =>
          /\ view[w].console \in Consoles
          /\ view[w].epoch <= console[view[w].console].epoch
          /\ rt[view[w].session] # NoRuntime => view[w].console = rt[view[w].session].console
    /\ \A v, w \in Windows :
          v # w /\ view[v].session # 0 /\ view[v].session = view[w].session
              => view[v].epoch # view[w].epoch

\* A statement that is executing has an active row; after a crash that row is
\* one of the boot before.
Executing ==
    /\ \A s \in Sids, r \in Requests : strow[<<s, r>>] = "executing" =>
          /\ srow[s].state \in ActiveStates
          /\ up => rt[s].lane = "run" /\ rt[s].running = r
          /\ ~up => srow[s].boot # boot
    /\ \A s \in Sids : rt[s].lane = "run" /\ rt[s].running # "none" => rt[s].state = "idle"

\* While the broker serves, active rows are of this boot.
Booted == up => \A s \in Sids : srow[s].state \in ActiveStates => srow[s].boot = boot

\* What was not started yet can still be; what was not sent was not started.
Unstarted ==
    \A s \in Sids, r \in Requests :
        /\ r \in rt[s].queued => starts[<<s, r>>] = 0
        /\ srow[s] # NoRow /\ strow[<<s, r>>] = "none" => starts[<<s, r>>] = 0

RegistryIInv ==
    /\ RegistryTypeOK /\ Fresh /\ RowsKnown /\ RuntimesKnown /\ Linked
    /\ NewestIsActive /\ CurrentIs /\ AttachIs /\ ViewsDiffer /\ Executing /\ Booted
    /\ Unstarted /\ StartsAtMostOnce /\ EpochsGrow /\ LimitsHold

\* The fields the invariant reads.
RuntimeIs(m, state, con, ds, epoch, queued, running) ==
    /\ m.state = state /\ m.console = con /\ m.ds = ds /\ m.epoch = epoch
    /\ m.queued = queued /\ m.running = running

RowIs(row, state, con, epoch, madeBy) ==
    /\ row.state = state /\ row.console = con /\ row.epoch = epoch /\ row.boot = madeBy

----------------------------------------------------------------------------
(* What the operators do.                                                    *)

\* What the records hold.
LEMMA Fields ==
  /\ \A m \in Runtimes : /\ m.state \in SessionStates /\ m.epoch \in Nat
                         /\ m.console \in Consoles \union {"none"}
                         /\ m.queued \subseteq Requests
                         /\ m.running \in Requests \union {"none"}
                         /\ m.lane \in {"none", "run", "ended"}
  /\ \A row \in SessionRows : /\ row.state \in SessionStates /\ row.epoch \in Nat
                              /\ row.console \in Consoles \union {"none"} /\ row.boot \in Nat
  /\ \A con \in ConsoleRows : con.epoch \in Nat /\ con.alive \in BOOLEAN /\ con.ds \in Datasources
  /\ \A v \in Views : v.epoch \in Nat /\ v.session \in Sids \union {0}
  BY DEF Runtimes, SessionRows, ConsoleRows, Views

\* What no record holds.
LEMMA Nothing ==
  /\ NoRuntime \in Runtimes
  /\ RuntimeIs(NoRuntime, "none", "none", "none", 0, {}, "none") /\ NoRuntime.lane = "none"
  /\ NoRow \in SessionRows /\ RowIs(NoRow, "none", "none", 0, 0)
  /\ NoView \in Views /\ NoView.session = 0
  BY DEF NoRuntime, Runtimes, RuntimeIs, NoRow, SessionRows, RowIs, NoView, Views,
     SessionStates

\* A runtime with another epoch, lane, queue or running statement.
LEMMA EpochSet ==
  ASSUME NEW o \in Runtimes, NEW e \in Nat
  PROVE  /\ [o EXCEPT !.epoch = e] \in Runtimes
         /\ RuntimeIs([o EXCEPT !.epoch = e], o.state, o.console, o.ds, e, o.queued, o.running)
         /\ [o EXCEPT !.epoch = e].lane = o.lane
  BY DEF Runtimes, RuntimeIs

LEMMA LaneSet ==
  ASSUME NEW o \in Runtimes, NEW l \in {"none", "run", "ended"}
  PROVE  /\ [o EXCEPT !.lane = l] \in Runtimes
         /\ RuntimeIs([o EXCEPT !.lane = l], o.state, o.console, o.ds, o.epoch, o.queued,
                      o.running)
         /\ [o EXCEPT !.lane = l].lane = l
  BY DEF Runtimes, RuntimeIs

LEMMA QueueSet ==
  ASSUME NEW o \in Runtimes, NEW q, q \subseteq Requests, NEW r \in Requests \union {"none"}
  PROVE  /\ [o EXCEPT !.queued = q] \in Runtimes
         /\ RuntimeIs([o EXCEPT !.queued = q], o.state, o.console, o.ds, o.epoch, q, o.running)
         /\ [o EXCEPT !.queued = q].lane = o.lane
         /\ [o EXCEPT !.running = r] \in Runtimes
         /\ RuntimeIs([o EXCEPT !.running = r], o.state, o.console, o.ds, o.epoch, o.queued, r)
         /\ [o EXCEPT !.running = r].lane = o.lane
  BY DEF Runtimes, RuntimeIs

LEMMA ShutSet ==
  ASSUME NEW o \in Runtimes
  PROVE  /\ [o EXCEPT !.accepting = FALSE] \in Runtimes
         /\ RuntimeIs([o EXCEPT !.accepting = FALSE], o.state, o.console, o.ds, o.epoch,
                      o.queued, o.running)
         /\ [o EXCEPT !.accepting = FALSE].lane = o.lane
  BY DEF Runtimes, RuntimeIs

LEMMA RunningSet ==
  ASSUME NEW o \in Runtimes, NEW r \in Requests, NEW l \in {"none", "run", "ended"}
  PROVE  /\ [o EXCEPT !.queued = o.queued \ {r}, !.running = r, !.lane = l] \in Runtimes
         /\ RuntimeIs([o EXCEPT !.queued = o.queued \ {r}, !.running = r, !.lane = l],
                      o.state, o.console, o.ds, o.epoch, o.queued \ {r}, r)
         /\ [o EXCEPT !.queued = o.queued \ {r}, !.running = r, !.lane = l].lane = l
  BY DEF Runtimes, RuntimeIs

\* A row with another epoch or state.
LEMMA RowEpochSet ==
  ASSUME NEW o \in SessionRows, NEW e \in Nat
  PROVE  /\ [o EXCEPT !.epoch = e] \in SessionRows
         /\ RowIs([o EXCEPT !.epoch = e], o.state, o.console, e, o.boot)
  BY DEF SessionRows, RowIs

LEMMA RowStateSet ==
  ASSUME NEW o \in SessionRows, NEW st \in SessionStates \ {"none"}
  PROVE  /\ [o EXCEPT !.state = st] \in SessionRows
         /\ RowIs([o EXCEPT !.state = st], st, o.console, o.epoch, o.boot)
  BY DEF SessionRows, RowIs

\* A console with another epoch or datasource, or deleted.
LEMMA ConsoleEpochSet ==
  ASSUME NEW o \in ConsoleRows, NEW e \in Nat
  PROVE  /\ [o EXCEPT !.epoch = e] \in ConsoleRows
         /\ [o EXCEPT !.epoch = e].epoch = e /\ [o EXCEPT !.epoch = e].alive = o.alive
  BY DEF ConsoleRows

LEMMA ConsoleBound ==
  ASSUME NEW o \in ConsoleRows, NEW d \in Datasources
  PROVE  /\ [o EXCEPT !.ds = d] \in ConsoleRows
         /\ [o EXCEPT !.ds = d].epoch = o.epoch /\ [o EXCEPT !.ds = d].alive = o.alive
  BY DEF ConsoleRows

LEMMA ConsoleDeleted ==
  ASSUME NEW o \in ConsoleRows
  PROVE  /\ [o EXCEPT !.alive = FALSE] \in ConsoleRows
         /\ [o EXCEPT !.alive = FALSE].epoch = o.epoch
  BY DEF ConsoleRows

\* Epochs are numbers.
LEMMA EpochsAreNumbers ==
  ASSUME RegistryTypeOK
  PROVE  /\ \A x \in Consoles : console[x].epoch \in Nat
         /\ \A s \in Sids : srow[s].epoch \in Nat /\ rt[s].epoch \in Nat
         /\ \A w \in Windows : view[w].epoch \in Nat
  BY Fields DEF RegistryTypeOK

\* What was queued or not yet sent is still unstarted as long as nothing starts.
LEMMA StillUnstarted ==
  ASSUME Unstarted, starts' = starts,
         \A s \in Sids : rt'[s].queued \subseteq rt[s].queued,
         \A s \in Sids : srow'[s] # NoRow => srow[s] # NoRow,
         \A s \in Sids, r \in Requests :
            srow'[s] # NoRow /\ strow'[<<s, r>>] = "none" => strow[<<s, r>>] = "none"
  PROVE  Unstarted'
  BY DEF Unstarted

\* A lane that moves to a state.
LEMMA MovesTo ==
  ASSUME rt \in [Sids -> Runtimes], NEW s \in Sids, NEW st \in SessionStates \ {"none"},
         LaneMoves(s, st)
  PROVE  \E m \in Runtimes :
            /\ rt' = [rt EXCEPT ![s] = m]
            /\ RuntimeIs(m, st, rt[s].console, rt[s].ds, rt[s].epoch, rt[s].queued,
                         rt[s].running)
            /\ \/ m.lane = "ended"
               \/ m.lane = rt[s].lane /\ srow[s] # NoRow /\ st \notin EndedStates
<1>1. PICK b \in BOOLEAN : b = (rt[s].accepting /\ st \in ActiveStates)
  <2>1. (rt[s].accepting /\ st \in ActiveStates) \in BOOLEAN
    BY Zenon DEF Runtimes
  <2> QED
    BY Zenon, <2>1
<1>2. PICK l \in {"none", "run", "ended"} :
        l = IF srow[s] = NoRow \/ st \in EndedStates THEN "ended" ELSE rt[s].lane
  BY DEF Runtimes
<1>3. Moved(rt[s], srow[s], st) = [rt[s] EXCEPT !.state = st, !.accepting = b, !.lane = l]
  BY <1>1, <1>2 DEF Moved, Runtimes
<1>4. PICK m \in Runtimes : m = [rt[s] EXCEPT !.state = st, !.accepting = b, !.lane = l]
  BY <1>1, <1>2 DEF Runtimes
<1>5. rt' = [rt EXCEPT ![s] = m]
  BY <1>3, <1>4 DEF LaneMoves
<1>6. RuntimeIs(m, st, rt[s].console, rt[s].ds, rt[s].epoch, rt[s].queued, rt[s].running)
      /\ m.lane = l
  BY <1>4 DEF Runtimes, RuntimeIs
<1> QED
  BY <1>2, <1>5, <1>6

\* Its row.
LEMMA RowFollows ==
  ASSUME srow \in [Sids -> SessionRows], NEW s \in Sids, NEW st \in SessionStates \ {"none"},
         LaneMoves(s, st)
  PROVE  \E row \in SessionRows :
            /\ srow' = [srow EXCEPT ![s] = row]
            /\ srow[s] = NoRow => row = NoRow
            /\ srow[s] # NoRow => row.state = st /\ row # NoRow
            /\ row.console = srow[s].console /\ row.epoch = srow[s].epoch
            /\ row.boot = srow[s].boot
<1>1. CASE srow[s] = NoRow
  <2>1. srow' = [srow EXCEPT ![s] = srow[s]]
    BY <1>1 DEF LaneMoves
  <2> QED
    BY <1>1, <2>1
<1>2. CASE srow[s] # NoRow
  <2>1. PICK row \in SessionRows : row = [srow[s] EXCEPT !.state = st]
    BY DEF SessionRows
  <2>2. srow' = [srow EXCEPT ![s] = row]
    BY <1>2, <2>1 DEF LaneMoves
  <2>3. row # NoRow
    BY <2>1 DEF SessionRows, NoRow
  <2>4. RowIs(row, st, srow[s].console, srow[s].epoch, srow[s].boot)
    BY <2>1 DEF SessionRows, RowIs
  <2> QED
    BY <1>2, <2>2, <2>3, <2>4 DEF RowIs
<1> QED
  BY <1>1, <1>2

\* There are finitely many sessions.
LEMMA LiveIsFinite == IsFiniteSet(LiveSessions)
<1>1. IsFiniteSet(1..MaxSessions)
  BY FS_Interval, RegistryLimits
<1>2. LiveSessions \subseteq 1..MaxSessions
  BY DEF LiveSessions, Sids
<1> QED
  BY <1>1, <1>2, FS_Subset

\* Fewer sessions that are live do not break the limits.
LEMMA FewerLive ==
  ASSUME LimitsHold, LiveSessions' \subseteq LiveSessions,
         \A s \in LiveSessions' : rt'[s].ds = rt[s].ds
  PROVE  LimitsHold'
<1>1. IsFiniteSet(LiveSessions)
  BY LiveIsFinite
<1>2. Cardinality(LiveSessions') \in Nat /\ Cardinality(LiveSessions) \in Nat
      /\ Cardinality(LiveSessions') <= Cardinality(LiveSessions)
  BY <1>1, FS_Subset, FS_CardinalityType
<1>3. ASSUME NEW d \in Datasources
      PROVE  Cardinality({s \in LiveSessions' : rt'[s].ds = d}) <= PerDatasource
  <2> DEFINE Old == {s \in LiveSessions : rt[s].ds = d}
             New == {s \in LiveSessions' : rt'[s].ds = d}
  <2>1. New \subseteq Old /\ Old \subseteq LiveSessions
    OBVIOUS
  <2>2. Cardinality(Old) <= PerDatasource
    BY DEF LimitsHold
  <2> HIDE DEF Old, New
  <2>3. IsFiniteSet(Old)
    BY <1>1, <2>1, FS_Subset
  <2>4. Cardinality(New) \in Nat /\ Cardinality(Old) \in Nat /\ Cardinality(New) <= Cardinality(Old)
    BY <2>1, <2>3, FS_Subset, FS_CardinalityType
  <2>5. Cardinality(New) <= PerDatasource
    BY <2>2, <2>4, RegistryLimits
  <2> QED
    BY <2>5 DEF New
<1>4. Cardinality(LiveSessions') <= GlobalTotal
  BY <1>2, RegistryLimits DEF LimitsHold
<1> QED
  BY <1>3, <1>4 DEF LimitsHold

\* One more is within them where it was checked.
LEMMA OneMoreLive ==
  ASSUME LimitsHold, NEW d0 \in Datasources, NEW n \in Sids, WithinLimits(d0),
         LiveSessions' = LiveSessions \union {n}, n \notin LiveSessions,
         rt'[n].ds = d0, \A s \in LiveSessions : rt'[s].ds = rt[s].ds
  PROVE  LimitsHold'
<1>1. IsFiniteSet(LiveSessions)
  BY LiveIsFinite
<1>2. Cardinality(LiveSessions) \in Nat
      /\ Cardinality(LiveSessions') = Cardinality(LiveSessions) + 1
  BY <1>1, FS_AddElement, FS_CardinalityType
<1>3. ASSUME NEW d \in Datasources
      PROVE  Cardinality({s \in LiveSessions' : rt'[s].ds = d}) <= PerDatasource
  <2> DEFINE Old == {s \in LiveSessions : rt[s].ds = d}
             New == {s \in LiveSessions' : rt'[s].ds = d}
  <2>1. Old \subseteq LiveSessions /\ n \notin Old
        /\ New = IF d = d0 THEN Old \union {n} ELSE Old
    OBVIOUS
  <2>2. Cardinality(Old) <= PerDatasource /\ (d = d0 => Cardinality(Old) < PerDatasource)
    BY DEF LimitsHold, WithinLimits
  <2> HIDE DEF Old, New
  <2>3. IsFiniteSet(Old)
    BY <1>1, <2>1, FS_Subset
  <2>4. Cardinality(Old) \in Nat /\ Cardinality(Old \union {n}) = Cardinality(Old) + 1
    BY <2>1, <2>3, FS_AddElement, FS_CardinalityType
  <2>5. Cardinality(New) <= PerDatasource
    <3>1. CASE d = d0
      BY <3>1, <2>1, <2>2, <2>4, RegistryLimits
    <3>2. CASE d # d0
      BY <3>2, <2>1, <2>2
    <3> QED
      BY <3>1, <3>2
  <2> QED
    BY <2>5 DEF New
<1>4. Cardinality(LiveSessions') <= GlobalTotal
  BY <1>2, RegistryLimits DEF WithinLimits
<1> QED
  BY <1>3, <1>4 DEF LimitsHold

----------------------------------------------------------------------------
(* Every step keeps the invariant.                                           *)


\* A window takes over a live session.
LEMMA AttachReuseKeeps ==
  ASSUME RegistryIInv, NEW w \in Windows, NEW c \in Consoles, AttachReuse(w, c)
  PROVE  RegistryIInv'
<1>1. /\ current[c] \in Sids /\ console[c].epoch + 1 \in Nat
      /\ rt[current[c]].state # "none" /\ srow[current[c]].state # "none"
      /\ srow[current[c]].state \notin EndedStates
  BY Fields DEF RegistryIInv, RegistryTypeOK, AttachReuse, Live, ActiveStates, EndedStates
<1>2. /\ rt[current[c]] # NoRuntime /\ rt[current[c]].console = c
      /\ srow[current[c]] # NoRow /\ srow[current[c]].console = c
      /\ current[c] < nextSid
  <2>1. rt[current[c]] # NoRuntime /\ srow[current[c]] # NoRow
    BY <1>1, Nothing DEF RuntimeIs, RowIs
  <2>2. rt[current[c]].console = c
    BY <1>1 DEF RegistryIInv, CurrentIs, Sids
  <2>3. srow[current[c]].console = c
    BY <1>1, <2>1, <2>2 DEF RegistryIInv, Linked
  <2>4. current[c] < nextSid
    BY <1>1, <2>1 DEF RegistryIInv, RegistryTypeOK, Fresh, Sids
  <2> QED
    BY <2>1, <2>2, <2>3, <2>4
<1>3. PICK m \in Runtimes :
        /\ rt' = [rt EXCEPT ![current[c]] = m] /\ m # NoRuntime
        /\ RuntimeIs(m, rt[current[c]].state, rt[current[c]].console, rt[current[c]].ds,
                     console[c].epoch + 1,
                     rt[current[c]].queued, rt[current[c]].running)
        /\ m.lane = rt[current[c]].lane
  <2>1. PICK m \in Runtimes : m = [rt[current[c]] EXCEPT !.epoch = console[c].epoch + 1]
    BY <1>1, EpochSet DEF RegistryIInv, RegistryTypeOK
  <2>2. rt' = [rt EXCEPT ![current[c]] = m]
    BY <1>1, <2>1 DEF RegistryIInv, RegistryTypeOK, AttachReuse, NextEpoch
  <2>3. RuntimeIs(m, rt[current[c]].state, rt[current[c]].console, rt[current[c]].ds,
                  console[c].epoch + 1,
                   rt[current[c]].queued, rt[current[c]].running)
        /\ m.lane = rt[current[c]].lane
    BY <1>1, <2>1, EpochSet DEF RegistryIInv, RegistryTypeOK
  <2>4. m # NoRuntime
    BY <1>1, <2>3, Nothing DEF RuntimeIs
  <2> QED
    BY <2>2, <2>3, <2>4
<1>4. PICK row \in SessionRows :
        /\ srow' = [srow EXCEPT ![current[c]] = row] /\ row # NoRow
        /\ RowIs(row, srow[current[c]].state, srow[current[c]].console,
                 console[c].epoch + 1, srow[current[c]].boot)
  <2>1. PICK row \in SessionRows : row = [srow[current[c]] EXCEPT !.epoch = console[c].epoch + 1]
    BY <1>1, RowEpochSet DEF RegistryIInv, RegistryTypeOK
  <2>2. srow' = [srow EXCEPT ![current[c]] = row]
    BY <1>1, <2>1 DEF RegistryIInv, RegistryTypeOK, AttachReuse, NextEpoch
  <2>3. RowIs(row, srow[current[c]].state, srow[current[c]].console,
              console[c].epoch + 1, srow[current[c]].boot)
    BY <1>1, <2>1, RowEpochSet DEF RegistryIInv, RegistryTypeOK
  <2>4. row # NoRow
    BY <1>1, <2>3, Nothing DEF RowIs
  <2> QED
    BY <2>2, <2>3, <2>4
<1>5. PICK con \in ConsoleRows :
        /\ console' = [console EXCEPT ![c] = con]
        /\ con.alive = console[c].alive /\ con.epoch = console[c].epoch + 1
  <2>1. PICK con \in ConsoleRows : con = [console[c] EXCEPT !.epoch = console[c].epoch + 1]
    BY <1>1, ConsoleEpochSet DEF RegistryIInv, RegistryTypeOK
  <2>2. console' = [console EXCEPT ![c] = con]
    BY <2>1 DEF RegistryIInv, RegistryTypeOK, AttachReuse, InsertSession, NextEpoch
  <2>3. con.alive = console[c].alive /\ con.epoch = console[c].epoch + 1
    BY <1>1, <2>1, ConsoleEpochSet DEF RegistryIInv, RegistryTypeOK
  <2> QED
    BY <2>2, <2>3
<1>6. PICK v \in Views :
        /\ view' = [view EXCEPT ![w] = v]
        /\ v.console = c /\ v.session = current[c] /\ v.epoch = console[c].epoch + 1
  <2>1. PICK v \in Views : v = [console |-> c, session |-> current[c],
                                epoch |-> console[c].epoch + 1]
    BY <1>1 DEF Views
  <2>2. v.console = c /\ v.session = current[c] /\ v.epoch = console[c].epoch + 1
    BY <2>1
  <2>3. view' = [view EXCEPT ![w] = v]
    BY <2>1 DEF AttachReuse, NextEpoch
  <2> QED
    BY <2>2, <2>3
<1>7. /\ up /\ attaching.session = 0
      /\ UNCHANGED <<strow, current, attaching, boot, up, nextSid, starts>>
  BY DEF AttachReuse, NoAttach
<1>8. /\ \A x \in Consoles : console[x].epoch \in Nat
      /\ \A s \in Sids : srow[s].epoch \in Nat /\ rt[s].epoch \in Nat
      /\ \A x \in Windows : view[x].epoch \in Nat
  BY EpochsAreNumbers DEF RegistryIInv
<1>9. RegistryTypeOK'
  BY <1>1, <1>2, <1>3, <1>4, <1>5, <1>6, <1>7, <1>8 DEF RegistryIInv,
     RegistryTypeOK, RuntimeIs, RowIs, NoAttach
<1>10. Fresh'
  BY <1>1, <1>2, <1>3, <1>4, <1>5, <1>6, <1>7, <1>8 DEF RegistryIInv, Fresh,
     RegistryTypeOK, RuntimeIs, RowIs, Sids, NoAttach
<1>11. RowsKnown'
  BY <1>1, <1>2, <1>3, <1>4, <1>5, <1>6, <1>7, <1>8 DEF RegistryIInv, RowsKnown,
     RegistryTypeOK, RuntimeIs, RowIs, NoAttach
<1>12. RuntimesKnown'
  BY <1>1, <1>2, <1>3, <1>4, <1>5, <1>6, <1>7, <1>8 DEF RegistryIInv,
     RuntimesKnown, RegistryTypeOK, RuntimeIs, RowIs, NoAttach
<1>13. Linked'
  BY <1>1, <1>2, <1>3, <1>4, <1>5, <1>6, <1>7, <1>8 DEF RegistryIInv, Linked,
     RegistryTypeOK, RuntimeIs, RowIs, NoAttach
<1>14. NewestIsActive'
  BY <1>1, <1>2, <1>3, <1>4, <1>5, <1>6, <1>7, <1>8 DEF RegistryIInv,
     NewestIsActive, RegistryTypeOK, RuntimeIs, RowIs, Sids, NoAttach
<1>15. CurrentIs'
  BY <1>1, <1>2, <1>3, <1>4, <1>5, <1>6, <1>7, <1>8 DEF RegistryIInv, CurrentIs,
     RegistryTypeOK, Live, RuntimeIs, RowIs, Sids, NoAttach
<1>16. AttachIs'
  BY <1>1, <1>2, <1>3, <1>4, <1>5, <1>6, <1>7, <1>8 DEF RegistryIInv, AttachIs,
     RegistryTypeOK, NoAttach, RuntimeIs, RowIs, Sids
<1>17. ViewsDiffer'
  <2>1. view'[w] = v /\ \A x \in Windows : x # w => view'[x] = view[x]
    BY <1>6 DEF RegistryIInv, RegistryTypeOK
  <2>2. \A x \in Sids :
           /\ rt'[x] # NoRuntime => rt[x] # NoRuntime
           /\ rt'[x].console = rt[x].console
    BY <1>1, <1>2, <1>3 DEF RegistryIInv, RegistryTypeOK, RuntimeIs
  <2>3. /\ console'[c].epoch = console[c].epoch + 1
        /\ \A x \in Consoles : console'[x].epoch \in Nat /\ console[x].epoch <= console'[x].epoch
    <3>1. console'[c] = con /\ \A x \in Consoles : x # c => console'[x] = console[x]
      BY <1>5 DEF RegistryIInv, RegistryTypeOK
    <3> QED
      BY <1>1, <1>5, <1>8, <3>1
  <2>4. \A x \in Windows : view[x].session # 0 => view[x].session \in Sids
    BY Fields DEF RegistryIInv, RegistryTypeOK
  <2>5. \A x \in Windows : view[x].session = current[c] => view[x].epoch < console[c].epoch + 1
    <3>1. current[c] # 0
      BY <1>1 DEF Sids
    <3> QED
      BY <1>2, <1>8, <3>1 DEF RegistryIInv, ViewsDiffer
  <2>6. ASSUME NEW x \in Windows, view'[x].session # 0
        PROVE  /\ view'[x].console \in Consoles
               /\ view'[x].epoch <= console'[view'[x].console].epoch
               /\ rt'[view'[x].session] # NoRuntime =>
                     view'[x].console = rt'[view'[x].session].console
    <3>1. CASE x = w
      BY <1>1, <1>2, <1>6, <2>1, <2>2, <2>3, <3>1
    <3>2. CASE x # w
      <4>1. view'[x] = view[x] /\ view[x].session \in Sids
        BY <2>1, <2>4, <2>6, <3>2
      <4>2. /\ view[x].console \in Consoles
            /\ view[x].epoch <= console[view[x].console].epoch
            /\ rt[view[x].session] # NoRuntime => view[x].console = rt[view[x].session].console
        BY <2>6, <4>1 DEF RegistryIInv, ViewsDiffer
      <4> QED
        BY <1>8, <2>2, <2>3, <4>1, <4>2
    <3> QED
      BY <3>1, <3>2
  <2>7. ASSUME NEW x \in Windows, NEW y \in Windows, x # y, view'[x].session # 0,
               view'[x].session = view'[y].session
        PROVE  view'[x].epoch # view'[y].epoch
    <3>1. CASE x # w /\ y # w
      BY <2>1, <2>7, <3>1 DEF RegistryIInv, ViewsDiffer
    <3>2. CASE x = w
      BY <1>1, <1>6, <1>8, <2>1, <2>5, <2>7, <3>2
    <3>3. CASE y = w
      BY <1>1, <1>6, <1>8, <2>1, <2>5, <2>7, <3>3
    <3> QED
      BY <3>1, <3>2, <3>3
  <2> QED
    BY <2>6, <2>7 DEF ViewsDiffer
<1>18. Executing'
  BY <1>1, <1>2, <1>3, <1>4, <1>5, <1>6, <1>7, <1>8 DEF RegistryIInv, Executing,
     RegistryTypeOK, RuntimeIs, RowIs, NoAttach
<1>19. Booted'
  BY <1>1, <1>2, <1>3, <1>4, <1>5, <1>6, <1>7, <1>8 DEF RegistryIInv, Booted,
     RegistryTypeOK, RuntimeIs, RowIs, NoAttach
<1>20. Unstarted'
  <2>1. \A x \in Sids : rt'[x].queued \subseteq rt[x].queued
    BY <1>1, <1>2, <1>3, <1>4, <1>5, <1>6, <1>7, <1>8 DEF RegistryIInv,
       RegistryTypeOK, RuntimeIs
  <2>2. \A x \in Sids : srow'[x] # NoRow => srow[x] # NoRow
    BY <1>1, <1>2, <1>3, <1>4, <1>5, <1>6, <1>7, <1>8 DEF RegistryIInv, RegistryTypeOK
  <2>3. \A x \in Sids, y \in Requests :
           srow'[x] # NoRow /\ strow'[<<x, y>>] = "none" => strow[<<x, y>>] = "none"
    BY <1>1, <1>2, <1>3, <1>4, <1>5, <1>6, <1>7, <1>8 DEF RegistryIInv, RegistryTypeOK
  <2>4. Unstarted /\ starts' = starts
    BY <1>1, <1>2, <1>3, <1>4, <1>5, <1>6, <1>7, <1>8 DEF RegistryIInv
  <2> QED
    BY <2>1, <2>2, <2>3, <2>4, StillUnstarted
<1>21. EpochsGrow'
  BY <1>1, <1>2, <1>3, <1>4, <1>5, <1>6, <1>7, <1>8 DEF RegistryIInv, EpochsGrow,
     RegistryTypeOK, RowsKnown, NewestIsActive, RuntimeIs, RowIs, Sids, NoAttach
<1>22. LimitsHold'
  <2>1. LiveSessions' \subseteq LiveSessions
    BY <1>1, <1>2, <1>3, <1>4, <1>5, <1>6, <1>7, <1>8 DEF RegistryIInv,
       RegistryTypeOK, LiveSessions, Live, RuntimeIs
  <2>2. \A x \in LiveSessions' : rt'[x].ds = rt[x].ds
    BY <1>1, <1>2, <1>3, <1>4, <1>5, <1>6, <1>7, <1>8 DEF RegistryIInv,
       RegistryTypeOK, LiveSessions, Live, RuntimeIs
  <2> QED
    BY <2>1, <2>2, FewerLive DEF RegistryIInv
<1>23. StartsAtMostOnce'
  BY <1>1, <1>2, <1>3, <1>4, <1>5, <1>6, <1>7, <1>8 DEF RegistryIInv,
     StartsAtMostOnce, RuntimeIs, RowIs, Sids, NoAttach
<1> QED
  BY <1>9, <1>10, <1>11, <1>12, <1>13, <1>14, <1>15, <1>16, <1>17, <1>18, <1>19,
     <1>20, <1>21, <1>22, <1>23 DEF RegistryIInv

\* A window attaches to a console without one.
LEMMA AttachNewKeeps ==
  ASSUME RegistryIInv, NEW w \in Windows, NEW c \in Consoles, NEW made \in BOOLEAN, AttachNew(w, c, made)
  PROVE  RegistryIInv'
<1>1. /\ nextSid \in Sids /\ console[c].epoch + 1 \in Nat
      /\ console[c].ds \in Datasources /\ console[c].alive
      /\ srow[nextSid] = NoRow /\ rt[nextSid] = NoRuntime
  BY Fields DEF RegistryIInv, RegistryTypeOK, Fresh, AttachNew, Sids
<1>2. PICK m \in Runtimes :
        /\ rt' = [rt EXCEPT ![nextSid] = m]
        /\ made => /\ m # NoRuntime /\ m.lane = "none"
                   /\ RuntimeIs(m, "connecting", c, console[c].ds, console[c].epoch + 1,
                                {}, "none")
        /\ ~made => m = NoRuntime
  <2>1. CASE made
    <3>1. PICK m \in Runtimes :
            m = [NoRuntime EXCEPT !.state = "connecting", !.console = c, !.ds = console[c].ds,
                                  !.epoch = console[c].epoch + 1, !.accepting = TRUE]
      BY <1>1 DEF Runtimes, NoRuntime, SessionStates, ActiveStates
    <3>2. m.lane = "none" /\ RuntimeIs(m, "connecting", c, console[c].ds,
                                       console[c].epoch + 1, {}, "none")
      BY <3>1 DEF RuntimeIs, NoRuntime
    <3>3. rt' = [rt EXCEPT ![nextSid] = m]
      BY <2>1, <3>1 DEF AttachNew, NextEpoch
    <3>4. m # NoRuntime
      BY <3>2, Nothing DEF RuntimeIs
    <3> QED
      BY <2>1, <3>2, <3>3, <3>4
  <2>2. CASE ~made
    <3>1. rt' = [rt EXCEPT ![nextSid] = NoRuntime]
      BY <1>1, <2>2 DEF RegistryIInv, RegistryTypeOK, AttachNew
    <3> QED
      BY <2>2, <3>1, Nothing
  <2> QED
    BY <2>1, <2>2
<1>3. PICK row \in SessionRows :
        /\ srow' = [srow EXCEPT ![nextSid] = row] /\ row # NoRow
        /\ RowIs(row, "connecting", c, console[c].epoch + 1, boot)
  <2>1. PICK row \in SessionRows :
          row = [state |-> "connecting", console |-> c, ds |-> console[c].ds,
                 epoch |-> console[c].epoch + 1, boot |-> boot]
    BY <1>1 DEF RegistryIInv, RegistryTypeOK, SessionRows, SessionStates, ActiveStates
  <2>2. srow' = [srow EXCEPT ![nextSid] = row]
    BY <2>1 DEF AttachNew, InsertSession, NextEpoch
  <2>3. RowIs(row, "connecting", c, console[c].epoch + 1, boot)
    BY <2>1 DEF RowIs
  <2>4. row # NoRow
    BY <2>3, Nothing DEF RowIs
  <2> QED
    BY <2>2, <2>3, <2>4
<1>4. PICK con \in ConsoleRows :
        /\ console' = [console EXCEPT ![c] = con]
        /\ con.alive = console[c].alive /\ con.epoch = console[c].epoch + 1
  <2>1. console[c] \in ConsoleRows
    BY DEF RegistryIInv, RegistryTypeOK
  <2>2. PICK con \in ConsoleRows : con = [console[c] EXCEPT !.epoch = console[c].epoch + 1]
    BY <1>1, <2>1, ConsoleEpochSet
  <2>3. console' = [console EXCEPT ![c] = con]
    BY <2>2 DEF RegistryIInv, RegistryTypeOK, AttachNew, InsertSession, NextEpoch
  <2>4. con.alive = console[c].alive /\ con.epoch = console[c].epoch + 1
    BY <1>1, <2>1, <2>2, ConsoleEpochSet
  <2> QED
    BY <2>3, <2>4
<1>5. /\ up /\ attaching.session = 0 /\ nextSid' = nextSid + 1
      /\ current[c] # 0 => ~Live(current[c])
      /\ \A t \in Sids : srow[t].console = c => srow[t].state \notin ActiveStates
      /\ made => /\ current' = [current EXCEPT ![c] = nextSid]
                 /\ attaching' = [session |-> nextSid, window |-> w]
      /\ ~made => UNCHANGED <<current, attaching>>
      /\ UNCHANGED <<strow, boot, up, view, starts>>
  BY DEF AttachNew, InsertSession, IndexAdmits, NoAttach
<1>6. /\ \A x \in Consoles : console[x].epoch \in Nat
      /\ \A s \in Sids : srow[s].epoch \in Nat /\ rt[s].epoch \in Nat
      /\ \A x \in Windows : view[x].epoch \in Nat
  BY EpochsAreNumbers DEF RegistryIInv
<1>7. /\ \A x \in Sids : x # nextSid => srow'[x] = srow[x] /\ rt'[x] = rt[x]
      /\ srow'[nextSid] = row /\ rt'[nextSid] = m
      /\ \A x \in Consoles : x # c => console'[x] = console[x]
      /\ console'[c] = con
  BY <1>1, <1>2, <1>3, <1>4 DEF RegistryIInv, RegistryTypeOK
<1>8. RegistryTypeOK'
  BY <1>1, <1>2, <1>3, <1>4, <1>5, <1>6, <1>7 DEF RegistryIInv, RegistryTypeOK,
     RuntimeIs, RowIs, NoAttach
<1>9. Fresh'
  <2>1. nextSid \in Nat /\ nextSid' = nextSid + 1 /\ UNCHANGED <<strow, starts, view>>
    BY <1>5 DEF RegistryIInv, RegistryTypeOK
  <2>2. \A x \in Windows : view[x].session \in Nat
    BY Fields DEF RegistryIInv, RegistryTypeOK, Sids
  <2>3. \A x \in Sids : x \in Nat
    BY DEF Sids
  <2> QED
    BY <1>7, <2>1, <2>2, <2>3 DEF RegistryIInv, Fresh
<1>10. RowsKnown'
  <2>1. boot \in Nat /\ boot' = boot /\ strow' = strow
    BY <1>5 DEF RegistryIInv, RegistryTypeOK
  <2>2. \A x \in Consoles :
           /\ console[x].alive => console'[x].alive
           /\ console[x].epoch <= console'[x].epoch
           /\ console'[x].epoch \in Nat
    <3>1. console'[c].alive
      BY <1>1, <1>4, <1>7, Zenon
    <3>2. console[c].epoch <= console'[c].epoch /\ console'[c].epoch \in Nat
      BY <1>1, <1>4, <1>6, <1>7
    <3> QED
      BY <1>6, <1>7, <3>1, <3>2
  <2>3. SUFFICES ASSUME NEW x \in Sids
                 PROVE  /\ srow'[x].state = "none" => srow'[x] = NoRow
                        /\ srow'[x] # NoRow =>
                              /\ srow'[x].console \in Consoles
                              /\ console'[srow'[x].console].alive
                              /\ srow'[x].epoch <= console'[srow'[x].console].epoch
                              /\ srow'[x].boot <= boot'
                        /\ srow'[x] = NoRow => \A y \in Requests : strow'[<<x, y>>] = "none"
    BY DEF RowsKnown
  <2>4. CASE x = nextSid
    BY <1>1, <1>3, <1>4, <1>7, <2>1, <2>2, <2>4 DEF RowIs
  <2>5. CASE x # nextSid
    <3>1. srow'[x] = srow[x] /\ srow[x].epoch \in Nat
      BY <1>6, <1>7, <2>5
    <3>2. srow[x] # NoRow =>
              /\ srow[x].console \in Consoles /\ console[srow[x].console].alive
              /\ srow[x].epoch <= console[srow[x].console].epoch
              /\ srow[x].boot <= boot
      BY DEF RegistryIInv, RowsKnown
    <3>3. /\ srow[x].state = "none" => srow[x] = NoRow
          /\ srow[x] = NoRow => \A y \in Requests : strow[<<x, y>>] = "none"
      BY DEF RegistryIInv, RowsKnown
    <3> QED
      BY <1>6, <2>1, <2>2, <3>1, <3>2, <3>3
  <2> QED
    BY <2>4, <2>5
<1>11. RuntimesKnown'
  <2>1. \A x \in Consoles : console[x].epoch <= console'[x].epoch /\ console'[x].epoch \in Nat
    <3>1. console[c].epoch <= console'[c].epoch /\ console'[c].epoch \in Nat
      BY <1>1, <1>4, <1>6, <1>7
    <3> QED
      BY <1>6, <1>7, <3>1
  <2>2. SUFFICES ASSUME NEW x \in Sids
                 PROVE  /\ rt'[x].state = "none" => rt'[x] = NoRuntime
                        /\ rt'[x] # NoRuntime =>
                              /\ up' /\ rt'[x].console \in Consoles
                              /\ rt'[x].epoch <= console'[rt'[x].console].epoch
    BY DEF RuntimesKnown
  <2>3. CASE x = nextSid
    BY <1>1, <1>2, <1>4, <1>5, <1>7, <2>1, <2>3 DEF RuntimeIs
  <2>4. CASE x # nextSid
    <3>1. rt'[x] = rt[x] /\ rt[x].epoch \in Nat
      BY <1>6, <1>7, <2>4
    <3>2. /\ rt[x].state = "none" => rt[x] = NoRuntime
          /\ rt[x] # NoRuntime => /\ rt[x].console \in Consoles
                                  /\ rt[x].epoch <= console[rt[x].console].epoch
      BY DEF RegistryIInv, RuntimesKnown
    <3> QED
      BY <1>5, <1>6, <2>1, <3>1, <3>2
  <2> QED
    BY <2>3, <2>4
<1>12. Linked'
  BY <1>1, <1>2, <1>3, <1>4, <1>5, <1>6, <1>7 DEF RegistryIInv, Linked,
     RegistryTypeOK, RuntimeIs, RowIs, NoAttach
<1>13. NewestIsActive'
  <2>1. SUFFICES ASSUME NEW x \in Sids, NEW y \in Sids, x < y, srow'[x] # NoRow, srow'[y] # NoRow,
                        srow'[x].console = srow'[y].console
                 PROVE  srow'[x].state \in EndedStates
    BY DEF NewestIsActive
  <2>2. nextSid \in Nat /\ x \in Nat /\ y \in Nat
    BY DEF RegistryIInv, RegistryTypeOK, Sids
  <2>3. x # nextSid /\ srow'[x] = srow[x] /\ srow[x] # NoRow
    <3>1. ASSUME x = nextSid PROVE FALSE
      <4>1. y >= nextSid /\ y # nextSid
        BY <2>1, <2>2, <3>1
      <4>2. srow[y] = NoRow
        BY <4>1 DEF RegistryIInv, Fresh
      <4> QED
        BY <1>7, <2>1, <4>1, <4>2
    <3> QED
      BY <1>7, <2>1, <3>1
  <2>4. CASE y = nextSid
    <3>1. srow[x].state \notin ActiveStates
      BY <1>3, <1>5, <1>7, <2>1, <2>3, <2>4 DEF RowIs
    <3>2. srow[x].state # "none"
      BY <2>3 DEF RegistryIInv, RowsKnown
    <3>3. srow[x].state \in SessionStates
      BY Fields DEF RegistryIInv, RegistryTypeOK
    <3> QED
      BY <2>3, <3>1, <3>2, <3>3 DEF SessionStates
  <2>5. CASE y # nextSid
    BY <1>7, <2>1, <2>3, <2>5 DEF RegistryIInv, NewestIsActive
  <2> QED
    BY <2>4, <2>5
<1>14. CurrentIs'
  <2>1. ASSUME NEW x \in Sids, rt'[x].state \in ActiveStates
        PROVE  current'[rt'[x].console] = x
    <3>1. CASE x = nextSid
      <4>1. made
        BY <1>2, <1>7, <2>1, <3>1, Nothing DEF RuntimeIs, ActiveStates
      <4> QED
        BY <1>2, <1>5, <1>7, <3>1, <4>1 DEF RegistryIInv, RegistryTypeOK, RuntimeIs
    <3>2. CASE x # nextSid
      <4>1. rt'[x] = rt[x] /\ Live(x)
        BY <1>7, <2>1, <3>2 DEF Live
      <4>2. current[rt[x].console] = x
        BY <4>1 DEF RegistryIInv, CurrentIs
      <4>3. rt[x].console # c
        BY <1>5, <4>1, <4>2 DEF Sids
      <4>4. rt[x] # NoRuntime
        BY <4>1, Nothing DEF Live, RuntimeIs, ActiveStates
      <4>5. rt[x].console \in Consoles
        BY <4>4 DEF RegistryIInv, RuntimesKnown
      <4>6. current'[rt[x].console] = current[rt[x].console]
        BY <1>5, <4>3, <4>5 DEF RegistryIInv, RegistryTypeOK
      <4> QED
        BY <4>1, <4>2, <4>6
    <3> QED
      BY <3>1, <3>2
  <2>2. ASSUME NEW y \in Consoles, current'[y] # 0
        PROVE  rt'[current'[y]] # NoRuntime /\ rt'[current'[y]].console = y
    <3>1. CASE made /\ y = c
      BY <1>2, <1>5, <1>7, <3>1 DEF RegistryIInv, RegistryTypeOK, RuntimeIs
    <3>2. CASE ~(made /\ y = c)
      <4>1. current'[y] = current[y] /\ current[y] \in Sids
        BY <1>5, <2>2, <3>2 DEF RegistryIInv, RegistryTypeOK
      <4>2. rt[current[y]] # NoRuntime /\ rt[current[y]].console = y
        BY <2>2, <4>1 DEF RegistryIInv, CurrentIs
      <4>3. rt'[current[y]] = rt[current[y]]
        BY <1>1, <1>7, <4>1, <4>2
      <4> QED
        BY <4>1, <4>2, <4>3
    <3> QED
      BY <3>1, <3>2
  <2> QED
    BY <2>1, <2>2 DEF CurrentIs, Live
<1>15. AttachIs'
  BY <1>1, <1>2, <1>3, <1>4, <1>5, <1>6, <1>7 DEF RegistryIInv, AttachIs,
     RegistryTypeOK, Fresh, NoAttach, RuntimeIs, RowIs, Sids
<1>16. ViewsDiffer'
  BY <1>1, <1>2, <1>3, <1>4, <1>5, <1>6, <1>7 DEF RegistryIInv, ViewsDiffer,
     RegistryTypeOK, Fresh, RuntimeIs, RowIs, Sids, NoAttach
<1>17. Executing'
  BY <1>1, <1>2, <1>3, <1>4, <1>5, <1>6, <1>7 DEF RegistryIInv, Executing,
     RegistryTypeOK, Fresh, RuntimeIs, RowIs, NoAttach
<1>18. Booted'
  BY <1>1, <1>2, <1>3, <1>4, <1>5, <1>6, <1>7 DEF RegistryIInv, Booted,
     RegistryTypeOK, RuntimeIs, RowIs, NoAttach
<1>19. Unstarted'
  <2>1. strow' = strow /\ starts' = starts
    BY <1>5
  <2>2. \A y \in Requests : starts[<<nextSid, y>>] = 0
    BY <1>1 DEF RegistryIInv, RegistryTypeOK, Fresh
  <2> QED
    BY <1>7, <2>1, <2>2 DEF RegistryIInv, Unstarted
<1>20. EpochsGrow'
  <2>1. SUFFICES ASSUME NEW x \in Sids, NEW y \in Sids, x < y, srow'[x] # NoRow, srow'[y] # NoRow,
                        srow'[x].console = srow'[y].console
                 PROVE  srow'[x].epoch < srow'[y].epoch
    BY DEF EpochsGrow
  <2>2. nextSid \in Nat /\ x \in Nat /\ y \in Nat
    BY DEF RegistryIInv, RegistryTypeOK, Sids
  <2>3. x # nextSid /\ srow'[x] = srow[x] /\ srow[x] # NoRow
    <3>1. ASSUME x = nextSid PROVE FALSE
      <4>1. y >= nextSid /\ y # nextSid
        BY <2>1, <2>2, <3>1
      <4>2. srow[y] = NoRow
        BY <4>1 DEF RegistryIInv, Fresh
      <4> QED
        BY <1>7, <2>1, <4>1, <4>2
    <3> QED
      BY <1>7, <2>1, <3>1
  <2>4. CASE y = nextSid
    <3>1. srow[x].console = c /\ srow'[y].epoch = console[c].epoch + 1
      BY <1>3, <1>7, <2>1, <2>3, <2>4 DEF RowIs
    <3>2. srow[x].epoch <= console[c].epoch
      BY <2>3, <3>1 DEF RegistryIInv, RowsKnown
    <3> QED
      BY <1>6, <2>3, <3>1, <3>2
  <2>5. CASE y # nextSid
    BY <1>7, <2>1, <2>3, <2>5 DEF RegistryIInv, EpochsGrow
  <2> QED
    BY <2>4, <2>5
<1>21. LimitsHold'
  <2>1. CASE made
    <3>1. LiveSessions' = LiveSessions \union {nextSid} /\ nextSid \notin LiveSessions
      <4>1. ~Live(nextSid)
        BY <1>1, Nothing DEF Live, RuntimeIs, ActiveStates
      <4>2. rt'[nextSid].state \in ActiveStates
        BY <1>1, <1>2, <2>1 DEF RegistryIInv, RegistryTypeOK, Live, RuntimeIs,
           ActiveStates
      <4>3. \A x \in Sids : x # nextSid => rt'[x] = rt[x]
        BY <1>1, <1>2 DEF RegistryIInv, RegistryTypeOK, Live
      <4> QED
        BY <1>1, <4>1, <4>2, <4>3 DEF LiveSessions, Live
    <3>2. rt'[nextSid].ds = console[c].ds /\ \A x \in LiveSessions : rt'[x].ds = rt[x].ds
      BY <1>1, <1>2, <2>1, <3>1 DEF RegistryIInv, RegistryTypeOK, LiveSessions, RuntimeIs
    <3>3. WithinLimits(console[c].ds) /\ LimitsHold
      BY DEF AttachNew, RegistryIInv
    <3> QED
      BY <1>1, <3>1, <3>2, <3>3, OneMoreLive
  <2>2. CASE ~made
    <3>1. rt' = rt
      BY <2>2 DEF AttachNew
    <3> QED
      BY <3>1 DEF RegistryIInv, LimitsHold, LiveSessions, Live
  <2> QED
    BY <2>1, <2>2
<1>22. StartsAtMostOnce'
  BY <1>1, <1>2, <1>3, <1>4, <1>5, <1>6, <1>7 DEF RegistryIInv, StartsAtMostOnce,
     RuntimeIs, RowIs, Sids, NoAttach
<1> QED
  BY <1>8, <1>9, <1>10, <1>11, <1>12, <1>13, <1>14, <1>15, <1>16, <1>17, <1>18,
     <1>19, <1>20, <1>21, <1>22 DEF RegistryIInv

\* The second half of an attach.
LEMMA AttachFinishKeeps ==
  ASSUME RegistryIInv, AttachFinish
  PROVE  RegistryIInv'
<1>1. /\ attaching.session \in Sids /\ rt[attaching.session] # NoRuntime
      /\ rt[attaching.session].lane = "none"
      /\ attaching.window \in Windows /\ attaching.session < nextSid /\ attaching.session # 0
      /\ rt[attaching.session].running = "none" /\ rt[attaching.session].state # "none"
      /\ \A x \in Windows : view[x].session # attaching.session
  <2>1. /\ attaching.session \in Sids /\ rt[attaching.session] # NoRuntime
        /\ rt[attaching.session].lane = "none"
        /\ attaching.window \in Windows /\ attaching.session # 0
        /\ rt[attaching.session].running = "none"
        /\ \A x \in Windows : view[x].session # attaching.session
    BY DEF RegistryIInv, RegistryTypeOK, AttachIs, AttachFinish
  <2>2. rt[attaching.session].state # "none"
    BY <2>1 DEF RegistryIInv, RuntimesKnown
  <2>3. attaching.session < nextSid
    BY <2>1 DEF RegistryIInv, RegistryTypeOK, Fresh, Sids
  <2> QED
    BY <2>1, <2>2, <2>3
<1>2. PICK m \in Runtimes :
        /\ rt' = [rt EXCEPT ![attaching.session] = m] /\ m # NoRuntime
        /\ RuntimeIs(m, rt[attaching.session].state, rt[attaching.session].console,
                     rt[attaching.session].ds, rt[attaching.session].epoch,
                     rt[attaching.session].queued, rt[attaching.session].running)
        /\ srow[attaching.session] = NoRow => m.lane = "none"
  <2>1. CASE srow[attaching.session] = NoRow
    <3>1. rt' = [rt EXCEPT ![attaching.session] = rt[attaching.session]]
      BY <1>1, <2>1 DEF RegistryIInv, RegistryTypeOK, AttachFinish
    <3> QED
      BY <1>1, <2>1, <3>1 DEF RegistryIInv, RegistryTypeOK, RuntimeIs
  <2>2. CASE srow[attaching.session] # NoRow
    <3>1. PICK m \in Runtimes : m = [rt[attaching.session] EXCEPT !.lane = "run"]
      BY <1>1, LaneSet DEF RegistryIInv, RegistryTypeOK
    <3>2. rt' = [rt EXCEPT ![attaching.session] = m]
      BY <1>1, <2>2, <3>1 DEF RegistryIInv, RegistryTypeOK, AttachFinish
    <3>3. RuntimeIs(m, rt[attaching.session].state, rt[attaching.session].console,
                    rt[attaching.session].ds, rt[attaching.session].epoch,
                     rt[attaching.session].queued, rt[attaching.session].running)
      BY <1>1, <3>1, LaneSet DEF RegistryIInv, RegistryTypeOK
    <3>4. m # NoRuntime
      BY <1>1, <3>3, Nothing DEF RuntimeIs
    <3> QED
      BY <2>2, <3>2, <3>3, <3>4
  <2> QED
    BY <2>1, <2>2
<1>3. PICK v \in Views :
        /\ view' = [view EXCEPT ![attaching.window] = v]
        /\ \/ v = view[attaching.window]
           \/ /\ srow[attaching.session] # NoRow /\ v.console = srow[attaching.session].console
              /\ v.session = attaching.session /\ v.epoch = rt[attaching.session].epoch
  <2>1. CASE srow[attaching.session] = NoRow
    <3>1. view' = [view EXCEPT ![attaching.window] = view[attaching.window]]
      BY <1>1, <2>1 DEF RegistryIInv, RegistryTypeOK, AttachFinish
    <3> QED
      BY <1>1, <3>1 DEF RegistryIInv, RegistryTypeOK
  <2>2. CASE srow[attaching.session] # NoRow
    <3>1. PICK v \in Views : v = [console |-> srow[attaching.session].console,
                                  session |-> attaching.session,
                                   epoch |-> rt[attaching.session].epoch]
      BY <1>1, Fields DEF RegistryIInv, RegistryTypeOK, Views
    <3>2. v.console = srow[attaching.session].console /\ v.session = attaching.session /\ v.epoch = rt[attaching.session].epoch
      BY <3>1
    <3>3. view' = [view EXCEPT ![attaching.window] = v]
      BY <2>2, <3>1 DEF AttachFinish
    <3> QED
      BY <2>2, <3>2, <3>3
  <2> QED
    BY <2>1, <2>2
<1>4. /\ up /\ attaching' = NoAttach
      /\ UNCHANGED <<console, srow, strow, current, boot, up, nextSid, starts>>
  BY DEF AttachFinish
<1>5. RegistryTypeOK'
  BY <1>1, <1>2, <1>3, <1>4 DEF RegistryIInv, RegistryTypeOK, RuntimeIs, RowIs,
     NoAttach
<1>6. Fresh'
  BY <1>1, <1>2, <1>3, <1>4 DEF RegistryIInv, Fresh, RegistryTypeOK, RuntimeIs,
     RowIs, Sids, NoAttach
<1>7. RuntimesKnown'
  BY <1>1, <1>2, <1>3, <1>4 DEF RegistryIInv, RuntimesKnown, RegistryTypeOK,
     RuntimeIs, RowIs, NoAttach
<1>8. Linked'
  BY <1>1, <1>2, <1>3, <1>4 DEF RegistryIInv, Linked, RegistryTypeOK, RuntimeIs,
     RowIs, NoAttach
<1>9. CurrentIs'
  BY <1>1, <1>2, <1>3, <1>4 DEF RegistryIInv, CurrentIs, RegistryTypeOK, Live,
     RuntimeIs, RowIs, Sids, NoAttach
<1>10. AttachIs'
  BY <1>1, <1>2, <1>3, <1>4 DEF RegistryIInv, AttachIs, RegistryTypeOK, NoAttach,
     RuntimeIs, RowIs, Sids
<1>11. ViewsDiffer'
  BY <1>1, <1>2, <1>3, <1>4 DEF RegistryIInv, ViewsDiffer, RegistryTypeOK,
     RuntimesKnown, RowsKnown, Linked, RuntimeIs, RowIs, Sids, NoAttach
<1>12. Executing'
  BY <1>1, <1>2, <1>3, <1>4 DEF RegistryIInv, Executing, RegistryTypeOK, RuntimeIs,
     RowIs, NoAttach
<1>13. Unstarted'
  <2>1. \A x \in Sids : rt'[x].queued \subseteq rt[x].queued
    BY <1>1, <1>2, <1>3, <1>4 DEF RegistryIInv, RegistryTypeOK, RuntimeIs
  <2>2. \A x \in Sids : srow'[x] # NoRow => srow[x] # NoRow
    BY <1>1, <1>2, <1>3, <1>4 DEF RegistryIInv, RegistryTypeOK
  <2>3. \A x \in Sids, y \in Requests :
           srow'[x] # NoRow /\ strow'[<<x, y>>] = "none" => strow[<<x, y>>] = "none"
    BY <1>1, <1>2, <1>3, <1>4 DEF RegistryIInv, RegistryTypeOK
  <2>4. Unstarted /\ starts' = starts
    BY <1>1, <1>2, <1>3, <1>4 DEF RegistryIInv
  <2> QED
    BY <2>1, <2>2, <2>3, <2>4, StillUnstarted
<1>14. LimitsHold'
  <2>1. LiveSessions' \subseteq LiveSessions
    BY <1>1, <1>2, <1>3, <1>4 DEF RegistryIInv, RegistryTypeOK, LiveSessions, Live,
       RuntimeIs
  <2>2. \A x \in LiveSessions' : rt'[x].ds = rt[x].ds
    BY <1>1, <1>2, <1>3, <1>4 DEF RegistryIInv, RegistryTypeOK, LiveSessions, Live,
       RuntimeIs
  <2> QED
    BY <2>1, <2>2, FewerLive DEF RegistryIInv
<1>15. RowsKnown' /\ NewestIsActive' /\ Booted' /\ StartsAtMostOnce' /\ EpochsGrow'
  BY <1>1, <1>2, <1>3, <1>4 DEF RegistryIInv, RowsKnown, NewestIsActive, Booted,
     StartsAtMostOnce, EpochsGrow, RuntimeIs, RowIs, Sids, NoAttach
<1> QED
  BY <1>5, <1>6, <1>7, <1>8, <1>9, <1>10, <1>11, <1>12, <1>13, <1>14, <1>15 DEF
     RegistryIInv

\* An attach that fails half way.
LEMMA AttachStuckKeeps ==
  ASSUME RegistryIInv, AttachStuck
  PROVE  RegistryIInv'
<1>1. /\ attaching' = NoAttach
      /\ UNCHANGED <<console, srow, strow, rt, current, boot, up, view, nextSid, starts>>
  BY DEF AttachStuck
<1>2. RegistryTypeOK'
  BY <1>1 DEF RegistryIInv, RegistryTypeOK, NoAttach
<1>3. AttachIs'
  BY <1>1 DEF RegistryIInv, AttachIs, RegistryTypeOK, NoAttach
<1>4. /\ Fresh' /\ RowsKnown' /\ RuntimesKnown' /\ Linked' /\ NewestIsActive'
      /\ CurrentIs' /\ ViewsDiffer' /\ Executing' /\ Booted' /\ Unstarted'
      /\ StartsAtMostOnce' /\ EpochsGrow' /\ LimitsHold'
  BY <1>1 DEF RegistryIInv, Fresh, RowsKnown, RuntimesKnown, Linked,
     NewestIsActive, CurrentIs, ViewsDiffer, Executing, Booted, Unstarted,
     StartsAtMostOnce, EpochsGrow, LimitsHold, Live, LiveSessions, NoAttach
<1> QED
  BY <1>2, <1>3, <1>4 DEF RegistryIInv

\* A statement is submitted.
LEMMA SubmitStatementKeeps ==
  ASSUME RegistryIInv, NEW w \in Windows, NEW r \in Requests, SubmitStatement(w, r)
  PROVE  RegistryIInv'
<1>1. /\ view[w].session \in Sids /\ rt[view[w].session].state # "none"
      /\ rt[view[w].session] # NoRuntime /\ view[w].session < nextSid
  <2>1. view[w].session \in Sids /\ rt[view[w].session] # NoRuntime
    BY Fields DEF RegistryIInv, RegistryTypeOK, SubmitStatement, HoldsEpoch
  <2>2. rt[view[w].session].state # "none"
    BY <2>1 DEF RegistryIInv, RuntimesKnown
  <2>3. view[w].session < nextSid
    BY <2>1 DEF RegistryIInv, RegistryTypeOK, Fresh, Sids
  <2> QED
    BY <2>1, <2>2, <2>3
<1>2. rt[view[w].session].queued \union {r} \subseteq Requests
  BY <1>1, Fields DEF RegistryIInv, RegistryTypeOK
<1>3. PICK m \in Runtimes :
        /\ rt' = [rt EXCEPT ![view[w].session] = m] /\ m # NoRuntime
        /\ RuntimeIs(m, rt[view[w].session].state, rt[view[w].session].console,
                     rt[view[w].session].ds, rt[view[w].session].epoch,
                     rt[view[w].session].queued \union {r}, rt[view[w].session].running)
        /\ m.lane = rt[view[w].session].lane
  <2>1. PICK m \in Runtimes : m = [rt[view[w].session] EXCEPT !.queued = rt[view[w].session].queued \union {r}]
    BY <1>1, <1>2, QueueSet DEF RegistryIInv, RegistryTypeOK
  <2>2. rt' = [rt EXCEPT ![view[w].session] = m]
    BY <1>1, <1>2, <2>1 DEF RegistryIInv, RegistryTypeOK, SubmitStatement, NextEpoch
  <2>3. RuntimeIs(m, rt[view[w].session].state, rt[view[w].session].console,
                  rt[view[w].session].ds, rt[view[w].session].epoch,
                   rt[view[w].session].queued \union {r}, rt[view[w].session].running)
        /\ m.lane = rt[view[w].session].lane
    BY <1>1, <1>2, <2>1, QueueSet DEF RegistryIInv, RegistryTypeOK
  <2>4. m # NoRuntime
    BY <1>1, <1>2, <2>3, Nothing DEF RuntimeIs
  <2> QED
    BY <2>2, <2>3, <2>4
<1>4. /\ up /\ srow[view[w].session] # NoRow /\ strow[<<view[w].session, r>>] = "none"
      /\ strow' = [strow EXCEPT ![<<view[w].session, r>>] = "accepted"]
      /\ UNCHANGED <<console, srow, current, attaching, boot, up, view, nextSid, starts>>
  BY DEF SubmitStatement, FirstSent
<1>5. RegistryTypeOK'
  BY <1>1, <1>2, <1>3, <1>4 DEF RegistryIInv, RegistryTypeOK, RuntimeIs
<1>6. Fresh'
  BY <1>1, <1>2, <1>3, <1>4 DEF RegistryIInv, Fresh, RegistryTypeOK, RuntimeIs,
     Sids
<1>7. RowsKnown'
  BY <1>1, <1>2, <1>3, <1>4 DEF RegistryIInv, RowsKnown, RegistryTypeOK, RuntimeIs
<1>8. RuntimesKnown'
  BY <1>1, <1>2, <1>3, <1>4 DEF RegistryIInv, RuntimesKnown, RegistryTypeOK,
     RuntimeIs
<1>9. Linked'
  BY <1>1, <1>2, <1>3, <1>4 DEF RegistryIInv, Linked, RegistryTypeOK, RuntimeIs
<1>10. CurrentIs'
  BY <1>1, <1>2, <1>3, <1>4 DEF RegistryIInv, CurrentIs, RegistryTypeOK, Live,
     RuntimeIs, Sids
<1>11. AttachIs'
  BY <1>1, <1>2, <1>3, <1>4 DEF RegistryIInv, AttachIs, RegistryTypeOK, NoAttach,
     RuntimeIs, Sids
<1>12. ViewsDiffer'
  BY <1>1, <1>2, <1>3, <1>4 DEF RegistryIInv, ViewsDiffer, RegistryTypeOK,
     RuntimeIs, Sids
<1>13. Executing'
  BY <1>1, <1>2, <1>3, <1>4 DEF RegistryIInv, Executing, RegistryTypeOK, RuntimeIs
<1>14. Unstarted'
  <2>1. /\ rt'[view[w].session].queued = rt[view[w].session].queued \union {r}
        /\ \A x \in Sids : x # view[w].session => rt'[x] = rt[x]
    BY <1>1, <1>3 DEF RegistryIInv, RegistryTypeOK, RuntimeIs
  <2>2. \A x \in Sids, y \in Requests : strow'[<<x, y>>] = "none" => strow[<<x, y>>] = "none"
    BY <1>1, <1>4 DEF RegistryIInv, RegistryTypeOK
  <2>3. starts[<<view[w].session, r>>] = 0
    BY <1>1, <1>4 DEF RegistryIInv, Unstarted
  <2> QED
    BY <1>1, <1>4, <2>1, <2>2, <2>3 DEF RegistryIInv, Unstarted
<1>15. LimitsHold'
  <2>1. LiveSessions' \subseteq LiveSessions
    BY <1>1, <1>2, <1>3, <1>4 DEF RegistryIInv, RegistryTypeOK, LiveSessions, Live,
       RuntimeIs
  <2>2. \A x \in LiveSessions' : rt'[x].ds = rt[x].ds
    BY <1>1, <1>2, <1>3, <1>4 DEF RegistryIInv, RegistryTypeOK, LiveSessions, Live,
       RuntimeIs
  <2> QED
    BY <2>1, <2>2, FewerLive DEF RegistryIInv
<1>16. NewestIsActive' /\ Booted' /\ StartsAtMostOnce' /\ EpochsGrow'
  BY <1>1, <1>2, <1>3, <1>4 DEF RegistryIInv, NewestIsActive, Booted,
     StartsAtMostOnce, EpochsGrow, RuntimeIs, Sids
<1> QED
  BY <1>5, <1>6, <1>7, <1>8, <1>9, <1>10, <1>11, <1>12, <1>13, <1>14, <1>15, <1>16
     DEF RegistryIInv

\* A session is told to close.
LEMMA CloseSessionKeeps ==
  ASSUME RegistryIInv, NEW w \in Windows, CloseSession(w)
  PROVE  RegistryIInv'
<1>1. /\ view[w].session \in Sids /\ rt[view[w].session].state # "none"
      /\ rt[view[w].session] # NoRuntime /\ view[w].session < nextSid
  <2>1. view[w].session \in Sids /\ rt[view[w].session] # NoRuntime
    BY Fields DEF RegistryIInv, RegistryTypeOK, CloseSession, HoldsEpoch
  <2>2. rt[view[w].session].state # "none"
    BY <2>1 DEF RegistryIInv, RuntimesKnown
  <2>3. view[w].session < nextSid
    BY <2>1 DEF RegistryIInv, RegistryTypeOK, Fresh, Sids
  <2> QED
    BY <2>1, <2>2, <2>3
<1>2. PICK m \in Runtimes :
        /\ rt' = [rt EXCEPT ![view[w].session] = m] /\ m # NoRuntime
        /\ RuntimeIs(m, rt[view[w].session].state, rt[view[w].session].console,
                     rt[view[w].session].ds, rt[view[w].session].epoch,
                     rt[view[w].session].queued, rt[view[w].session].running)
        /\ m.lane = rt[view[w].session].lane
  <2>1. PICK m \in Runtimes : m = [rt[view[w].session] EXCEPT !.accepting = FALSE]
    BY <1>1, ShutSet DEF RegistryIInv, RegistryTypeOK
  <2>2. rt' = [rt EXCEPT ![view[w].session] = m]
    BY <1>1, <2>1 DEF RegistryIInv, RegistryTypeOK, CloseSession, NextEpoch
  <2>3. RuntimeIs(m, rt[view[w].session].state, rt[view[w].session].console,
                  rt[view[w].session].ds, rt[view[w].session].epoch,
                   rt[view[w].session].queued, rt[view[w].session].running)
        /\ m.lane = rt[view[w].session].lane
    BY <1>1, <2>1, ShutSet DEF RegistryIInv, RegistryTypeOK
  <2>4. m # NoRuntime
    BY <1>1, <2>3, Nothing DEF RuntimeIs
  <2> QED
    BY <2>2, <2>3, <2>4
<1>3. /\ up
      /\ UNCHANGED <<console, srow, strow, current, attaching, boot, up, view, nextSid, starts>>
  BY DEF CloseSession
<1>4. RegistryTypeOK'
  BY <1>1, <1>2, <1>3 DEF RegistryIInv, RegistryTypeOK, RuntimeIs
<1>5. Fresh'
  BY <1>1, <1>2, <1>3 DEF RegistryIInv, Fresh, RegistryTypeOK, RuntimeIs, Sids
<1>6. RuntimesKnown'
  BY <1>1, <1>2, <1>3 DEF RegistryIInv, RuntimesKnown, RegistryTypeOK, RuntimeIs
<1>7. Linked'
  BY <1>1, <1>2, <1>3 DEF RegistryIInv, Linked, RegistryTypeOK, RuntimeIs
<1>8. CurrentIs'
  BY <1>1, <1>2, <1>3 DEF RegistryIInv, CurrentIs, RegistryTypeOK, Live, RuntimeIs,
     Sids
<1>9. AttachIs'
  BY <1>1, <1>2, <1>3 DEF RegistryIInv, AttachIs, RegistryTypeOK, NoAttach,
     RuntimeIs, Sids
<1>10. ViewsDiffer'
  BY <1>1, <1>2, <1>3 DEF RegistryIInv, ViewsDiffer, RegistryTypeOK, RuntimeIs,
     Sids
<1>11. Executing'
  BY <1>1, <1>2, <1>3 DEF RegistryIInv, Executing, RegistryTypeOK, RuntimeIs
<1>12. Unstarted'
  <2>1. \A x \in Sids : rt'[x].queued \subseteq rt[x].queued
    BY <1>1, <1>2, <1>3 DEF RegistryIInv, RegistryTypeOK, RuntimeIs
  <2>2. \A x \in Sids : srow'[x] # NoRow => srow[x] # NoRow
    BY <1>1, <1>2, <1>3 DEF RegistryIInv, RegistryTypeOK
  <2>3. \A x \in Sids, y \in Requests :
           srow'[x] # NoRow /\ strow'[<<x, y>>] = "none" => strow[<<x, y>>] = "none"
    BY <1>1, <1>2, <1>3 DEF RegistryIInv, RegistryTypeOK
  <2>4. Unstarted /\ starts' = starts
    BY <1>1, <1>2, <1>3 DEF RegistryIInv
  <2> QED
    BY <2>1, <2>2, <2>3, <2>4, StillUnstarted
<1>13. LimitsHold'
  <2>1. LiveSessions' \subseteq LiveSessions
    BY <1>1, <1>2, <1>3 DEF RegistryIInv, RegistryTypeOK, LiveSessions, Live, RuntimeIs
  <2>2. \A x \in LiveSessions' : rt'[x].ds = rt[x].ds
    BY <1>1, <1>2, <1>3 DEF RegistryIInv, RegistryTypeOK, LiveSessions, Live, RuntimeIs
  <2> QED
    BY <2>1, <2>2, FewerLive DEF RegistryIInv
<1>14. RowsKnown' /\ NewestIsActive' /\ Booted' /\ StartsAtMostOnce' /\ EpochsGrow'
  BY <1>1, <1>2, <1>3 DEF RegistryIInv, RowsKnown, NewestIsActive, Booted,
     StartsAtMostOnce, EpochsGrow, RuntimeIs, Sids
<1> QED
  BY <1>4, <1>5, <1>6, <1>7, <1>8, <1>9, <1>10, <1>11, <1>12, <1>13, <1>14 DEF
     RegistryIInv

\* A lane connects or fails to.
LEMMA LaneOpensKeeps ==
  ASSUME RegistryIInv, NEW s \in Sids, LaneOpens(s)
  PROVE  RegistryIInv'
<1>1. PICK st \in SessionStates \ {"none"} :
        /\ LaneMoves(s, st) /\ LaneRuns(s, "connecting")
        /\ st \in {"idle", "connect_failed"} /\ rt[s].state \notin EndedStates
        /\ rt[s].state \in ActiveStates
  BY DEF LaneOpens, LaneRuns, SessionStates, ActiveStates, EndedStates
<1>2. /\ rt[s] # NoRuntime /\ rt[s].lane = "run" /\ rt[s].state # "none" /\ s < nextSid
      /\ attaching.session # s /\ (srow[s] # NoRow => srow[s].state = rt[s].state)
  <2>1. rt[s].lane = "run"
    BY <1>1 DEF LaneRuns
  <2>2. rt[s] # NoRuntime
    BY <2>1, Nothing
  <2>3. rt[s].state # "none"
    BY <2>2 DEF RegistryIInv, RuntimesKnown
  <2>4. s < nextSid
    BY <2>2 DEF RegistryIInv, RegistryTypeOK, Fresh, Sids
  <2>5. attaching.session # s
    BY <2>1 DEF RegistryIInv, RegistryTypeOK, AttachIs, Sids
  <2>6. srow[s] # NoRow => srow[s].state = rt[s].state
    BY <2>2 DEF RegistryIInv, Linked
  <2> QED
    BY <2>1, <2>2, <2>3, <2>4, <2>5, <2>6
<1>3. PICK m \in Runtimes :
        /\ rt' = [rt EXCEPT ![s] = m] /\ m # NoRuntime
        /\ RuntimeIs(m, st, rt[s].console, rt[s].ds, rt[s].epoch,
                     rt[s].queued, rt[s].running)
        /\ \/ m.lane = "ended"
           \/ m.lane = "run" /\ srow[s] # NoRow /\ st \notin EndedStates
  <2>1. PICK m \in Runtimes :
          /\ rt' = [rt EXCEPT ![s] = m]
          /\ RuntimeIs(m, st, rt[s].console, rt[s].ds, rt[s].epoch,
                     rt[s].queued, rt[s].running)
          /\ \/ m.lane = "ended"
             \/ m.lane = rt[s].lane /\ srow[s] # NoRow /\ st \notin EndedStates
    BY <1>1, MovesTo DEF RegistryIInv, RegistryTypeOK
  <2>2. m # NoRuntime
    BY <2>1, <1>1, Nothing DEF RuntimeIs
  <2> QED
    BY <1>2, <2>1, <2>2
<1>4. PICK row \in SessionRows :
        /\ srow' = [srow EXCEPT ![s] = row]
        /\ srow[s] = NoRow => row = NoRow
        /\ srow[s] # NoRow => row.state = st /\ row # NoRow
        /\ row.console = srow[s].console /\ row.epoch = srow[s].epoch
        /\ row.boot = srow[s].boot
  BY <1>1, RowFollows DEF RegistryIInv, RegistryTypeOK
<1>5. /\ up /\ rt[s].state = "connecting"
      /\ UNCHANGED <<console, strow, current, attaching, boot, up, view, nextSid, starts>>
  BY <1>1 DEF LaneOpens, LaneRuns
<1>6. /\ rt'[s] = m /\ \A x \in Sids : x # s => rt'[x] = rt[x]
      /\ srow'[s] = row /\ \A x \in Sids : x # s => srow'[x] = srow[x]
  BY <1>3, <1>4 DEF RegistryIInv, RegistryTypeOK
<1>7. RegistryTypeOK'
  BY <1>1, <1>2, <1>3, <1>4, <1>5, <1>6 DEF RegistryIInv, RegistryTypeOK, RuntimeIs
<1>8. Fresh'
  BY <1>1, <1>2, <1>3, <1>4, <1>5, <1>6 DEF RegistryIInv, Fresh, RegistryTypeOK,
     RuntimeIs, Sids
<1>9. RowsKnown'
  BY <1>1, <1>2, <1>3, <1>4, <1>5, <1>6 DEF RegistryIInv, RowsKnown,
     RegistryTypeOK, RuntimeIs
<1>10. RuntimesKnown'
  BY <1>1, <1>2, <1>3, <1>4, <1>5, <1>6 DEF RegistryIInv, RuntimesKnown,
     RegistryTypeOK, RuntimeIs
<1>11. Linked'
  BY <1>1, <1>2, <1>3, <1>4, <1>5, <1>6 DEF RegistryIInv, Linked, RegistryTypeOK,
     RuntimeIs
<1>12. NewestIsActive'
  BY <1>1, <1>2, <1>3, <1>4, <1>5, <1>6 DEF RegistryIInv, NewestIsActive,
     RegistryTypeOK, RowsKnown, RuntimeIs, Sids
<1>13. CurrentIs'
  BY <1>1, <1>2, <1>3, <1>4, <1>5, <1>6 DEF RegistryIInv, CurrentIs,
     RegistryTypeOK, Live, RuntimeIs, Sids
<1>14. AttachIs'
  BY <1>1, <1>2, <1>3, <1>4, <1>5, <1>6 DEF RegistryIInv, AttachIs, RegistryTypeOK,
     NoAttach, RuntimeIs, Sids
<1>15. ViewsDiffer'
  BY <1>1, <1>2, <1>3, <1>4, <1>5, <1>6 DEF RegistryIInv, ViewsDiffer,
     RegistryTypeOK, RuntimeIs, Sids
<1>16. Executing'
  <2>1. \A x \in Sids, y \in Requests : strow[<<x, y>>] = "executing" =>
           srow[x].state \in ActiveStates /\ rt[x].lane = "run" /\ rt[x].running = y
    BY <1>5 DEF RegistryIInv, Executing
  <2>2. \A x \in Sids : rt[x].lane = "run" /\ rt[x].running # "none" => rt[x].state = "idle"
    BY DEF RegistryIInv, Executing
  <2>3. NoRow.state \notin ActiveStates /\ "none" \notin Requests
    BY Nothing, RegistryLimits DEF RowIs, ActiveStates
  <2>4. ASSUME NEW x \in Sids, NEW y \in Requests, strow'[<<x, y>>] = "executing"
        PROVE  x # s /\ strow[<<x, y>>] = "executing"
    <3>1. strow[<<x, y>>] = "executing"
      BY <1>5, <2>4
    <3>2. x = s => rt[s].running = y /\ rt[s].state = "idle" /\ y # "none"
      BY <2>1, <2>2, <2>3, <3>1
    <3> QED
      BY <1>1, <3>1, <3>2 DEF LaneRuns
  <2>5. m.lane = "run" /\ m.running # "none" => m.state = "idle"
    BY <1>1, <1>3 DEF RuntimeIs, LaneRuns, EndedStates
  <2> QED
    BY <1>5, <1>6, <2>1, <2>2, <2>4, <2>5 DEF Executing
<1>17. Booted'
  BY <1>1, <1>2, <1>3, <1>4, <1>5, <1>6 DEF RegistryIInv, Booted, RegistryTypeOK,
     RuntimeIs
<1>18. Unstarted'
  <2>1. \A x \in Sids : rt'[x].queued \subseteq rt[x].queued
    BY <1>1, <1>2, <1>3, <1>4, <1>5, <1>6 DEF RegistryIInv, RegistryTypeOK, RuntimeIs
  <2>2. \A x \in Sids : srow'[x] # NoRow => srow[x] # NoRow
    BY <1>1, <1>2, <1>3, <1>4, <1>5, <1>6 DEF RegistryIInv, RegistryTypeOK
  <2>3. \A x \in Sids, y \in Requests :
           srow'[x] # NoRow /\ strow'[<<x, y>>] = "none" => strow[<<x, y>>] = "none"
    BY <1>1, <1>2, <1>3, <1>4, <1>5, <1>6 DEF RegistryIInv, RegistryTypeOK
  <2>4. Unstarted /\ starts' = starts
    BY <1>1, <1>2, <1>3, <1>4, <1>5, <1>6 DEF RegistryIInv
  <2> QED
    BY <2>1, <2>2, <2>3, <2>4, StillUnstarted
<1>19. EpochsGrow'
  BY <1>1, <1>2, <1>3, <1>4, <1>5, <1>6 DEF RegistryIInv, EpochsGrow,
     RegistryTypeOK, RuntimeIs, Sids
<1>20. LimitsHold'
  <2>1. LiveSessions' \subseteq LiveSessions
    BY <1>1, <1>2, <1>3, <1>4, <1>5, <1>6 DEF RegistryIInv, RegistryTypeOK,
       LiveSessions, Live, RuntimeIs
  <2>2. \A x \in LiveSessions' : rt'[x].ds = rt[x].ds
    BY <1>1, <1>2, <1>3, <1>4, <1>5, <1>6 DEF RegistryIInv, RegistryTypeOK,
       LiveSessions, Live, RuntimeIs
  <2> QED
    BY <2>1, <2>2, FewerLive DEF RegistryIInv
<1>21. StartsAtMostOnce'
  BY <1>1, <1>2, <1>3, <1>4, <1>5, <1>6 DEF RegistryIInv, StartsAtMostOnce,
     RuntimeIs, Sids
<1> QED
  BY <1>7, <1>8, <1>9, <1>10, <1>11, <1>12, <1>13, <1>14, <1>15, <1>16, <1>17,
     <1>18, <1>19, <1>20, <1>21 DEF RegistryIInv

\* A lane starts a statement.
LEMMA LaneStartsKeeps ==
  ASSUME RegistryIInv, NEW s \in Sids, NEW r \in Requests, LaneStarts(s, r)
  PROVE  RegistryIInv'
<1>1. /\ rt[s] # NoRuntime /\ rt[s].lane = "run" /\ rt[s].state # "none" /\ s < nextSid
      /\ attaching.session # s /\ (srow[s] # NoRow => srow[s].state = rt[s].state)
  <2>1. rt[s].lane = "run"
    BY DEF LaneStarts, LaneRuns
  <2>2. rt[s] # NoRuntime
    BY <2>1, Nothing
  <2>3. rt[s].state # "none"
    BY <2>2 DEF RegistryIInv, RuntimesKnown
  <2>4. s < nextSid
    BY <2>2 DEF RegistryIInv, RegistryTypeOK, Fresh, Sids
  <2>5. attaching.session # s
    BY <2>1 DEF RegistryIInv, RegistryTypeOK, AttachIs, Sids
  <2>6. srow[s] # NoRow => srow[s].state = rt[s].state
    BY <2>2 DEF RegistryIInv, Linked
  <2> QED
    BY <2>1, <2>2, <2>3, <2>4, <2>5, <2>6
<1>2. PICK m \in Runtimes :
        /\ rt' = [rt EXCEPT ![s] = m] /\ m # NoRuntime
        /\ RuntimeIs(m, rt[s].state, rt[s].console, rt[s].ds, rt[s].epoch,
                     rt[s].queued \ {r}, r)
        /\ srow[s] = NoRow => m.lane = "ended"
        /\ srow[s] # NoRow => m.lane = "run"
  <2>1. PICK l \in {"none", "run", "ended"} : l = IF srow[s] = NoRow THEN "ended" ELSE "run"
    OBVIOUS
  <2>2. rt[s] \in Runtimes
    BY DEF RegistryIInv, RegistryTypeOK
  <2>3. PICK m \in Runtimes : m = [rt[s] EXCEPT !.queued = rt[s].queued \ {r}, !.running = r,
                                               !.lane = l]
    BY <2>2, RunningSet
  <2>4. rt' = [rt EXCEPT ![s] = m]
    BY <1>1, <2>1, <2>3 DEF RegistryIInv, RegistryTypeOK, LaneStarts
  <2>5. RuntimeIs(m, rt[s].state, rt[s].console, rt[s].ds, rt[s].epoch,
                     rt[s].queued \ {r}, r)
    BY <2>2, <2>3, RunningSet, ZenonT(60)
  <2>6. m.lane = l
    BY <2>2, <2>3 DEF Runtimes
  <2>7. m # NoRuntime
    BY <1>1, <2>5, Nothing DEF RuntimeIs
  <2> QED
    BY <2>1, <2>4, <2>5, <2>6, <2>7
<1>3. /\ up /\ rt[s].state = "idle" /\ rt[s].running = "none" /\ r \in rt[s].queued
      /\ r # "none"
      /\ srow[s] = NoRow => UNCHANGED <<strow, starts>>
      /\ srow[s] # NoRow => /\ strow' = [strow EXCEPT ![<<s, r>>] = "executing"]
                            /\ starts' = [starts EXCEPT ![<<s, r>>] = @ + 1]
      /\ UNCHANGED <<console, srow, current, attaching, boot, up, view, nextSid>>
  BY RegistryLimits DEF LaneStarts, LaneRuns
<1>4. rt'[s] = m /\ \A x \in Sids : x # s => rt'[x] = rt[x]
  BY <1>2 DEF RegistryIInv, RegistryTypeOK
<1>5. /\ \A x \in Sids, y \in Requests : <<x, y>> # <<s, r>> =>
            strow'[<<x, y>>] = strow[<<x, y>>] /\ starts'[<<x, y>>] = starts[<<x, y>>]
      /\ srow[s] # NoRow => /\ strow'[<<s, r>>] = "executing"
                            /\ starts'[<<s, r>>] = starts[<<s, r>>] + 1
      /\ srow[s] = NoRow => UNCHANGED <<strow, starts>>
  BY <1>3 DEF RegistryIInv, RegistryTypeOK
<1>6. RegistryTypeOK'
  <2>1. strow' \in [Sids \X Requests -> {"none", "accepted", "executing", "finished", "failed"}]
    BY <1>3 DEF RegistryIInv, RegistryTypeOK
  <2>2. starts' \in [Sids \X Requests -> Nat]
    BY SMTT(30), <1>3 DEF RegistryIInv, RegistryTypeOK
  <2>3. rt' \in [Sids -> Runtimes]
    BY <1>2 DEF RegistryIInv, RegistryTypeOK
  <2> QED
    BY <1>3, <2>1, <2>2, <2>3 DEF RegistryIInv, RegistryTypeOK
<1>7. Fresh'
  BY <1>1, <1>2, <1>3, <1>4, <1>5 DEF RegistryIInv, Fresh, RegistryTypeOK,
     RuntimeIs, Sids
<1>8. RowsKnown'
  BY <1>1, <1>2, <1>3, <1>4, <1>5 DEF RegistryIInv, RowsKnown, RegistryTypeOK,
     RuntimeIs
<1>9. RuntimesKnown'
  BY <1>1, <1>2, <1>3, <1>4, <1>5 DEF RegistryIInv, RuntimesKnown, RegistryTypeOK,
     RuntimeIs
<1>10. Linked'
  BY <1>1, <1>2, <1>3, <1>4, <1>5 DEF RegistryIInv, Linked, RegistryTypeOK,
     RuntimeIs
<1>11. CurrentIs'
  BY <1>1, <1>2, <1>3, <1>4, <1>5 DEF RegistryIInv, CurrentIs, RegistryTypeOK,
     Live, RuntimeIs, Sids
<1>12. AttachIs'
  BY <1>1, <1>2, <1>3, <1>4, <1>5 DEF RegistryIInv, AttachIs, RegistryTypeOK,
     NoAttach, RuntimeIs, Sids
<1>13. ViewsDiffer'
  BY <1>1, <1>2, <1>3, <1>4, <1>5 DEF RegistryIInv, ViewsDiffer, RegistryTypeOK,
     RuntimeIs, Sids
<1>14. Executing'
  <2>1. \A x \in Sids, y \in Requests : strow[<<x, y>>] = "executing" =>
           srow[x].state \in ActiveStates /\ rt[x].lane = "run" /\ rt[x].running = y
    BY <1>3 DEF RegistryIInv, Executing
  <2>2. \A x \in Sids : rt[x].lane = "run" /\ rt[x].running # "none" => rt[x].state = "idle"
    BY DEF RegistryIInv, Executing
  <2>3. NoRow.state \notin ActiveStates /\ "none" \notin Requests
    BY Nothing, RegistryLimits DEF RowIs, ActiveStates
  <2>4. ASSUME NEW x \in Sids, NEW y \in Requests, strow'[<<x, y>>] = "executing"
        PROVE  srow[x].state \in ActiveStates /\ rt'[x].lane = "run" /\ rt'[x].running = y
    <3>1. CASE x = s /\ y = r
      <4>1. srow[s] # NoRow
        BY <1>5, <2>1, <2>3, <2>4, <3>1
      <4> QED
        BY <1>1, <1>2, <1>3, <1>4, <3>1, <4>1 DEF RuntimeIs, ActiveStates
    <3>2. CASE ~(x = s /\ y = r)
      <4>1. strow[<<x, y>>] = "executing"
        BY <1>5, <2>4, <3>2
      <4>2. x # s
        BY <1>3, <2>1, <2>3, <4>1
      <4> QED
        BY <1>4, <2>1, <4>1, <4>2
    <3> QED
      BY <3>1, <3>2
  <2>5. m.state = "idle"
    BY <1>2, <1>3 DEF RuntimeIs
  <2> QED
    BY <1>3, <1>4, <2>2, <2>4, <2>5 DEF Executing
<1>15. Unstarted'
  <2>1. \A x \in Sids, y \in Requests : y \in rt'[x].queued => y \in rt[x].queued /\ <<x, y>> # <<s, r>>
    BY <1>2, <1>4 DEF RuntimeIs
  <2>2. ASSUME NEW x \in Sids, NEW y \in Requests, y \in rt'[x].queued
        PROVE  starts'[<<x, y>>] = 0
    BY <1>5, <2>1, <2>2 DEF RegistryIInv, Unstarted
  <2>3. ASSUME NEW x \in Sids, NEW y \in Requests, srow'[x] # NoRow, strow'[<<x, y>>] = "none"
        PROVE  starts'[<<x, y>>] = 0
    <3>1. srow' = srow
      BY <1>3
    <3>2. <<x, y>> # <<s, r>>
      BY <1>5, <2>3, <3>1
    <3> QED
      BY <1>5, <2>3, <3>1, <3>2 DEF RegistryIInv, Unstarted
  <2> QED
    BY <2>2, <2>3 DEF Unstarted
<1>16. StartsAtMostOnce'
  <2>1. starts[<<s, r>>] = 0
    BY <1>3 DEF RegistryIInv, Unstarted
  <2>2. \A x \in Sids, y \in Requests : starts[<<x, y>>] <= 1
    BY DEF RegistryIInv, StartsAtMostOnce
  <2>3. \A x \in Sids, y \in Requests : starts'[<<x, y>>] <= 1
    <3>1. starts'[<<s, r>>] <= 1
      BY <1>5, <2>1, <2>2
    <3>2. \A x \in Sids, y \in Requests : <<x, y>> # <<s, r>> => starts'[<<x, y>>] <= 1
      BY <1>5, <2>2
    <3> QED
      BY <3>1, <3>2
  <2> QED
    BY <2>3 DEF StartsAtMostOnce
<1>17. LimitsHold'
  <2>1. LiveSessions' \subseteq LiveSessions
    BY <1>1, <1>2, <1>3, <1>4, <1>5 DEF RegistryIInv, RegistryTypeOK, LiveSessions,
       Live, RuntimeIs
  <2>2. \A x \in LiveSessions' : rt'[x].ds = rt[x].ds
    BY <1>1, <1>2, <1>3, <1>4, <1>5 DEF RegistryIInv, RegistryTypeOK, LiveSessions,
       Live, RuntimeIs
  <2> QED
    BY <2>1, <2>2, FewerLive DEF RegistryIInv
<1>18. NewestIsActive' /\ Booted' /\ EpochsGrow'
  BY <1>1, <1>2, <1>3, <1>4, <1>5 DEF RegistryIInv, NewestIsActive, Booted,
     EpochsGrow, RuntimeIs, Sids
<1> QED
  BY <1>6, <1>7, <1>8, <1>9, <1>10, <1>11, <1>12, <1>13, <1>14, <1>15, <1>16,
     <1>17, <1>18 DEF RegistryIInv

\* A lane ends one.
LEMMA LaneFinishesKeeps ==
  ASSUME RegistryIInv, NEW s \in Sids, LaneFinishes(s)
  PROVE  RegistryIInv'
<1>1. /\ rt[s] # NoRuntime /\ rt[s].lane = "run" /\ rt[s].state # "none" /\ s < nextSid
      /\ attaching.session # s /\ (srow[s] # NoRow => srow[s].state = rt[s].state)
  <2>1. rt[s].lane = "run"
    BY DEF LaneFinishes, LaneRuns
  <2>2. rt[s] # NoRuntime
    BY <2>1, Nothing
  <2>3. rt[s].state # "none"
    BY <2>2 DEF RegistryIInv, RuntimesKnown
  <2>4. s < nextSid
    BY <2>2 DEF RegistryIInv, RegistryTypeOK, Fresh, Sids
  <2>5. attaching.session # s
    BY <2>1 DEF RegistryIInv, RegistryTypeOK, AttachIs, Sids
  <2>6. srow[s] # NoRow => srow[s].state = rt[s].state
    BY <2>2 DEF RegistryIInv, Linked
  <2> QED
    BY <2>1, <2>2, <2>3, <2>4, <2>5, <2>6
<1>2. PICK m \in Runtimes :
        /\ rt' = [rt EXCEPT ![s] = m] /\ m # NoRuntime
        /\ m.state = rt[s].state /\ m.console = rt[s].console /\ m.ds = rt[s].ds
        /\ m.epoch = rt[s].epoch /\ m.queued = rt[s].queued
        /\ srow[s] = NoRow => m.lane = "ended"
        /\ srow[s] # NoRow => m.lane = "run" /\ m.running = "none"
  <2>1. CASE srow[s] = NoRow
    <3>1. PICK m \in Runtimes : m = [rt[s] EXCEPT !.lane = "ended"]
      BY LaneSet DEF RegistryIInv, RegistryTypeOK
    <3>2. rt' = [rt EXCEPT ![s] = m]
      BY <2>1, <3>1 DEF RegistryIInv, RegistryTypeOK, LaneFinishes
    <3>3. RuntimeIs(m, rt[s].state, rt[s].console, rt[s].ds, rt[s].epoch,
                     rt[s].queued, rt[s].running) /\ m.lane = "ended"
      BY <3>1, LaneSet DEF RegistryIInv, RegistryTypeOK
    <3>4. m # NoRuntime
      BY <1>1, <3>3, Nothing DEF RuntimeIs
    <3> QED
      BY <2>1, <3>2, <3>3, <3>4 DEF RuntimeIs
  <2>2. CASE srow[s] # NoRow
    <3>1. PICK m \in Runtimes : m = [rt[s] EXCEPT !.running = "none"]
      BY QueueSet DEF RegistryIInv, RegistryTypeOK
    <3>2. rt' = [rt EXCEPT ![s] = m]
      BY <2>2, <3>1 DEF RegistryIInv, RegistryTypeOK, LaneFinishes
    <3>3. RuntimeIs(m, rt[s].state, rt[s].console, rt[s].ds, rt[s].epoch,
                     rt[s].queued, "none") /\ m.lane = rt[s].lane
      BY <3>1, QueueSet DEF RegistryIInv, RegistryTypeOK
    <3>4. m # NoRuntime
      BY <1>1, <3>3, Nothing DEF RuntimeIs
    <3> QED
      BY <1>1, <2>2, <3>2, <3>3, <3>4 DEF RuntimeIs
  <2> QED
    BY <2>1, <2>2
<1>3. /\ up /\ rt[s].state = "idle" /\ rt[s].running \in Requests
      /\ srow[s] = NoRow => UNCHANGED strow
      /\ srow[s] # NoRow => strow' = [strow EXCEPT ![<<s, rt[s].running>>] = "finished"]
      /\ UNCHANGED <<console, srow, current, attaching, boot, up, view, nextSid, starts>>
  BY Fields DEF RegistryIInv, RegistryTypeOK, LaneFinishes, LaneRuns
<1>4. RegistryTypeOK'
  BY <1>1, <1>2, <1>3 DEF RegistryIInv, RegistryTypeOK
<1>5. Fresh'
  BY <1>1, <1>2, <1>3 DEF RegistryIInv, Fresh, RegistryTypeOK, Sids
<1>6. RowsKnown'
  BY <1>1, <1>2, <1>3 DEF RegistryIInv, RowsKnown, RegistryTypeOK
<1>7. RuntimesKnown'
  BY <1>1, <1>2, <1>3 DEF RegistryIInv, RuntimesKnown, RegistryTypeOK
<1>8. Linked'
  BY <1>1, <1>2, <1>3 DEF RegistryIInv, Linked, RegistryTypeOK
<1>9. CurrentIs'
  BY <1>1, <1>2, <1>3 DEF RegistryIInv, CurrentIs, RegistryTypeOK, Live, Sids
<1>10. AttachIs'
  BY <1>1, <1>2, <1>3 DEF RegistryIInv, AttachIs, RegistryTypeOK, NoAttach, Sids
<1>11. ViewsDiffer'
  BY <1>1, <1>2, <1>3 DEF RegistryIInv, ViewsDiffer, RegistryTypeOK, Sids
<1>12. Executing'
  <2>1. \A x \in Sids, y \in Requests : strow[<<x, y>>] = "executing" =>
           srow[x].state \in ActiveStates /\ rt[x].lane = "run" /\ rt[x].running = y
    BY <1>3 DEF RegistryIInv, Executing
  <2>2. \A x \in Sids : rt[x].lane = "run" /\ rt[x].running # "none" => rt[x].state = "idle"
    BY DEF RegistryIInv, Executing
  <2>3. NoRow.state \notin ActiveStates /\ "none" \notin Requests
    BY Nothing, RegistryLimits DEF RowIs, ActiveStates
  <2>4. rt'[s] = m /\ \A x \in Sids : x # s => rt'[x] = rt[x]
    BY <1>2 DEF RegistryIInv, RegistryTypeOK
  <2>5. ASSUME NEW x \in Sids, NEW y \in Requests, strow'[<<x, y>>] = "executing"
        PROVE  x # s /\ strow[<<x, y>>] = "executing"
    <3>1. strow[<<x, y>>] = "executing"
      BY <1>3, <2>5 DEF RegistryIInv, RegistryTypeOK
    <3>2. ASSUME x = s PROVE FALSE
      <4>1. y = rt[s].running /\ srow[s] # NoRow
        BY <2>1, <2>3, <3>1, <3>2
      <4>2. strow'[<<s, y>>] = "finished"
        BY <1>3, <4>1 DEF RegistryIInv, RegistryTypeOK
      <4> QED
        BY <2>5, <3>2, <4>2
    <3> QED
      BY <3>1, <3>2
  <2>6. m.state = "idle"
    BY <1>2, <1>3
  <2> QED
    BY <1>3, <2>1, <2>2, <2>4, <2>5, <2>6 DEF Executing
<1>13. Unstarted'
  <2>1. \A x \in Sids : rt'[x].queued \subseteq rt[x].queued
    BY <1>1, <1>2, <1>3 DEF RegistryIInv, RegistryTypeOK, RuntimeIs
  <2>2. \A x \in Sids : srow'[x] # NoRow => srow[x] # NoRow
    BY <1>1, <1>2, <1>3 DEF RegistryIInv, RegistryTypeOK
  <2>3. \A x \in Sids, y \in Requests :
           srow'[x] # NoRow /\ strow'[<<x, y>>] = "none" => strow[<<x, y>>] = "none"
    BY <1>1, <1>2, <1>3 DEF RegistryIInv, RegistryTypeOK
  <2>4. Unstarted /\ starts' = starts
    BY <1>1, <1>2, <1>3 DEF RegistryIInv
  <2> QED
    BY <2>1, <2>2, <2>3, <2>4, StillUnstarted
<1>14. LimitsHold'
  <2>1. LiveSessions' \subseteq LiveSessions
    BY <1>1, <1>2, <1>3 DEF RegistryIInv, RegistryTypeOK, LiveSessions, Live, RuntimeIs
  <2>2. \A x \in LiveSessions' : rt'[x].ds = rt[x].ds
    BY <1>1, <1>2, <1>3 DEF RegistryIInv, RegistryTypeOK, LiveSessions, Live, RuntimeIs
  <2> QED
    BY <2>1, <2>2, FewerLive DEF RegistryIInv
<1>15. NewestIsActive' /\ Booted' /\ StartsAtMostOnce' /\ EpochsGrow'
  BY <1>1, <1>2, <1>3 DEF RegistryIInv, NewestIsActive, Booted, StartsAtMostOnce,
     EpochsGrow, Sids
<1> QED
  BY <1>4, <1>5, <1>6, <1>7, <1>8, <1>9, <1>10, <1>11, <1>12, <1>13, <1>14, <1>15
     DEF RegistryIInv

\* A lane closes.
LEMMA LaneClosesKeeps ==
  ASSUME RegistryIInv, NEW s \in Sids, LaneCloses(s)
  PROVE  RegistryIInv'
<1>1. PICK st \in SessionStates \ {"none"} :
        /\ LaneMoves(s, st) /\ rt[s].state \notin EndedStates /\ rt[s].state \in ActiveStates
        /\ \/ LaneRuns(s, "idle") /\ rt[s].running = "none" /\ st = "closing"
           \/ LaneRuns(s, "closing") /\ st = "closed"
  BY DEF LaneCloses, LaneRuns, SessionStates, ActiveStates, EndedStates
<1>2. /\ rt[s] # NoRuntime /\ rt[s].lane = "run" /\ rt[s].state # "none" /\ s < nextSid
      /\ attaching.session # s /\ (srow[s] # NoRow => srow[s].state = rt[s].state)
  <2>1. rt[s].lane = "run"
    BY <1>1 DEF LaneRuns
  <2>2. rt[s] # NoRuntime
    BY <2>1, Nothing
  <2>3. rt[s].state # "none"
    BY <2>2 DEF RegistryIInv, RuntimesKnown
  <2>4. s < nextSid
    BY <2>2 DEF RegistryIInv, RegistryTypeOK, Fresh, Sids
  <2>5. attaching.session # s
    BY <2>1 DEF RegistryIInv, RegistryTypeOK, AttachIs, Sids
  <2>6. srow[s] # NoRow => srow[s].state = rt[s].state
    BY <2>2 DEF RegistryIInv, Linked
  <2> QED
    BY <2>1, <2>2, <2>3, <2>4, <2>5, <2>6
<1>3. PICK m \in Runtimes :
        /\ rt' = [rt EXCEPT ![s] = m] /\ m # NoRuntime
        /\ RuntimeIs(m, st, rt[s].console, rt[s].ds, rt[s].epoch,
                     rt[s].queued, rt[s].running)
        /\ \/ m.lane = "ended"
           \/ m.lane = "run" /\ srow[s] # NoRow /\ st \notin EndedStates
  <2>1. PICK m \in Runtimes :
          /\ rt' = [rt EXCEPT ![s] = m]
          /\ RuntimeIs(m, st, rt[s].console, rt[s].ds, rt[s].epoch,
                     rt[s].queued, rt[s].running)
          /\ \/ m.lane = "ended"
             \/ m.lane = rt[s].lane /\ srow[s] # NoRow /\ st \notin EndedStates
    BY <1>1, MovesTo DEF RegistryIInv, RegistryTypeOK
  <2>2. m # NoRuntime
    BY <2>1, <1>1, Nothing DEF RuntimeIs
  <2> QED
    BY <1>2, <2>1, <2>2
<1>4. PICK row \in SessionRows :
        /\ srow' = [srow EXCEPT ![s] = row]
        /\ srow[s] = NoRow => row = NoRow
        /\ srow[s] # NoRow => row.state = st /\ row # NoRow
        /\ row.console = srow[s].console /\ row.epoch = srow[s].epoch
        /\ row.boot = srow[s].boot
  BY <1>1, RowFollows DEF RegistryIInv, RegistryTypeOK
<1>5. /\ up /\ rt[s].state \in {"idle", "closing"}
      /\ UNCHANGED <<console, strow, current, attaching, boot, up, view, nextSid, starts>>
  BY <1>1 DEF LaneCloses, LaneRuns
<1>6. /\ rt'[s] = m /\ \A x \in Sids : x # s => rt'[x] = rt[x]
      /\ srow'[s] = row /\ \A x \in Sids : x # s => srow'[x] = srow[x]
  BY <1>3, <1>4 DEF RegistryIInv, RegistryTypeOK
<1>7. RegistryTypeOK'
  BY <1>1, <1>2, <1>3, <1>4, <1>5, <1>6 DEF RegistryIInv, RegistryTypeOK, RuntimeIs
<1>8. Fresh'
  BY <1>1, <1>2, <1>3, <1>4, <1>5, <1>6 DEF RegistryIInv, Fresh, RegistryTypeOK,
     RuntimeIs, Sids
<1>9. RowsKnown'
  BY <1>1, <1>2, <1>3, <1>4, <1>5, <1>6 DEF RegistryIInv, RowsKnown,
     RegistryTypeOK, RuntimeIs
<1>10. RuntimesKnown'
  BY <1>1, <1>2, <1>3, <1>4, <1>5, <1>6 DEF RegistryIInv, RuntimesKnown,
     RegistryTypeOK, RuntimeIs
<1>11. Linked'
  BY <1>1, <1>2, <1>3, <1>4, <1>5, <1>6 DEF RegistryIInv, Linked, RegistryTypeOK,
     RuntimeIs
<1>12. NewestIsActive'
  BY <1>1, <1>2, <1>3, <1>4, <1>5, <1>6 DEF RegistryIInv, NewestIsActive,
     RegistryTypeOK, RowsKnown, RuntimeIs, Sids
<1>13. CurrentIs'
  BY <1>1, <1>2, <1>3, <1>4, <1>5, <1>6 DEF RegistryIInv, CurrentIs,
     RegistryTypeOK, Live, RuntimeIs, Sids
<1>14. AttachIs'
  BY <1>1, <1>2, <1>3, <1>4, <1>5, <1>6 DEF RegistryIInv, AttachIs, RegistryTypeOK,
     NoAttach, RuntimeIs, Sids
<1>15. ViewsDiffer'
  BY <1>1, <1>2, <1>3, <1>4, <1>5, <1>6 DEF RegistryIInv, ViewsDiffer,
     RegistryTypeOK, RuntimeIs, Sids
<1>16. Executing'
  <2>1. \A x \in Sids, y \in Requests : strow[<<x, y>>] = "executing" =>
           srow[x].state \in ActiveStates /\ rt[x].lane = "run" /\ rt[x].running = y
    BY <1>5 DEF RegistryIInv, Executing
  <2>2. \A x \in Sids : rt[x].lane = "run" /\ rt[x].running # "none" => rt[x].state = "idle"
    BY DEF RegistryIInv, Executing
  <2>3. NoRow.state \notin ActiveStates /\ "none" \notin Requests
    BY Nothing, RegistryLimits DEF RowIs, ActiveStates
  <2>4. ASSUME NEW x \in Sids, NEW y \in Requests, strow'[<<x, y>>] = "executing"
        PROVE  x # s /\ strow[<<x, y>>] = "executing"
    <3>1. strow[<<x, y>>] = "executing"
      BY <1>5, <2>4
    <3>2. x = s => rt[s].running = y /\ rt[s].state = "idle" /\ y # "none"
      BY <2>1, <2>2, <2>3, <3>1
    <3> QED
      BY <1>1, <3>1, <3>2 DEF LaneRuns
  <2>5. m.lane = "run" /\ m.running # "none" => m.state = "idle"
    BY <1>1, <1>3 DEF RuntimeIs, LaneRuns, EndedStates
  <2> QED
    BY <1>5, <1>6, <2>1, <2>2, <2>4, <2>5 DEF Executing
<1>17. Booted'
  BY <1>1, <1>2, <1>3, <1>4, <1>5, <1>6 DEF RegistryIInv, Booted, RegistryTypeOK,
     RuntimeIs
<1>18. Unstarted'
  <2>1. \A x \in Sids : rt'[x].queued \subseteq rt[x].queued
    BY <1>1, <1>2, <1>3, <1>4, <1>5, <1>6 DEF RegistryIInv, RegistryTypeOK, RuntimeIs
  <2>2. \A x \in Sids : srow'[x] # NoRow => srow[x] # NoRow
    BY <1>1, <1>2, <1>3, <1>4, <1>5, <1>6 DEF RegistryIInv, RegistryTypeOK
  <2>3. \A x \in Sids, y \in Requests :
           srow'[x] # NoRow /\ strow'[<<x, y>>] = "none" => strow[<<x, y>>] = "none"
    BY <1>1, <1>2, <1>3, <1>4, <1>5, <1>6 DEF RegistryIInv, RegistryTypeOK
  <2>4. Unstarted /\ starts' = starts
    BY <1>1, <1>2, <1>3, <1>4, <1>5, <1>6 DEF RegistryIInv
  <2> QED
    BY <2>1, <2>2, <2>3, <2>4, StillUnstarted
<1>19. EpochsGrow'
  BY <1>1, <1>2, <1>3, <1>4, <1>5, <1>6 DEF RegistryIInv, EpochsGrow,
     RegistryTypeOK, RuntimeIs, Sids
<1>20. LimitsHold'
  <2>1. LiveSessions' \subseteq LiveSessions
    BY <1>1, <1>2, <1>3, <1>4, <1>5, <1>6 DEF RegistryIInv, RegistryTypeOK,
       LiveSessions, Live, RuntimeIs
  <2>2. \A x \in LiveSessions' : rt'[x].ds = rt[x].ds
    BY <1>1, <1>2, <1>3, <1>4, <1>5, <1>6 DEF RegistryIInv, RegistryTypeOK,
       LiveSessions, Live, RuntimeIs
  <2> QED
    BY <2>1, <2>2, FewerLive DEF RegistryIInv
<1>21. StartsAtMostOnce'
  BY <1>1, <1>2, <1>3, <1>4, <1>5, <1>6 DEF RegistryIInv, StartsAtMostOnce,
     RuntimeIs, Sids
<1> QED
  BY <1>7, <1>8, <1>9, <1>10, <1>11, <1>12, <1>13, <1>14, <1>15, <1>16, <1>17,
     <1>18, <1>19, <1>20, <1>21 DEF RegistryIInv

\* A lane loses its connection.
LEMMA LaneLosesKeeps ==
  ASSUME RegistryIInv, NEW s \in Sids, LaneLoses(s)
  PROVE  RegistryIInv'
<1>1. PICK st \in SessionStates \ {"none"} :
        /\ LaneMoves(s, st) /\ rt[s].state \notin EndedStates /\ rt[s].state \in ActiveStates
        /\ LaneRuns(s, "idle") /\ st = "session_lost" /\ st \in EndedStates
  BY DEF LaneLoses, LaneRuns, SessionStates, ActiveStates, EndedStates
<1>2. /\ rt[s] # NoRuntime /\ rt[s].lane = "run" /\ rt[s].state # "none" /\ s < nextSid
      /\ attaching.session # s /\ (srow[s] # NoRow => srow[s].state = rt[s].state)
  <2>1. rt[s].lane = "run"
    BY <1>1 DEF LaneRuns
  <2>2. rt[s] # NoRuntime
    BY <2>1, Nothing
  <2>3. rt[s].state # "none"
    BY <2>2 DEF RegistryIInv, RuntimesKnown
  <2>4. s < nextSid
    BY <2>2 DEF RegistryIInv, RegistryTypeOK, Fresh, Sids
  <2>5. attaching.session # s
    BY <2>1 DEF RegistryIInv, RegistryTypeOK, AttachIs, Sids
  <2>6. srow[s] # NoRow => srow[s].state = rt[s].state
    BY <2>2 DEF RegistryIInv, Linked
  <2> QED
    BY <2>1, <2>2, <2>3, <2>4, <2>5, <2>6
<1>3. PICK m \in Runtimes :
        /\ rt' = [rt EXCEPT ![s] = m] /\ m # NoRuntime
        /\ RuntimeIs(m, st, rt[s].console, rt[s].ds, rt[s].epoch,
                     rt[s].queued, rt[s].running)
        /\ \/ m.lane = "ended"
           \/ m.lane = "run" /\ srow[s] # NoRow /\ st \notin EndedStates
  <2>1. PICK m \in Runtimes :
          /\ rt' = [rt EXCEPT ![s] = m]
          /\ RuntimeIs(m, st, rt[s].console, rt[s].ds, rt[s].epoch,
                     rt[s].queued, rt[s].running)
          /\ \/ m.lane = "ended"
             \/ m.lane = rt[s].lane /\ srow[s] # NoRow /\ st \notin EndedStates
    BY <1>1, MovesTo DEF RegistryIInv, RegistryTypeOK
  <2>2. m # NoRuntime
    BY <2>1, <1>1, Nothing DEF RuntimeIs
  <2> QED
    BY <1>2, <2>1, <2>2
<1>4. PICK row \in SessionRows :
        /\ srow' = [srow EXCEPT ![s] = row]
        /\ srow[s] = NoRow => row = NoRow
        /\ srow[s] # NoRow => row.state = st /\ row # NoRow
        /\ row.console = srow[s].console /\ row.epoch = srow[s].epoch
        /\ row.boot = srow[s].boot
  BY <1>1, RowFollows DEF RegistryIInv, RegistryTypeOK
<1>5. /\ up
      /\ strow' = [x \in Sids \X Requests |->
                     IF x = <<s, rt[s].running>> /\ srow[s] # NoRow
                     THEN "failed" ELSE strow[x]]
      /\ UNCHANGED <<console, current, attaching, boot, up, view, nextSid, starts>>
  BY <1>1 DEF LaneLoses, LaneRuns
<1>6. /\ rt'[s] = m /\ \A x \in Sids : x # s => rt'[x] = rt[x]
      /\ srow'[s] = row /\ \A x \in Sids : x # s => srow'[x] = srow[x]
  BY <1>3, <1>4 DEF RegistryIInv, RegistryTypeOK
<1>7. RegistryTypeOK'
  BY <1>1, <1>2, <1>3, <1>4, <1>5, <1>6 DEF RegistryIInv, RegistryTypeOK, RuntimeIs
<1>8. Fresh'
  BY <1>1, <1>2, <1>3, <1>4, <1>5, <1>6 DEF RegistryIInv, Fresh, RegistryTypeOK,
     RuntimeIs, Sids
<1>9. RowsKnown'
  BY <1>1, <1>2, <1>3, <1>4, <1>5, <1>6 DEF RegistryIInv, RowsKnown,
     RegistryTypeOK, RuntimeIs
<1>10. RuntimesKnown'
  BY <1>1, <1>2, <1>3, <1>4, <1>5, <1>6 DEF RegistryIInv, RuntimesKnown,
     RegistryTypeOK, RuntimeIs
<1>11. Linked'
  BY <1>1, <1>2, <1>3, <1>4, <1>5, <1>6 DEF RegistryIInv, Linked, RegistryTypeOK,
     RuntimeIs
<1>12. NewestIsActive'
  BY <1>1, <1>2, <1>3, <1>4, <1>5, <1>6 DEF RegistryIInv, NewestIsActive,
     RegistryTypeOK, RowsKnown, RuntimeIs, Sids
<1>13. CurrentIs'
  BY <1>1, <1>2, <1>3, <1>4, <1>5, <1>6 DEF RegistryIInv, CurrentIs,
     RegistryTypeOK, Live, RuntimeIs, Sids
<1>14. AttachIs'
  BY <1>1, <1>2, <1>3, <1>4, <1>5, <1>6 DEF RegistryIInv, AttachIs, RegistryTypeOK,
     NoAttach, RuntimeIs, Sids
<1>15. ViewsDiffer'
  BY <1>1, <1>2, <1>3, <1>4, <1>5, <1>6 DEF RegistryIInv, ViewsDiffer,
     RegistryTypeOK, RuntimeIs, Sids
<1>16. Executing'
  <2>1. \A x \in Sids, y \in Requests : strow[<<x, y>>] = "executing" =>
           srow[x].state \in ActiveStates /\ rt[x].lane = "run" /\ rt[x].running = y
    BY <1>5 DEF RegistryIInv, Executing
  <2>2. \A x \in Sids : rt[x].lane = "run" /\ rt[x].running # "none" => rt[x].state = "idle"
    BY DEF RegistryIInv, Executing
  <2>3. NoRow.state \notin ActiveStates /\ "none" \notin Requests
    BY Nothing, RegistryLimits DEF RowIs, ActiveStates
  <2>4. ASSUME NEW x \in Sids, NEW y \in Requests, strow'[<<x, y>>] = "executing"
        PROVE  x # s /\ strow[<<x, y>>] = "executing"
    <3>1. strow'[<<x, y>>] = IF <<x, y>> = <<s, rt[s].running>> /\ srow[s] # NoRow
                             THEN "failed" ELSE strow[<<x, y>>]
      BY <1>5
    <3>2. strow[<<x, y>>] = "executing" /\ ~(<<x, y>> = <<s, rt[s].running>> /\ srow[s] # NoRow)
      BY <2>4, <3>1
    <3> QED
      BY <2>1, <2>3, <3>2
  <2>5. m.lane = "run" /\ m.running # "none" => m.state = "idle"
    BY <1>1, <1>3 DEF RuntimeIs, LaneRuns, EndedStates
  <2>6. ASSUME NEW x \in Sids, NEW y \in Requests, strow'[<<x, y>>] = "executing"
        PROVE  srow'[x].state \in ActiveStates /\ rt'[x].lane = "run" /\ rt'[x].running = y
    BY <1>6, <2>1, <2>4, <2>6
  <2>7. \A x \in Sids : rt'[x].lane = "run" /\ rt'[x].running # "none" => rt'[x].state = "idle"
    BY <1>6, <2>2, <2>5
  <2>8. up'
    BY <1>5
  <2> QED
    BY <2>6, <2>7, <2>8 DEF Executing
<1>17. Booted'
  BY <1>1, <1>2, <1>3, <1>4, <1>5, <1>6 DEF RegistryIInv, Booted, RegistryTypeOK,
     RuntimeIs
<1>18. Unstarted'
  <2>1. \A x \in Sids : rt'[x].queued \subseteq rt[x].queued
    BY <1>1, <1>2, <1>3, <1>4, <1>5, <1>6 DEF RegistryIInv, RegistryTypeOK, RuntimeIs
  <2>2. \A x \in Sids : srow'[x] # NoRow => srow[x] # NoRow
    BY <1>1, <1>2, <1>3, <1>4, <1>5, <1>6 DEF RegistryIInv, RegistryTypeOK
  <2>3. \A x \in Sids, y \in Requests :
           srow'[x] # NoRow /\ strow'[<<x, y>>] = "none" => strow[<<x, y>>] = "none"
    BY <1>1, <1>2, <1>3, <1>4, <1>5, <1>6 DEF RegistryIInv, RegistryTypeOK
  <2>4. Unstarted /\ starts' = starts
    BY <1>1, <1>2, <1>3, <1>4, <1>5, <1>6 DEF RegistryIInv
  <2> QED
    BY <2>1, <2>2, <2>3, <2>4, StillUnstarted
<1>19. EpochsGrow'
  BY <1>1, <1>2, <1>3, <1>4, <1>5, <1>6 DEF RegistryIInv, EpochsGrow,
     RegistryTypeOK, RuntimeIs, Sids
<1>20. LimitsHold'
  <2>1. LiveSessions' \subseteq LiveSessions
    BY <1>1, <1>2, <1>3, <1>4, <1>5, <1>6 DEF RegistryIInv, RegistryTypeOK,
       LiveSessions, Live, RuntimeIs
  <2>2. \A x \in LiveSessions' : rt'[x].ds = rt[x].ds
    BY <1>1, <1>2, <1>3, <1>4, <1>5, <1>6 DEF RegistryIInv, RegistryTypeOK,
       LiveSessions, Live, RuntimeIs
  <2> QED
    BY <2>1, <2>2, FewerLive DEF RegistryIInv
<1>21. StartsAtMostOnce'
  BY <1>1, <1>2, <1>3, <1>4, <1>5, <1>6 DEF RegistryIInv, StartsAtMostOnce,
     RuntimeIs, Sids
<1> QED
  BY <1>7, <1>8, <1>9, <1>10, <1>11, <1>12, <1>13, <1>14, <1>15, <1>16, <1>17,
     <1>18, <1>19, <1>20, <1>21 DEF RegistryIInv

\* A console is bound to another datasource.
LEMMA UpdateConsoleKeeps ==
  ASSUME RegistryIInv, NEW c \in Consoles, NEW d \in Datasources, UpdateConsole(c, d)
  PROVE  RegistryIInv'
<1>1. PICK con \in ConsoleRows :
        /\ console' = [console EXCEPT ![c] = con]
        /\ con.alive = console[c].alive /\ con.epoch = console[c].epoch
  <2>1. PICK con \in ConsoleRows : con = [console[c] EXCEPT !.ds = d]
    BY ConsoleBound DEF RegistryIInv, RegistryTypeOK
  <2>2. console' = [console EXCEPT ![c] = con]
    BY <2>1 DEF RegistryIInv, RegistryTypeOK, UpdateConsole, InsertSession, NextEpoch
  <2>3. con.alive = console[c].alive /\ con.epoch = console[c].epoch
    BY <2>1, ConsoleBound DEF RegistryIInv, RegistryTypeOK
  <2> QED
    BY <2>2, <2>3
<1>2. UNCHANGED <<srow, strow, rt, current, attaching, boot, up, view, nextSid, starts>>
  BY DEF UpdateConsole
<1>3. RegistryTypeOK'
  BY <1>1, <1>2 DEF RegistryIInv, RegistryTypeOK
<1>4. RowsKnown'
  BY <1>1, <1>2 DEF RegistryIInv, RowsKnown, RegistryTypeOK
<1>5. RuntimesKnown'
  BY <1>1, <1>2 DEF RegistryIInv, RuntimesKnown, RegistryTypeOK
<1>6. Linked'
  BY <1>1, <1>2 DEF RegistryIInv, Linked, RegistryTypeOK
<1>7. NewestIsActive'
  BY <1>1, <1>2 DEF RegistryIInv, NewestIsActive, RegistryTypeOK
<1>8. CurrentIs'
  BY <1>1, <1>2 DEF RegistryIInv, CurrentIs, RegistryTypeOK, Live
<1>9. ViewsDiffer'
  BY <1>1, <1>2 DEF RegistryIInv, ViewsDiffer, RegistryTypeOK
<1>10. EpochsGrow'
  BY <1>1, <1>2 DEF RegistryIInv, EpochsGrow, RegistryTypeOK
<1>11. /\ Fresh' /\ AttachIs' /\ Executing' /\ Booted' /\ Unstarted'
       /\ StartsAtMostOnce' /\ LimitsHold'
  BY <1>1, <1>2 DEF RegistryIInv, Fresh, AttachIs, Executing, Booted, Unstarted,
     StartsAtMostOnce, LimitsHold, NoAttach, LiveSessions, Live
<1> QED
  BY <1>3, <1>4, <1>5, <1>6, <1>7, <1>8, <1>9, <1>10, <1>11 DEF RegistryIInv

\* A console is deleted.
LEMMA DeleteConsoleKeeps ==
  ASSUME RegistryIInv, NEW c \in Consoles, DeleteConsole(c)
  PROVE  RegistryIInv'
<1>1. PICK con \in ConsoleRows :
        /\ console' = [console EXCEPT ![c] = con]
        /\ con.epoch = console[c].epoch
  <2>1. PICK con \in ConsoleRows : con = [console[c] EXCEPT !.alive = FALSE]
    BY ConsoleDeleted DEF RegistryIInv, RegistryTypeOK
  <2>2. console' = [console EXCEPT ![c] = con]
    BY <2>1 DEF RegistryIInv, RegistryTypeOK, DeleteConsole, InsertSession, NextEpoch
  <2>3. con.epoch = console[c].epoch
    BY <2>1, ConsoleDeleted DEF RegistryIInv, RegistryTypeOK
  <2> QED
    BY <2>2, <2>3
<1>2. /\ srow' = [s \in Sids |-> IF srow[s].console = c THEN NoRow ELSE srow[s]]
      /\ strow' = [x \in Sids \X Requests |-> IF srow[x[1]].console = c THEN "none" ELSE strow[x]]
      /\ UNCHANGED <<rt, current, attaching, boot, up, view, nextSid, starts>>
  BY DEF DeleteConsole
<1>3. RegistryTypeOK'
  BY <1>1, <1>2, Nothing DEF RegistryIInv, RegistryTypeOK, RowIs
<1>4. Fresh'
  BY <1>1, <1>2, Nothing DEF RegistryIInv, Fresh, RegistryTypeOK, RowIs
<1>5. RowsKnown'
  BY <1>1, <1>2, Nothing DEF RegistryIInv, RowsKnown, RegistryTypeOK, RowIs
<1>6. RuntimesKnown'
  BY <1>1, <1>2, Nothing DEF RegistryIInv, RuntimesKnown, RegistryTypeOK, RowIs
<1>7. Linked'
  BY <1>1, <1>2, Nothing DEF RegistryIInv, Linked, RegistryTypeOK, RowIs
<1>8. NewestIsActive'
  BY <1>1, <1>2, Nothing DEF RegistryIInv, NewestIsActive, RegistryTypeOK, RowIs
<1>9. CurrentIs'
  BY <1>1, <1>2, Nothing DEF RegistryIInv, CurrentIs, RegistryTypeOK, Live, RowIs
<1>10. ViewsDiffer'
  BY <1>1, <1>2, Nothing DEF RegistryIInv, ViewsDiffer, RegistryTypeOK, RowIs
<1>11. Executing'
  BY <1>1, <1>2, Nothing DEF RegistryIInv, Executing, RegistryTypeOK, RowIs
<1>12. Booted'
  <2>1. NoRow.state \notin ActiveStates
    BY Nothing DEF RowIs, ActiveStates
  <2> QED
    BY <1>2, <2>1 DEF RegistryIInv, Booted
<1>13. Unstarted'
  <2>1. \A x \in Sids : rt'[x].queued \subseteq rt[x].queued
    BY <1>1, <1>2, Nothing DEF RegistryIInv, RegistryTypeOK, RuntimeIs
  <2>2. \A x \in Sids : srow'[x] # NoRow => srow[x] # NoRow
    BY <1>1, <1>2, Nothing DEF RegistryIInv, RegistryTypeOK
  <2>3. \A x \in Sids, y \in Requests :
           srow'[x] # NoRow /\ strow'[<<x, y>>] = "none" => strow[<<x, y>>] = "none"
    BY <1>1, <1>2, Nothing DEF RegistryIInv, RegistryTypeOK
  <2>4. Unstarted /\ starts' = starts
    BY <1>1, <1>2, Nothing DEF RegistryIInv
  <2> QED
    BY <2>1, <2>2, <2>3, <2>4, StillUnstarted
<1>14. EpochsGrow'
  BY <1>1, <1>2, Nothing DEF RegistryIInv, EpochsGrow, RegistryTypeOK, RowIs
<1>15. AttachIs' /\ StartsAtMostOnce' /\ LimitsHold'
  BY <1>1, <1>2, Nothing DEF RegistryIInv, AttachIs, StartsAtMostOnce, LimitsHold,
     NoAttach, LiveSessions, Live, RowIs
<1> QED
  BY <1>3, <1>4, <1>5, <1>6, <1>7, <1>8, <1>9, <1>10, <1>11, <1>12, <1>13, <1>14,
     <1>15 DEF RegistryIInv

\* The process dies.
LEMMA ApiCrashKeeps ==
  ASSUME RegistryIInv, ApiCrash
  PROVE  RegistryIInv'
<1>1. /\ up /\ up' = FALSE /\ boot' = boot + 1
      /\ rt' = [s \in Sids |-> NoRuntime] /\ current' = [c \in Consoles |-> 0]
      /\ attaching' = NoAttach
      /\ UNCHANGED <<console, srow, strow, view, nextSid, starts>>
  BY DEF ApiCrash
<1>2. RegistryTypeOK'
  <2>1. rt' \in [Sids -> Runtimes]
    BY <1>1, Nothing
  <2>2. current' \in [Consoles -> Sids \union {0}]
    BY <1>1
  <2>3. attaching' \in [session : Sids \union {0}, window : Windows \union {"none"}]
    BY <1>1 DEF NoAttach
  <2>4. boot' \in Nat
    BY <1>1 DEF RegistryIInv, RegistryTypeOK
  <2>7. up' \in BOOLEAN
    BY <1>1, Zenon
  <2>5. /\ console' \in [Consoles -> ConsoleRows] /\ srow' \in [Sids -> SessionRows]
        /\ nextSid' \in Nat \ {0} /\ view' \in [Windows -> Views]
    BY <1>1 DEF RegistryIInv, RegistryTypeOK
  <2>6. /\ strow' \in [Sids \X Requests ->
                         {"none", "accepted", "executing", "finished", "failed"}]
        /\ starts' \in [Sids \X Requests -> Nat]
    BY <1>1 DEF RegistryIInv, RegistryTypeOK
  <2> QED
    BY <2>1, <2>2, <2>3, <2>4, <2>5, <2>6, <2>7, Zenon DEF RegistryTypeOK
<1>3. Fresh'
  BY <1>1, Nothing DEF RegistryIInv, Fresh, RegistryTypeOK, RuntimeIs, NoAttach
<1>4. RowsKnown'
  <2>1. \A x \in Sids : srow[x].boot \in Nat /\ boot \in Nat
    BY Fields DEF RegistryIInv, RegistryTypeOK
  <2>2. \A x \in Sids : srow[x] # NoRow => srow[x].boot <= boot'
    BY <1>1, <2>1 DEF RegistryIInv, RowsKnown
  <2> QED
    BY <1>1, <2>2 DEF RegistryIInv, RowsKnown
<1>5. RuntimesKnown'
  BY <1>1, Nothing DEF RegistryIInv, RuntimesKnown, RegistryTypeOK, RuntimeIs,
     NoAttach
<1>6. Linked'
  BY <1>1, Nothing DEF RegistryIInv, Linked, RegistryTypeOK, RuntimeIs, NoAttach
<1>7. CurrentIs'
  <2>1. NoRuntime.state \notin ActiveStates
    BY Nothing DEF RuntimeIs, ActiveStates
  <2> QED
    BY <1>1, <2>1 DEF CurrentIs, Live
<1>8. AttachIs'
  BY <1>1, Nothing DEF RegistryIInv, AttachIs, RegistryTypeOK, NoAttach, RuntimeIs
<1>9. ViewsDiffer'
  <2>1. \A x \in Windows : view[x].session # 0 => rt'[view[x].session] = NoRuntime
    BY <1>1, Fields DEF RegistryIInv, RegistryTypeOK
  <2> QED
    BY <1>1, <2>1 DEF RegistryIInv, ViewsDiffer
<1>10. Executing'
  BY <1>1, Nothing DEF RegistryIInv, Executing, RegistryTypeOK, Booted, RowsKnown,
     RuntimeIs, NoAttach
<1>11. Booted'
  BY <1>1, Nothing DEF RegistryIInv, Booted, RegistryTypeOK, RuntimeIs, NoAttach
<1>12. Unstarted'
  <2>1. \A x \in Sids : rt'[x].queued \subseteq rt[x].queued
    BY <1>1, Nothing DEF RegistryIInv, RegistryTypeOK, RuntimeIs
  <2>2. \A x \in Sids : srow'[x] # NoRow => srow[x] # NoRow
    BY <1>1, Nothing DEF RegistryIInv, RegistryTypeOK
  <2>3. \A x \in Sids, y \in Requests :
           srow'[x] # NoRow /\ strow'[<<x, y>>] = "none" => strow[<<x, y>>] = "none"
    BY <1>1, Nothing DEF RegistryIInv, RegistryTypeOK
  <2>4. Unstarted /\ starts' = starts
    BY <1>1, Nothing DEF RegistryIInv
  <2> QED
    BY <2>1, <2>2, <2>3, <2>4, StillUnstarted
<1>13. LimitsHold'
  <2>1. LiveSessions' \subseteq LiveSessions
    BY <1>1, Nothing DEF RegistryIInv, RegistryTypeOK, LiveSessions, Live,
       RuntimeIs, ActiveStates
  <2>2. \A x \in LiveSessions' : rt'[x].ds = rt[x].ds
    BY <1>1, Nothing DEF RegistryIInv, RegistryTypeOK, LiveSessions, Live,
       RuntimeIs, ActiveStates
  <2> QED
    BY <2>1, <2>2, FewerLive DEF RegistryIInv
<1>14. NewestIsActive' /\ StartsAtMostOnce' /\ EpochsGrow'
  BY <1>1, Nothing DEF RegistryIInv, NewestIsActive, StartsAtMostOnce, EpochsGrow,
     RuntimeIs, NoAttach
<1> QED
  BY <1>2, <1>3, <1>4, <1>5, <1>6, <1>7, <1>8, <1>9, <1>10, <1>11, <1>12, <1>13,
     <1>14 DEF RegistryIInv

\* The next one sweeps.
LEMMA StartupSweepKeeps ==
  ASSUME RegistryIInv, StartupSweep
  PROVE  RegistryIInv'
<1>1. ASSUME NEW s \in Sids
      PROVE  /\ srow'[s] \in SessionRows
             /\ ~Stale(s) => srow'[s] = srow[s]
             /\ Stale(s) => /\ srow'[s] # NoRow /\ srow[s] # NoRow
                            /\ RowIs(srow'[s], "session_lost", srow[s].console, srow[s].epoch,
                                     srow[s].boot)
  <2>1. srow'[s] = IF Stale(s) THEN [srow[s] EXCEPT !.state = "session_lost"] ELSE srow[s]
    BY DEF StartupSweep
  <2>2. CASE Stale(s)
    <3>1. srow[s] # NoRow
      BY <2>2, Nothing DEF Stale, RowIs, ActiveStates
    <3>2. "session_lost" \in SessionStates \ {"none"}
      BY DEF SessionStates, EndedStates
    <3>3. /\ srow'[s] \in SessionRows
          /\ RowIs(srow'[s], "session_lost", srow[s].console, srow[s].epoch, srow[s].boot)
      BY SMTT(30), <2>1, <2>2, <3>2, RowStateSet DEF RegistryIInv, RegistryTypeOK
    <3>4. srow'[s] # NoRow
      BY <3>3, Nothing DEF RowIs
    <3> QED
      BY <2>2, <3>1, <3>3, <3>4
  <2>3. CASE ~Stale(s)
    BY <2>1, <2>3 DEF RegistryIInv, RegistryTypeOK
  <2> QED
    BY <2>2, <2>3
<1>2. /\ ~up /\ up' = TRUE /\ srow' \in [Sids -> SessionRows]
      /\ strow' = [x \in Sids \X Requests |-> SweptStatement(x)]
      /\ UNCHANGED <<console, rt, current, attaching, boot, view, nextSid, starts>>
      /\ "session_lost" \in EndedStates /\ "session_lost" \notin ActiveStates
  BY <1>1 DEF RegistryIInv, RegistryTypeOK, StartupSweep, EndedStates, ActiveStates
<1>3. \A x \in Sids, y \in Requests :
        strow'[<<x, y>>] = IF Stale(x) /\ strow[<<x, y>>] = "executing" THEN "failed"
                           ELSE strow[<<x, y>>]
  BY <1>2 DEF SweptStatement
<1>4. RegistryTypeOK'
  <2>1. strow' \in [Sids \X Requests -> {"none", "accepted", "executing", "finished", "failed"}]
    <3>1. \A x \in Sids \X Requests :
             SweptStatement(x) \in {"none", "accepted", "executing", "finished", "failed"}
      BY DEF RegistryIInv, RegistryTypeOK, SweptStatement
    <3> QED
      BY <1>2, <3>1
  <2> QED
    BY <1>2, <2>1 DEF RegistryIInv, RegistryTypeOK
<1>5. Fresh'
  <2>1. \A x \in Sids : srow[x] = NoRow => srow'[x] = NoRow
    BY <1>1
  <2>2. \A x \in Sids, y \in Requests : strow[<<x, y>>] = "none" => strow'[<<x, y>>] = "none"
    BY <1>3
  <2> QED
    BY <1>2, <2>1, <2>2 DEF RegistryIInv, Fresh
<1>6. RowsKnown'
  <2>1. \A x \in Sids, y \in Requests : strow[<<x, y>>] = "none" => strow'[<<x, y>>] = "none"
    BY <1>3
  <2>2. \A x \in Sids :
           /\ srow'[x].state = "none" => srow[x].state = "none" /\ srow'[x] = srow[x]
           /\ srow'[x] = NoRow => srow[x] = NoRow
           /\ srow'[x] # NoRow => srow[x] # NoRow
           /\ srow'[x].console = srow[x].console
           /\ srow'[x].epoch = srow[x].epoch /\ srow'[x].boot = srow[x].boot
    BY <1>1 DEF RowIs
  <2> QED
    BY <1>2, <2>1, <2>2 DEF RegistryIInv, RowsKnown
<1>7. RuntimesKnown'
  BY <1>1, <1>2, <1>3 DEF RegistryIInv, RuntimesKnown, RegistryTypeOK, RowIs, Stale
<1>8. Linked'
  BY <1>1, <1>2, <1>3 DEF RegistryIInv, Linked, RegistryTypeOK, RuntimesKnown,
     RowIs, Stale
<1>9. NewestIsActive'
  BY <1>1, <1>2, <1>3 DEF RegistryIInv, NewestIsActive, RegistryTypeOK, RowIs,
     Stale
<1>10. Executing'
  <2>1. ASSUME NEW x \in Sids, NEW y \in Requests, strow'[<<x, y>>] = "executing" PROVE FALSE
    <3>1. strow[<<x, y>>] = "executing" /\ ~Stale(x)
      BY <1>3, <2>1
    <3>2. srow[x].state \in ActiveStates /\ srow[x].boot # boot
      BY <1>2, <3>1 DEF RegistryIInv, Executing
    <3> QED
      BY <3>1, <3>2 DEF Stale
  <2> QED
    BY <1>2, <2>1 DEF RegistryIInv, Executing
<1>11. Booted'
  BY <1>1, <1>2, <1>3 DEF RegistryIInv, Booted, RegistryTypeOK, RowIs, Stale
<1>12. Unstarted'
  <2>1. \A x \in Sids : rt'[x].queued \subseteq rt[x].queued
    BY <1>2
  <2>2. \A x \in Sids : srow'[x] # NoRow => srow[x] # NoRow
    BY <1>1
  <2>3. \A x \in Sids, y \in Requests : strow'[<<x, y>>] = "none" => strow[<<x, y>>] = "none"
    BY <1>3
  <2>4. Unstarted /\ starts' = starts
    BY <1>2 DEF RegistryIInv
  <2> QED
    BY <2>1, <2>2, <2>3, <2>4, StillUnstarted
<1>13. EpochsGrow'
  BY <1>1, <1>2, <1>3 DEF RegistryIInv, EpochsGrow, RegistryTypeOK, RowIs, Stale
<1>14. CurrentIs' /\ AttachIs' /\ ViewsDiffer' /\ StartsAtMostOnce' /\ LimitsHold'
  BY <1>1, <1>2, <1>3 DEF RegistryIInv, CurrentIs, AttachIs, ViewsDiffer,
     StartsAtMostOnce, LimitsHold, Live, NoAttach, LiveSessions, RowIs, Stale
<1> QED
  BY <1>4, <1>5, <1>6, <1>7, <1>8, <1>9, <1>10, <1>11, <1>12, <1>13, <1>14 DEF
     RegistryIInv

----------------------------------------------------------------------------
(* The theorem.                                                              *)

\* Any step of the broker, or none.
LEMMA RegistryStep ==
  ASSUME RegistryIInv, [RegistryNext]_registryVars
  PROVE  RegistryIInv'
<1>1. CASE \E w \in Windows, c \in Consoles : AttachReuse(w, c)
  BY <1>1, AttachReuseKeeps
<1>2. CASE \E w \in Windows, c \in Consoles, made \in BOOLEAN : AttachNew(w, c, made)
  BY <1>2, AttachNewKeeps
<1>3. CASE AttachFinish
  BY <1>3, AttachFinishKeeps
<1>4. CASE AttachStuck
  BY <1>4, AttachStuckKeeps
<1>5. CASE \E w \in Windows, r \in Requests : SubmitStatement(w, r)
  BY <1>5, SubmitStatementKeeps
<1>6. CASE \E w \in Windows : CloseSession(w)
  BY <1>6, CloseSessionKeeps
<1>7. CASE \E s \in Sids : LaneOpens(s)
  BY <1>7, LaneOpensKeeps
<1>8. CASE \E s \in Sids, r \in Requests : LaneStarts(s, r)
  BY <1>8, LaneStartsKeeps
<1>9. CASE \E s \in Sids : LaneFinishes(s)
  BY <1>9, LaneFinishesKeeps
<1>10. CASE \E s \in Sids : LaneCloses(s)
  BY <1>10, LaneClosesKeeps
<1>11. CASE \E s \in Sids : LaneLoses(s)
  BY <1>11, LaneLosesKeeps
<1>12. CASE \E c \in Consoles, d \in Datasources : UpdateConsole(c, d)
  BY <1>12, UpdateConsoleKeeps
<1>13. CASE \E c \in Consoles : DeleteConsole(c)
  BY <1>13, DeleteConsoleKeeps
<1>14. CASE ApiCrash
  BY <1>14, ApiCrashKeeps
<1>15. CASE StartupSweep
  BY <1>15, StartupSweepKeeps
<1>16. CASE UNCHANGED registryVars
  BY <1>16 DEF registryVars, RegistryIInv, RegistryTypeOK, Fresh, RowsKnown,
     RuntimesKnown, Linked,
     NewestIsActive, CurrentIs, AttachIs, ViewsDiffer, Executing, Booted, Unstarted,
     StartsAtMostOnce, EpochsGrow, LimitsHold, LiveSessions, Live
<1> QED
  BY <1>1, <1>2, <1>3, <1>4, <1>5, <1>6, <1>7, <1>8, <1>9, <1>10, <1>11, <1>12,
     <1>13, <1>14, <1>15, <1>16 DEF RegistryNext

\* The tables are empty at the first start.
LEMMA RegistryStarts ==
  ASSUME RegistryInit
  PROVE  RegistryIInv
<1>1. /\ \A s \in Sids : srow[s] = NoRow /\ rt[s] = NoRuntime /\ s \in Nat
      /\ \A s \in Sids, r \in Requests : strow[<<s, r>>] = "none" /\ starts[<<s, r>>] = 0
      /\ \A w \in Windows : view[w] = NoView
  BY DEF RegistryInit, Sids
<1>2. NoRuntime.state \notin ActiveStates /\ NoRow.state \notin ActiveStates
  BY Nothing DEF RuntimeIs, RowIs, ActiveStates
<1>3. RegistryTypeOK
  <2>1. console \in [Consoles -> ConsoleRows]
    <3>1. ASSUME NEW o \in [alive : {TRUE}, ds : Datasources,
                            epoch : {0}] PROVE o \in ConsoleRows
      <4>1. PICK d \in Datasources : o = [alive |-> TRUE, ds |-> d, epoch |-> 0]
        OBVIOUS
      <4> QED
        BY <4>1 DEF ConsoleRows
    <3>2. console \in [Consoles -> [alive : {TRUE}, ds : Datasources, epoch : {0}]]
      BY DEF RegistryInit
    <3> QED
      BY <3>1, <3>2
  <2>2. srow \in [Sids -> SessionRows] /\ rt \in [Sids -> Runtimes] /\ view \in [Windows -> Views]
    BY Nothing DEF RegistryInit
  <2>3. attaching \in [session : Sids \cup {0}, window : Windows \cup {"none"}]
    BY DEF RegistryInit, NoAttach
  <2>4. current \in [Consoles -> Sids \cup {0}]
    BY DEF RegistryInit
  <2>5. strow \in [Sids \X Requests -> {"none", "accepted", "executing", "finished", "failed"}]
    BY DEF RegistryInit
  <2>6. starts \in [Sids \X Requests -> Nat]
    BY DEF RegistryInit
  <2>7. boot \in Nat /\ nextSid \in Nat \ {0}
    BY DEF RegistryInit
  <2>8. up \in BOOLEAN
    BY Zenon DEF RegistryInit
  <2> QED
    BY <2>1, <2>2, <2>3, <2>4, <2>5, <2>6, <2>7, <2>8, Zenon DEF RegistryTypeOK
<1>4. Fresh /\ RowsKnown /\ RuntimesKnown
  <2>1. nextSid = 1
    BY DEF RegistryInit
  <2> QED
    BY <1>1, <2>1, Nothing DEF Fresh, RowsKnown, RuntimesKnown
<1>5. Linked /\ NewestIsActive /\ EpochsGrow
  BY <1>1 DEF Linked, NewestIsActive, EpochsGrow
<1>6. CurrentIs
  BY <1>1, <1>2 DEF CurrentIs, Live, RegistryInit
<1>7. AttachIs
  BY <1>1, Nothing DEF AttachIs, RegistryInit, NoAttach, RuntimeIs
<1>8. ViewsDiffer
  BY <1>1, Nothing DEF ViewsDiffer
<1>9. Executing /\ Booted
  <2>1. \A s \in Sids : rt[s].lane = "none" /\ srow[s].state \notin ActiveStates
    BY <1>1, <1>2, Nothing
  <2>2. \A s \in Sids, r \in Requests : strow[<<s, r>>] # "executing"
    BY <1>1
  <2> QED
    BY <2>1, <2>2 DEF Executing, Booted
<1>10. Unstarted /\ StartsAtMostOnce
  BY <1>1 DEF Unstarted, StartsAtMostOnce
<1>11. LimitsHold
  <2>1. LiveSessions = {}
    BY <1>1, <1>2 DEF LiveSessions, Live
  <2>2. \A d \in Datasources : {s \in LiveSessions : rt[s].ds = d} = {}
    BY <2>1
  <2> QED
    BY <2>1, <2>2, FS_EmptySet, RegistryLimits DEF LimitsHold
<1> QED
  BY <1>3, <1>4, <1>5, <1>6, <1>7, <1>8, <1>9, <1>10, <1>11 DEF RegistryIInv

\* Of the windows that show a console one at most holds its session.
LEMMA HoldersAreOne ==
  ASSUME RegistryIInv
  PROVE  OneHolder
<1> SUFFICES ASSUME NEW c \in Consoles
             PROVE  Cardinality({w \in Windows : /\ view[w].console = c /\ HoldsEpoch(w)
                                                 /\ Live(view[w].session)}) <= 1
  BY DEF OneHolder
<1> DEFINE Holders == {w \in Windows : /\ view[w].console = c /\ HoldsEpoch(w)
                                       /\ Live(view[w].session)}
<1>1. ASSUME NEW v \in Holders, NEW w \in Holders
      PROVE  v = w
  <2>1. /\ view[v].session \in Sids /\ view[w].session \in Sids
        /\ view[v].session # 0 /\ view[w].session # 0
    BY Fields DEF RegistryIInv, RegistryTypeOK, HoldsEpoch
  <2>2. rt[view[v].session].console = c /\ rt[view[w].session].console = c
    BY <2>1 DEF RegistryIInv, ViewsDiffer, HoldsEpoch
  <2>3. view[v].session = view[w].session
    BY <2>1, <2>2 DEF RegistryIInv, CurrentIs
  <2>4. view[v].epoch = view[w].epoch
    BY <2>3 DEF HoldsEpoch
  <2> QED
    BY <2>1, <2>3, <2>4 DEF RegistryIInv, ViewsDiffer
<1> HIDE DEF Holders
<1>2. CASE Holders = {}
  BY <1>2, FS_EmptySet DEF Holders
<1>3. CASE Holders # {}
  <2>1. PICK w \in Holders : TRUE
    BY <1>3
  <2>2. Holders = {w}
    BY <1>1, <2>1
  <2> QED
    BY SMTT(30), <2>2, FS_Singleton DEF Holders
<1> QED
  BY <1>2, <1>3

\* What the invariant says of the tables and the process.
LEMMA RegistryShows ==
  ASSUME RegistryIInv
  PROVE  RegistryInv
<1>1. OneHolder
  BY HoldersAreOne
<1>2. OneSessionPerConsole
  <2>1. ASSUME NEW s \in Sids, NEW t \in Sids, s # t,
               srow[s].state \in ActiveStates, srow[t].state \in ActiveStates
        PROVE  srow[s].console # srow[t].console
    <3>1. srow[s] # NoRow /\ srow[t] # NoRow
      BY <2>1, Nothing DEF RowIs, ActiveStates
    <3>2. srow[s].state \notin EndedStates /\ srow[t].state \notin EndedStates
      BY <2>1 DEF ActiveStates, EndedStates
    <3>3. s < t \/ t < s
      BY <2>1 DEF Sids
    <3> QED
      BY <3>1, <3>2, <3>3 DEF RegistryIInv, NewestIsActive
  <2>2. \A s \in Sids : Live(s) => current[rt[s].console] = s
    BY DEF RegistryIInv, CurrentIs
  <2> QED
    BY <2>1, <2>2 DEF OneSessionPerConsole
<1>3. RowsMirrorRuntimes
  <2>1. \A s \in Sids : srow[s].state \in ActiveStates => srow[s] # NoRow
    BY Nothing DEF RowIs, ActiveStates
  <2> QED
    BY <2>1 DEF RegistryIInv, Booted, Linked, RowsMirrorRuntimes
<1>4. NoOrphanRunning
  BY DEF RegistryIInv, Executing, NoOrphanRunning
<1> QED
  BY <1>1, <1>2, <1>3, <1>4 DEF RegistryIInv, RegistryInv

(* Whatever windows attach, take over, submit or close, wherever an attach   *)
(* fails and whenever the process dies, for any number of consoles, windows, *)
(* requests, sessions and restarts and any limits: a console has one active  *)
(* session, in the table and in the process, and one window whose epoch is   *)
(* accepted; rows say what the runtimes are, no statement starts twice, none *)
(* stays executing after a restart, and the limits hold (_attach_serial,     *)
(* submit_statement, startup_sweep, _enforce_session_limits).                *)
THEOREM RegistryIsSafe == RegistrySpec => []RegistryInv
<1>1. RegistryInit => RegistryIInv
  BY RegistryStarts
<1>2. RegistryIInv /\ [RegistryNext]_registryVars => RegistryIInv'
  BY RegistryStep
<1>3. RegistryIInv => RegistryInv
  BY RegistryShows
<1> QED
  BY <1>1, <1>2, <1>3, PTL DEF RegistrySpec

=============================================================================
