----------------------------- MODULE AdapterCall -----------------------------
(***************************************************************************)
(* One database adapter and the calls a job or a request makes on it, one  *)
(* after the other (app/dbclients/<dialect>_adapter.py, sql_write.py):     *)
(* connect, arm the statement timeout, execute, stream rows or commit, and *)
(* clean up on every way out.  Concurrent with a call are the database,    *)
(* the user who cancels and, for PostgreSQL, the thread that watches for   *)
(* the cancel while execute() blocks.  The text of queries, their results  *)
(* and the conversion of values are not modelled.                          *)
(***************************************************************************)
EXTENDS Naturals

CONSTANTS
    Dialects,  \* the dialects of the adapters considered
    MaxCalls   \* bound: calls made on the adapter

ASSUME AdapterBounds ==
    /\ Dialects \subseteq {"mysql", "postgresql", "oracle", "dm", "db2", "oceanbase"}
    /\ MaxCalls \in Nat

VARIABLES
    dialect,  \* the dialect of the adapter
    call,     \* the call under way, or the last one
    server,   \* the statement as the database sees it
    watcher,  \* the cancel watcher of the call
    shared,   \* depth of the reuse_connection scopes, 0 outside
    open,     \* whether the call's own and the shared connection are open
    cancel,   \* cancellation of the job was requested
    client,   \* the process's Oracle client mode
    hash,     \* the hash function the adapter has settled on
    made      \* calls made

adapterVars == <<dialect, call, server, watcher, shared, open, cancel, client, hash, made>>

Operations == {"select", "write", "ddl", "explain", "metadata", "test"}
WriteOps == {"write", "ddl"}

-----------------------------------------------------------------------------
(* What the adapters differ in.  armed: the operations for which a limit on *)
(* the statement's time is set, surely or, since a failure to set it is     *)
(* swallowed, perhaps.  watched: execute() is watched for a cancel.         *)
(* implicitly: DDL commits by itself.  plans: explain is offered.           *)

MysqlSession == [surely |-> Operations, perhaps |-> {}]
MysqlWrites == [watched |-> {}, implicitly |-> TRUE, plans |-> TRUE]

PostgresqlSession == [surely |-> {}, perhaps |-> Operations \ {"test"}]
PostgresqlWrites == [watched |-> WriteOps \union {"select"}, implicitly |-> FALSE, plans |-> TRUE]

OracleSession == [surely |-> {}, perhaps |-> WriteOps \union {"select", "explain"}]
OracleWrites == [watched |-> {}, implicitly |-> TRUE, plans |-> TRUE]

DmSession == [surely |-> {}, perhaps |-> WriteOps \union {"select"}]
DmWrites == [watched |-> {}, implicitly |-> TRUE, plans |-> TRUE]

Db2Session == [surely |-> {}, perhaps |-> WriteOps \union {"select"}]
Db2Writes == [watched |-> {}, implicitly |-> FALSE, plans |-> FALSE]

ObSession == [surely |-> Operations, perhaps |-> {}]
ObWrites == [watched |-> {}, implicitly |-> TRUE, plans |-> TRUE]

Session(d) == CASE d = "mysql" -> MysqlSession [] d = "postgresql" -> PostgresqlSession
                [] d = "oracle" -> OracleSession [] d = "dm" -> DmSession
                [] d = "db2" -> Db2Session [] d = "oceanbase" -> ObSession

WritesOf(d) == CASE d = "mysql" -> MysqlWrites [] d = "postgresql" -> PostgresqlWrites
                 [] d = "oracle" -> OracleWrites [] d = "dm" -> DmWrites
                 [] d = "db2" -> Db2Writes [] d = "oceanbase" -> ObWrites

-----------------------------------------------------------------------------
NoCall == [op |-> "none", pc |-> "ended", outcome |-> "none", armed |-> FALSE]

NoStatement == [status |-> "none", effect |-> "none"]

Active == call.pc # "ended"

\* Every way out of a call closes its cursor and its own connection.
CloseOwn(o) == [o EXCEPT !.own = FALSE]

\* run_write_statement rolls back before it lets an error pass.
LeftOpen(s) == [s EXCEPT !.status = IF @ = "running" THEN "running" ELSE "none"]

RolledBack(s) == [s EXCEPT !.effect = IF @ = "pending" THEN "none" ELSE @,
                           !.status = IF @ = "running" THEN "running" ELSE "none"]

EndCall(outcome) ==
    /\ call' = [call EXCEPT !.pc = "ended", !.outcome = outcome]
    /\ open' = CloseOwn(open)

Raise(outcome) == EndCall(outcome) /\ server' = RolledBack(server)

NewCall(op) == [op |-> op, pc |-> "start", outcome |-> "none", armed |-> FALSE]

\* The adapter is asked for something.  A watcher that still is cancelling
\* holds the closed connection of an earlier call.  Oracle explains only where the
\* datasource's policy allows it to use the plan table.
Begin(op) ==
    /\ ~Active /\ made < MaxCalls /\ watcher # "watching"
    /\ op \in WriteOps \union {"select", "test"} => shared = 0
    /\ made' = made + 1 /\ server' = NoStatement /\ watcher' = "off"
    /\ \/ /\ op = "explain" => WritesOf(dialect).plans
          /\ call' = NewCall(op)
       \/ /\ op = "explain" /\ dialect \in {"db2", "oracle"}
          /\ call' = [NewCall(op) EXCEPT !.pc = "ended", !.outcome = "unsupported"]
    /\ UNCHANGED <<dialect, shared, open, cancel, client, hash>>

\* Whether a process may load the Oracle driver: the thick client is tried
\* once and a failure is remembered.

ClientMode == IF client = "undecided" THEN {"thick", "failed"} ELSE {client}

UsesShared == shared > 0 /\ call.op \in {"metadata", "explain"}

Connects ==
    \E m \in IF dialect = "oracle" THEN ClientMode ELSE {client} :
       /\ m # "failed" /\ client' = m
       /\ open' = [open EXCEPT !.own = TRUE]

\* The connection is refused, or a session cannot be prepared and is closed.
ConnectFails ==
    /\ client' \in IF dialect = "oracle" THEN ClientMode ELSE {client}
    /\ open' = CloseOwn(open)

\* Connect and set the timeout of the statement, if that can be done.
ConnectCall ==
    /\ call.pc = "start"
    /\ \/ /\ IF UsesShared THEN UNCHANGED <<open, client>> ELSE Connects
          /\ \E a \in IF call.op \in Session(dialect).surely THEN {TRUE}
                      ELSE IF call.op \in Session(dialect).perhaps /\ ~UsesShared
                      THEN BOOLEAN ELSE {FALSE} :
                call' = [call EXCEPT !.pc = "connected", !.armed = a]
       \/ /\ ~UsesShared /\ ConnectFails
          /\ call' = [call EXCEPT !.pc = "ended", !.outcome = "connection_failed"]
    /\ UNCHANGED <<dialect, server, watcher, shared, cancel, hash, made>>

\* cursor.execute is entered, under the watcher where there is one.
Execute ==
    /\ call.pc = "connected"
    /\ call' = [call EXCEPT !.pc = "executing"]
    /\ server' = [status |-> "running",
                  effect |-> IF call.op \in WriteOps THEN "pending" ELSE "none"]
    /\ watcher' = IF call.op \in WritesOf(dialect).watched THEN "watching" ELSE "off"
    /\ UNCHANGED <<dialect, shared, open, cancel, client, hash, made>>

\* The database finishes or fails the statement; DDL may commit by itself.
ServerFinishes ==
    /\ server.status = "running"
    /\ \/ server' = [status |-> "finished",
                     effect |-> IF call.op = "ddl" /\ WritesOf(dialect).implicitly
                                THEN "applied" ELSE server.effect]
       \/ server' = [server EXCEPT !.status = "failed"]
    /\ UNCHANGED <<dialect, call, watcher, shared, open, cancel, client, hash, made>>

TimeoutFires ==
    /\ server.status = "running" /\ call.armed
    /\ server' = [server EXCEPT !.status = "failed"]
    /\ UNCHANGED <<dialect, call, watcher, shared, open, cancel, client, hash, made>>

-----------------------------------------------------------------------------
(* The watcher: it polls until it is stopped; once it has seen the request  *)
(* it marks the call cancelled and cancels the statement at the server,     *)
(* which may fail and may come after the statement has ended.               *)

WatchOnce ==
    /\ watcher = "watching" /\ call.pc = "executing"
    /\ watcher' = IF cancel THEN "cancelling" ELSE "off"
    /\ UNCHANGED <<dialect, call, server, shared, open, cancel, client, hash, made>>

Watch ==
    /\ watcher = "watching" /\ call.pc = "executing" /\ cancel
    /\ watcher' = "cancelling"
    /\ UNCHANGED <<dialect, call, server, shared, open, cancel, client, hash, made>>

\* The look at the job's row raises: the watcher gives up without a word.
WatcherGivesUp ==
    /\ watcher = "watching" /\ call.pc = "executing"
    /\ watcher' = "blind"
    /\ UNCHANGED <<dialect, call, server, shared, open, cancel, client, hash, made>>

ServerSideCancel ==
    /\ watcher = "cancelling"
    /\ \/ /\ watcher' = "cancelled"
          /\ server' = IF server.status = "running"
                       THEN [server EXCEPT !.status = "failed"] ELSE server
       \/ watcher' = "powerless" /\ UNCHANGED server
    /\ UNCHANGED <<dialect, call, shared, open, cancel, client, hash, made>>

\* cancelled.is_set(): an error of execute() is a cancellation only then.

CancelSignalled == watcher \in {"cancelling", "cancelled", "powerless"}

\* The watcher is told to stop.  One that is cancelling is waited for, but
\* not for ever.
Stopped == IF watcher = "watching" THEN "off" ELSE watcher

ExecuteRaises ==
    /\ call.pc = "executing" /\ server.status = "failed"
    /\ Raise(IF CancelSignalled THEN "cancelled" ELSE "failed")
    /\ watcher' = Stopped
    /\ UNCHANGED <<dialect, shared, cancel, client, hash, made>>

\* A small query fetches all its rows at once; an explain of Oracle is rolled
\* back for the sake of the plan table.
ExecuteReturns ==
    /\ call.pc = "executing" /\ server.status = "finished"
    /\ watcher' = Stopped
    /\ CASE call.op = "select" ->
              call' = [call EXCEPT !.pc = "fetching"] /\ UNCHANGED <<server, open>>
         [] call.op \in WriteOps ->
              call' = [call EXCEPT !.pc = "executed"] /\ UNCHANGED <<server, open>>
         [] OTHER -> (EndCall("ok") \/ EndCall("failed")) /\ server' = RolledBack(server)
    /\ UNCHANGED <<dialect, shared, cancel, client, hash, made>>

-----------------------------------------------------------------------------
(* Writes.                                                                  *)

\* The last look at the cancellation, between the statement and its commit;
\* it reads the job's row, which may fail.
CheckWrite ==
    /\ call.pc = "executed"
    /\ \/ /\ ~cancel
          /\ call' = [call EXCEPT !.pc = "committing"] /\ UNCHANGED <<server, open>>
       \/ cancel /\ Raise("cancelled")
       \/ Raise("failed")
    /\ UNCHANGED <<dialect, watcher, shared, cancel, client, hash, made>>

\* The commit takes effect and is answered, or fails, or its answer is lost.
Commit ==
    /\ call.pc = "committing"
    /\ \/ EndCall("ok") /\ server' = [server EXCEPT !.effect = "applied", !.status = "none"]
       \/ Raise("failed")
       \/ EndCall("unknown") /\ server' = [server EXCEPT !.effect = "applied", !.status = "none"]
    /\ UNCHANGED <<dialect, watcher, shared, cancel, client, hash, made>>

-----------------------------------------------------------------------------
(* Streaming.  Before each batch the cancellation and the age of the cursor *)
(* are looked at; a batch that is delivered changes nothing here; a         *)
(* consumer that stops closes the generator.                                *)

FetchBatch ==
    /\ call.pc = "fetching"
    /\ IF cancel THEN Raise("cancelled")
       ELSE \/ Raise("timeout")
            \/ Raise("failed")
            \/ Raise("ok")
    /\ UNCHANGED <<dialect, watcher, shared, cancel, client, hash, made>>

ConsumerStops ==
    /\ call.pc = "fetching" /\ Raise("abandoned")
    /\ UNCHANGED <<dialect, watcher, shared, cancel, client, hash, made>>

CancelEventSet ==
    /\ Active /\ ~cancel /\ cancel' = TRUE
    /\ UNCHANGED <<dialect, call, server, watcher, shared, open, client, hash, made>>

-----------------------------------------------------------------------------
(* One connection for many metadata queries (DM), and the hash function of  *)
(* a compare job, probed once per adapter (Oracle and DM).                  *)

EnterScope ==
    /\ dialect = "dm" /\ ~Active /\ shared < 2 /\ made < MaxCalls
    /\ shared' = shared + 1
    /\ open' = [open EXCEPT !.shared = TRUE]
    /\ UNCHANGED <<dialect, call, server, watcher, cancel, client, hash, made>>

LeaveScope(o) == [o EXCEPT !.shared = @ /\ shared > 1]

ExitScope ==
    /\ ~Active /\ shared > 0
    /\ shared' = shared - 1
    /\ open' = LeaveScope(open)
    /\ UNCHANGED <<dialect, call, server, watcher, cancel, client, hash, made>>

\* What may come of asking for the hash function; a probe that fails for
\* whatever reason settles on the fallback.
Resolved == IF hash = "unprobed" THEN {"native", "fallback"} ELSE {hash}

HashPlan ==
    /\ dialect \in {"oracle", "dm"} /\ ~Active /\ made < MaxCalls
    /\ hash' \in Resolved /\ made' = made + 1
    /\ UNCHANGED <<dialect, call, server, watcher, shared, open, cancel, client>>

-----------------------------------------------------------------------------
AdapterInit ==
    /\ dialect \in Dialects
    /\ call = NoCall /\ server = NoStatement /\ watcher = "off" /\ shared = 0
    /\ open = [own |-> FALSE, shared |-> FALSE] /\ cancel = FALSE
    /\ client \in IF dialect = "oracle" THEN {"thin", "undecided"} ELSE {"none"}
    /\ hash = "unprobed" /\ made = 0

AdapterNext ==
    \/ \E op \in Operations : Begin(op)
    \/ ConnectCall \/ Execute \/ ServerFinishes \/ TimeoutFires
    \/ Watch \/ WatcherGivesUp \/ ServerSideCancel \/ ExecuteRaises \/ ExecuteReturns
    \/ CheckWrite \/ Commit \/ FetchBatch \/ ConsumerStops \/ CancelEventSet
    \/ EnterScope \/ ExitScope \/ HashPlan

\* The adapter's thread and the watcher keep running and a timeout that was
\* set fires.  Nothing says that the database ever finishes a statement.
AdapterFairness ==
    /\ WF_adapterVars(ExecuteRaises \/ ExecuteReturns)
    /\ WF_adapterVars(Watch) /\ WF_adapterVars(ServerSideCancel)
    /\ WF_adapterVars(TimeoutFires)

AdapterSpec == AdapterInit /\ [][AdapterNext]_adapterVars /\ AdapterFairness

-----------------------------------------------------------------------------
(* Properties.                                                              *)

\* Outcomes belong to calls that have ended, and a connection of its own to
\* one that has begun.
AdapterTypeOK ==
    /\ dialect \in Dialects /\ call.op \in Operations \union {"none"}
    /\ shared \in 0..2 /\ made \in 0..MaxCalls /\ cancel \in BOOLEAN
    /\ watcher \in {"off", "watching", "blind", "cancelling", "cancelled", "powerless"}
    /\ server.effect \in {"none", "pending", "applied"}
    /\ Active => call.outcome = "none"

\* Whatever way a call ends, its connection is closed with it, and a shared
\* connection is open exactly as long as one of its scopes.
ConnectionsReturn ==
    /\ ~Active => ~open.own
    /\ open.shared <=> shared > 0

\* What a write is reported to have done is what it did: success means it is
\* applied; cancelled or failed means it is not, unless the database commits
\* DDL by itself or the answer to the commit was lost.
WriteReportHonest ==
    ~Active /\ call.op \in WriteOps =>
        /\ call.outcome = "ok" => server.effect = "applied"
        /\ call.outcome \in {"cancelled", "failed", "connection_failed"} =>
              \/ server.effect = "none"
              \/ call.op = "ddl" /\ WritesOf(dialect).implicitly

\* A call is reported cancelled only if that was asked for: a statement
\* timeout and any other error of the database keep their own name, also
\* while the watcher runs.
OnlyAskedIsCancelled == call.outcome = "cancelled" => cancel

\* A cancel ends a statement the database would never finish, where a timeout
\* was set or a watcher is there that can read the request and reach the server.
CancelEndsStatement ==
    (/\ call.pc = "executing" /\ cancel
     /\ call.armed \/ call.op \in WritesOf(dialect).watched)
        ~> (call.pc # "executing" \/ watcher \in {"blind", "powerless"})

(* Whichever dialect, error, timeout or late cancel ends a call: its        *)
(* connection is returned, a write is reported as done only when it was     *)
(* committed, and only a call that was asked to end is called cancelled     *)
(* (the adapters' execute and write paths).                                 *)
AdapterInv ==
    /\ AdapterTypeOK
    /\ ConnectionsReturn
    /\ WriteReportHonest
    /\ OnlyAskedIsCancelled
==============================================================================
