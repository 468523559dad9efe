---------------------------- MODULE SqlWorkbench ----------------------------
(* What the SQL workbench keeps for its users: their consoles, at most so    *)
(* many each, the templates administrators offer to everyone, and the        *)
(* history of what a user ran, read from the jobs and from the statements of *)
(* console sessions (src/app/api/routes/core.py).                            *)
(*                                                                           *)
(* A handler that looks at a row before the transaction it writes in, or     *)
(* reads twice, takes two steps: nothing is locked and every query of a READ *)
(* COMMITTED transaction sees what is committed by then.  A text stands for  *)
(* its sql_hash.  Executions are numbered in the order of their time.        *)
EXTENDS Naturals, Sequences, FiniteSets, FiniteSetsExt, SequencesExt

CONSTANTS
    Owners,         \* users of the workbench
    Documents,      \* identifiers of consoles and templates
    Editors,        \* requests about consoles and templates, one at a time each
    Readers,        \* requests for the history
    SqlTexts,       \* SQL texts
    ConsoleLimit,   \* consoles of a user (20)
    HistoryWindow,  \* rows read of each kind (500)
    MaxLimit,       \* items a request for the history may ask for (100)
    MaxExecutions   \* bound: executions

ASSUME WorkbenchBounds ==
    /\ ConsoleLimit \in Nat \ {0} /\ HistoryWindow \in Nat \ {0}
    /\ MaxLimit \in Nat \ {0} /\ MaxExecutions \in Nat
    /\ IsFiniteSet(Editors) /\ IsFiniteSet(Documents)

VARIABLES
    document,  \* sql_consoles and sql_templates: the row of each identifier
    ran,       \* jobs and console_statements, oldest first
    editor,    \* where each request about documents is
    reader     \* where each request for the history is

documentVars == <<document, editor>>
historyVars == <<ran, reader>>
workbenchVars == <<documentVars, historyVars>>

NoDocument == [kind |-> "none"]
DeletedDocument == [kind |-> "deleted"]
Asking == [at |-> "ready"]
Everyone == "everyone"   \* who a template belongs to

Sources == {"job", "console_statement"}

\* A cancelled statement and one that timed out stand with the failed ones.
Ended == {"succeeded", "failed", "outcome_unknown"}
States == {"executing"} \union Ended

\* A row of jobs or of console_statements, as the history sees it.
Execution == [user : Owners, source : Sources, text : SqlTexts, state : States]

WorkbenchInit ==
    /\ document = [d \in Documents |-> NoDocument]
    /\ ran = <<>>
    /\ editor = [c \in Editors |-> Asking]
    /\ reader = [r \in Readers |-> Asking]

----------------------------------------------------------------------------
(* Consoles and templates.                                                   *)

Consoles(u) == {d \in Documents : document[d].kind = "console" /\ document[d].owner = u}

RoomForConsole(u) == Cardinality(Consoles(u)) < ConsoleLimit

\* create_sql_console: the count, and the insert in the same transaction.
CountConsoles(c, u) ==
    /\ editor[c] = Asking /\ RoomForConsole(u)
    /\ editor' = [editor EXCEPT ![c] = [at |-> "insert", user |-> u]]
    /\ UNCHANGED <<document, historyVars>>

Insert(d, row) == document[d] = NoDocument /\ document' = [document EXCEPT ![d] = row]

InsertConsole(c, d) ==
    /\ editor[c].at = "insert"
    /\ Insert(d, [kind |-> "console", owner |-> editor[c].user, by |-> editor[c].user])
    /\ editor' = [editor EXCEPT ![c] = Asking]
    /\ UNCHANGED historyVars

\* create_sql_template, by an administrator.
CreateTemplate(c, d, u) ==
    /\ editor[c] = Asking
    /\ Insert(d, [kind |-> "template", owner |-> Everyone, by |-> u])
    /\ UNCHANGED <<editor, historyVars>>

\* _console_for_current_user and, for an administrator, _template_for_read.
MayEdit(u, d) == \/ document[d].kind = "console" /\ document[d].owner = u
                 \/ document[d].kind = "template"

LookUpDocument(c, d, u) ==
    /\ editor[c] = Asking /\ MayEdit(u, d)
    /\ editor' = [editor EXCEPT ![c] = [at |-> "edit", user |-> u, id |-> d]]
    /\ UNCHANGED <<document, historyVars>>

\* The columns the body names; a row that is gone by then matches nothing, and
\* reading it back fails.
Patched(row, u) == IF row = DeletedDocument THEN row ELSE [row EXCEPT !.by = u]

\* update_sql_console, update_sql_template.
UpdateDocument(c) ==
    /\ editor[c].at = "edit"
    /\ document' = [document EXCEPT ![editor[c].id] = Patched(@, editor[c].user)]
    /\ editor' = [editor EXCEPT ![c] = Asking]
    /\ UNCHANGED historyVars

\* delete_sql_console, delete_sql_template.
DeleteDocument(c) ==
    /\ editor[c].at = "edit"
    /\ document' = [document EXCEPT ![editor[c].id] = DeletedDocument]
    /\ editor' = [editor EXCEPT ![c] = Asking]
    /\ UNCHANGED historyVars

DocumentsNext ==
    \E c \in Editors :
        \/ \E u \in Owners : CountConsoles(c, u)
        \/ \E d \in Documents : InsertConsole(c, d)
        \/ \E d \in Documents, u \in Owners : CreateTemplate(c, d, u) \/ LookUpDocument(c, d, u)
        \/ UpdateDocument(c) \/ DeleteDocument(c)

----------------------------------------------------------------------------
(* Executions and their history.                                             *)

\* A query job or a session's statement is accepted and ends.
Execute(u, source, text) ==
    /\ Len(ran) < MaxExecutions
    /\ ran' = Append(ran, [user |-> u, source |-> source, text |-> text, state |-> "executing"])
    /\ UNCHANGED <<reader, documentVars>>

\* Only a session's statement can end with an outcome nobody knows.
End(i, state) ==
    /\ i \in DOMAIN ran /\ ran[i].state = "executing"
    /\ state = "outcome_unknown" => ran[i].source = "console_statement"
    /\ ran' = [ran EXCEPT ![i].state = state]
    /\ UNCHANGED <<reader, documentVars>>

\* The newest rows of a kind, and the status each is shown with.
Newest(u, source) ==
    LET mine == {i \in DOMAIN ran : ran[i].user = u /\ ran[i].source = source}
    IN  {i \in mine : Cardinality({j \in mine : j > i}) < HistoryWindow}

StatusOf(state) ==
    CASE state = "executing" -> "running"
      [] state = "succeeded" -> "success"
      [] state = "outcome_unknown" -> "failed"
      [] OTHER -> state

Candidates(u, source) ==
    {[at |-> i, text |-> ran[i].text, status |-> StatusOf(ran[i].state)] : i \in Newest(u, source)}

\* list_sql_history: the jobs, then the statements, in two queries.
ReadJobs(r, u, limit) ==
    /\ reader[r] = Asking
    /\ reader' = [reader EXCEPT ![r] = [at |-> "statements", user |-> u, limit |-> limit,
                                        since |-> Len(ran), jobs |-> Candidates(u, "job")]]
    /\ UNCHANGED <<ran, documentVars>>

\* Mutant of MergedItems: the items in the order they were read.
ItemsAsRead(jobs, statements) ==
    SetToSortSeq(jobs, LAMBDA a, b : a.at > b.at)
    \o SetToSortSeq(statements, LAMBDA a, b : a.at > b.at)

\* The candidates of both kinds, the newest first.
MergedItems(jobs, statements) ==
    SetToSortSeq(jobs \union statements, LAMBDA a, b : a.at > b.at)

\* The first item of every text, up to the limit.
Deduplicated(items, limit) ==
    LET firsts == {i \in DOMAIN items : \A j \in 1..(i - 1) : items[j].text # items[i].text}
        kept   == {i \in firsts : Cardinality({j \in firsts : j < i}) < limit}
    IN  [n \in 1..Cardinality(kept) |->
            items[CHOOSE i \in kept : Cardinality({j \in kept : j < i}) = n - 1]]

ReadStatements(r) ==
    LET q == reader[r] IN
    /\ q.at = "statements"
    /\ reader' = [reader EXCEPT ![r] =
          [at |-> "answered", user |-> q.user, limit |-> q.limit, since |-> q.since,
           items |-> Deduplicated(MergedItems(q.jobs, Candidates(q.user, "console_statement")),
                                  q.limit)]]
    /\ UNCHANGED <<ran, documentVars>>

AnswerArrives(r) ==
    /\ reader[r].at = "answered"
    /\ reader' = [reader EXCEPT ![r] = Asking]
    /\ UNCHANGED <<ran, documentVars>>

HistoryNext ==
    \/ \E r \in Readers : \/ \E u \in Owners, limit \in 1..MaxLimit : ReadJobs(r, u, limit)
                         \/ ReadStatements(r) \/ AnswerArrives(r)
    \/ \E u \in Owners, s \in Sources, t \in SqlTexts : Execute(u, s, t)
    \/ \E i \in 1..MaxExecutions, state \in Ended : End(i, state)

WorkbenchNext == DocumentsNext \/ HistoryNext

WorkbenchSpec == WorkbenchInit /\ [][WorkbenchNext]_workbenchVars

----------------------------------------------------------------------------
(* Properties *)

WorkbenchTypeOK ==
    /\ \A d \in Documents :
          \/ document[d] \in {NoDocument, DeletedDocument}
          \/ /\ document[d].kind \in {"console", "template"}
             /\ document[d].owner \in Owners \union {Everyone} /\ document[d].by \in Owners
    /\ ran \in Seq(Execution)
    /\ \A c \in Editors : editor[c].at \in {"ready", "insert", "edit"}
    /\ \A r \in Readers : reader[r].at \in {"ready", "statements", "answered"}

\* The limit on consoles is checked by a count that locks nothing: requests
\* that count at the same time pass together, but no more than there are, so
\* a user never has as many over the limit as there are requests at a time.
ConsoleCap ==
    \A u \in Owners :
        Cardinality(Consoles(u)) + Cardinality({c \in Editors : editor[c].at = "insert"
                                                                /\ editor[c].user = u})
            < ConsoleLimit + Cardinality(Editors)

\* Nobody but its owner writes into a console, whatever became of it between
\* the look-up and the write.
OwnConsoleOnly ==
    \A d \in Documents : document[d].kind = "console" => document[d].by = document[d].owner

Answered == {r \in Readers : reader[r].at = "answered"}
Ran(u, t) == {i \in 1..Len(ran) : ran[i].user = u /\ ran[i].text = t}

\* An answer names every text once, the newest execution first, and only what
\* the user ran.
HistoryIsOrdered ==
    \A r \in Answered :
        LET items == reader[r].items IN
        /\ Len(items) <= reader[r].limit
        /\ \A i, j \in DOMAIN items : i < j => /\ items[i].text # items[j].text
                                               /\ items[i].at > items[j].at
        /\ \A i \in DOMAIN items : items[i].at \in Ran(reader[r].user, items[i].text)

Fits(u) == \A s \in Sources :
    Cardinality({i \in DOMAIN ran : ran[i].user = u /\ ran[i].source = s}) <= HistoryWindow

\* As long as the windows hold all of the user's executions, none that was
\* accepted before the request is forgotten for another one of its text: a text
\* is shown by that execution or a later one, or gives way to newer texts.
HistoryIsRecent ==
    \A r \in Answered : Fits(reader[r].user) =>
        LET items == reader[r].items
        IN  \A i \in 1..reader[r].since : ran[i].user = reader[r].user =>
                \/ \E k \in DOMAIN items : items[k].text = ran[i].text /\ items[k].at >= i
                \/ Len(items) = reader[r].limit /\ \A k \in DOMAIN items : items[k].at > i

\* What is shown as a success has succeeded, an outcome nobody knows included.
ShownAsItEnded ==
    \A r \in Answered : \A i \in DOMAIN reader[r].items :
        reader[r].items[i].status = "success" => ran[reader[r].items[i].at].state = "succeeded"

\* The cap on consoles is overrun by fewer than the concurrent requests, only
\* its owner edits a console, and the history, read from two tables in two
\* queries, shows every text by its latest execution and never shows a success
\* that was none (create_sql_console, update_sql_console, list_sql_history).
WorkbenchInv ==
    /\ WorkbenchTypeOK /\ ConsoleCap /\ OwnConsoleOnly
    /\ HistoryIsOrdered /\ HistoryIsRecent /\ ShownAsItEnded
=============================================================================
