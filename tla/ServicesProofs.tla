--------------------------- MODULE ServicesProofs ----------------------------
(***************************************************************************)
(* The services behind the studio, for any number of calls under way: a    *)
(* datasource and its password stay together (DatasourcesInv), the pages   *)
(* of a query are its answer (PagedInv), a trigger never starts two runs   *)
(* for one point or reading (TriggersInv), the stored lineage of a         *)
(* statement is one active run whose reviewed edges stay (LineageInv,      *)
(* VerdictIsFinal), and the gate in front of every route judges by the     *)
(* license row and holds its rate limit (GateInv).                         *)
(*                                                                         *)
(* None is inductive.  That a row names a secret which is there rests on   *)
(* what the calls in flight have read and will still drop; that a page     *)
(* falls behind the last one rests on where the jobs that may still write  *)
(* stand; that a trigger fires once rests on its anchor being behind every *)
(* run and check; that an edge keeps its verdict rests on who works on the *)
(* edge's run at the same time; that the cached mode is the row's rests on *)
(* the lock its reader holds.                                              *)
(***************************************************************************)
EXTENDS Datasources, PagedQuery, WorkflowTriggers, LineageStore, ApiGate,
        FiniteSetTheorems, SequenceTheorems, TLAPS

----------------------------------------------------------------------------
(* Datasources: the inductive invariant.                                     *)

\* What a call in flight is about: a create holds a datasource that is not there
\* yet and that no other call knows, the others one that was there.
CallShape(c) ==
    \/ c = IdleCall
    \/ /\ c.op = "create" /\ c.pc = "write" /\ c.source \in Sources \ {"none"}
       /\ c.new # NoRef /\ c.old = NoRef /\ ds[c.source].state = "free"
    \/ /\ c.op = "update" /\ c.source \in Sources /\ ds[c.source].state # "free"
       /\ c.new = NoRef => c.pc = "write" /\ c.old = NoRef
       /\ c.new # NoRef => c.pc \in {"write", "drop"} /\ c.old # NoRef
    \/ /\ c.op = "delete" /\ c.source \in Sources /\ ds[c.source].state # "free"
       /\ c.pc \in {"write", "drop"} /\ c.new = NoRef /\ c.old # NoRef
    \/ /\ c.op = "metadata" /\ c.source \in Sources /\ ds[c.source].state # "free"
       /\ c.pc = "write" /\ c.new = NoRef /\ c.old # NoRef

Shaped == \A q \in Calls : CallShape(call[q])

CreatesAlone ==
    \A q, p \in Calls : call[q].op = "create" /\ p # q => call[p].source # call[q].source

\* A ref is in the store before anything knows it, and two rows never share one.
RowRefs ==
    /\ \A d \in Sources : /\ ds[d].ref = NoRef <=> ds[d].state = "free"
                          /\ ds[d].ref # NoRef => secret[ds[d].ref] # "free"
    /\ \A d, e \in Sources : d # e /\ ds[d].ref # NoRef => ds[d].ref # ds[e].ref

CallRefs ==
    \A q \in Calls : /\ call[q].new # NoRef => secret[call[q].new] # "free"
                     /\ call[q].old # NoRef => secret[call[q].old] # "free"

\* A password that is stored and not yet in its row is known to one call only.
Unwritten(c) == c.pc = "write" /\ c.new # NoRef

NewRefs ==
    \A q \in Calls : Unwritten(call[q]) =>
       /\ secret[call[q].new] = "live"
       /\ \A d \in Sources : ds[d].ref # call[q].new
       /\ \A p \in Calls : call[p].old # call[q].new
       /\ \A p \in Calls : p # q => call[p].new # call[q].new

\* A password read from a row was never in another one, and when it is to be
\* dropped the row has gone or has a newer one.
OldRefs ==
    \A q \in Calls : call[q].old # NoRef =>
       /\ \A d \in Sources : d # call[q].source => ds[d].ref # call[q].old
       /\ call[q].pc = "drop" => ~Live(call[q].source) \/ ds[call[q].source].ref # call[q].old

\* As long as nothing failed or overlapped: one writer for a datasource, which
\* finds the row as it read it, and every secret has somebody to answer for it.
IsWriter(c) == c.op \in {"update", "delete"}

Owned(r) ==
    \/ \E d \in Sources : Live(d) /\ ds[d].ref = r
    \/ \E q \in Calls : \/ Unwritten(call[q]) /\ call[q].new = r
                        \/ call[q].pc = "drop" /\ call[q].old = r

Orderly ==
    ~disturbed =>
       /\ \A q, p \in Calls : IsWriter(call[q]) /\ IsWriter(call[p])
                              /\ call[q].source = call[p].source => q = p
       /\ \A q \in Calls : IsWriter(call[q]) /\ call[q].pc = "write" =>
             /\ Live(call[q].source)
             /\ call[q].old # NoRef => ds[call[q].source].ref = call[q].old
       /\ \A r \in Refs : secret[r] = "live" => Owned(r)

\* A job that was queued with no delete under way keeps its datasource.
Queued ==
    \A j \in ConnJobs :
       /\ conn[j].pc # "none" => conn[j].source \in Sources
       /\ conn[j].pc = "queued" /\ ~conn[j].raced =>
             /\ Live(conn[j].source)
             /\ \A q \in Calls : CallAt(q, "delete", "write") => call[q].source # conn[j].source

DatasourcesIInv ==
    /\ DatasourcesTypeOK /\ NoDanglingSecret /\ MissingOnlyByRace
    /\ Shaped /\ CreatesAlone /\ RowRefs /\ CallRefs /\ NewRefs /\ OldRefs
    /\ Orderly /\ Queued

\* The tables and requests, typed.
RowSet  == [state : {"free", "live", "gone"}, ref : Refs \union {NoRef}, config : 0..MaxConfig]
CallSet == [op : {"none", "create", "update", "delete", "metadata"},
            pc : {"none", "write", "drop"}, source : Sources \union {"none"},
            old : Refs \union {NoRef}, new : Refs \union {NoRef}, config : 0..MaxConfig]
ConnSet == [pc : {"none", "asked", "queued", "loaded", "open"} \union JobEnd,
            source : Sources \union {"none"}, kind : {"test", "sync"},
            ref : Refs \union {NoRef}, config : 0..MaxConfig, raced : BOOLEAN]

\* The part of the invariant that is about the rows, the secrets and the calls.
Ledger ==
    /\ NoDanglingSecret /\ Shaped /\ CreatesAlone /\ RowRefs /\ CallRefs /\ NewRefs
    /\ OldRefs /\ Orderly

LedgerTyped ==
    /\ ds \in [Sources -> RowSet] /\ secret \in [Refs -> {"free", "live", "deleted"}]
    /\ call \in [Calls -> CallSet] /\ disturbed \in BOOLEAN

----------------------------------------------------------------------------
(* The ledger of passwords.                                                  *)

\* What a step leaves of the rows as far as the ledger is concerned.
SameRows ==
    \A e \in Sources : ds'[e].state = ds[e].state /\ ds'[e].ref = ds[e].ref

\* A call that only reads a row comes in.
LEMMA EnterKeeps ==
  ASSUME LedgerTyped, LedgerTyped', Ledger, NEW q \in Calls, NEW c \in CallSet, NEW d \in Sources,
         call[q] = IdleCall, call' = [call EXCEPT ![q] = c], ds' = ds, secret' = secret,
         Live(d), c.source = d, c.pc = "write", c.new = NoRef,
         c.op = "update" => c.old = NoRef,
         c.op \in {"delete", "metadata"} => c.old = ds[d].ref,
         c.op \in {"update", "delete", "metadata"},
         disturbed' \/ (~disturbed /\ (IsWriter(c) => Writers(d) = {}))
  PROVE  Ledger'
<1> DEFINE On(p) == IF p = q THEN c ELSE call[p]
<1>1. \A p \in Calls : call'[p] = On(p)
  BY DEF LedgerTyped
<1>2. ds[d].ref # NoRef /\ ds[d].state = "live"
  BY DEF Ledger, RowRefs, Live, LedgerTyped, RowSet
<1>3. NoDanglingSecret' /\ RowRefs'
  BY DEF Ledger, NoDanglingSecret, RowRefs, Live
<1>4. Shaped'
  BY <1>1, <1>2 DEF Ledger, Shaped, CallShape, IdleCall
<1>5. CreatesAlone'
  BY <1>1, <1>2 DEF Ledger, CreatesAlone, Shaped, CallShape, IdleCall, LedgerTyped, CallSet
<1>6. CallRefs'
  BY <1>1, <1>2 DEF Ledger, CallRefs, RowRefs
<1>7. NewRefs'
  BY <1>1, <1>2 DEF Ledger, NewRefs, Unwritten
<1>8. OldRefs'
  BY <1>1, <1>2 DEF Ledger, OldRefs, RowRefs, Live
<1>9. Orderly'
  <2> SUFFICES ASSUME ~disturbed' PROVE Orderly'
    BY DEF Orderly
  <2>1. ~disturbed /\ (IsWriter(c) => Writers(d) = {})
    BY Zenon
  <2>2. ASSUME NEW p \in Calls, NEW s \in Calls, IsWriter(call'[p]), IsWriter(call'[s]),
               call'[p].source = call'[s].source
        PROVE  p = s
    BY <2>1, <2>2, <1>1 DEF Ledger, Orderly, IsWriter, Writers
  <2>3. ASSUME NEW p \in Calls, IsWriter(call'[p]), call'[p].pc = "write"
        PROVE  /\ ds'[call'[p].source].state = "live"
               /\ call'[p].old # NoRef => ds'[call'[p].source].ref = call'[p].old
    BY <2>1, <2>3, <1>1 DEF Ledger, Orderly, IsWriter, Live
  <2>4. ASSUME NEW r \in Refs, secret'[r] = "live" PROVE Owned(r)'
    <3>1. Owned(r)
      <4>1. secret[r] = "live"
        BY <2>4
      <4> QED
        BY <2>1, <4>1, Zenon DEF Ledger, Orderly
    <3>2. CASE \E e \in Sources : Live(e) /\ ds[e].ref = r
      BY <3>2 DEF Owned, Live
    <3>3. ASSUME NEW p \in Calls, \/ Unwritten(call[p]) /\ call[p].new = r
                                  \/ call[p].pc = "drop" /\ call[p].old = r
          PROVE  Owned(r)'
      <4>1. p # q
        BY <3>3 DEF IdleCall, Unwritten
      <4>2. call'[p] = call[p]
        BY <4>1, <1>1
      <4> QED
        BY <4>2, <3>3 DEF Owned, Unwritten
    <3> QED
      BY <3>1, <3>2, <3>3 DEF Owned
  <2> QED
    BY <2>2, <2>3, <2>4 DEF Orderly, Live
<1> QED
  BY <1>3, <1>4, <1>5, <1>6, <1>7, <1>8, <1>9 DEF Ledger

\* A call that stores a password comes in.
LEMMA StoreKeeps ==
  ASSUME LedgerTyped, LedgerTyped', Ledger, NEW q \in Calls, NEW c \in CallSet, NEW d \in Sources,
         NEW r \in Refs, secret[r] = "free", secret' = [secret EXCEPT ![r] = "live"],
         call[q] = IdleCall, call' = [call EXCEPT ![q] = c], ds' = ds,
         c.source = d, c.pc = "write", c.new = r,
         \/ /\ c.op = "create" /\ c.old = NoRef /\ ds[d].state = "free"
            /\ \A p \in Calls : call[p].source # d
         \/ c.op = "update" /\ c.old = ds[d].ref /\ Live(d),
         disturbed' \/ (~disturbed /\ (IsWriter(c) => Writers(d) = {}))
  PROVE  Ledger'
<1> DEFINE On(p) == IF p = q THEN c ELSE call[p]
<1>1. \A p \in Calls : call'[p] = On(p)
  BY DEF LedgerTyped
<1>2. \A s \in Refs : secret'[s] = IF s = r THEN "live" ELSE secret[s]
  BY DEF LedgerTyped
<1>3. r # NoRef
  BY DEF Refs, NoRef
<1>4. \A e \in Sources : ds[e].ref # r /\ ds[e].ref \in Refs \union {NoRef}
  BY <1>3 DEF Ledger, RowRefs, LedgerTyped, RowSet
<1>5. \A p \in Calls : /\ call[p].old # r /\ call[p].new # r
                       /\ call[p].old \in Refs \union {NoRef} /\ call[p].new \in Refs \union {NoRef}
  BY <1>3 DEF Ledger, CallRefs, LedgerTyped, CallSet
<1>6. c.op = "update" => ds[d].ref # NoRef /\ ds[d].state = "live"
  BY DEF Ledger, RowRefs, Live
<1>7. NoDanglingSecret' /\ RowRefs'
  BY <1>2, <1>4 DEF Ledger, NoDanglingSecret, RowRefs, Live, NoRef
<1>8. Shaped'
  BY <1>1, <1>3, <1>6 DEF Ledger, Shaped, CallShape, IdleCall
<1>9. CreatesAlone'
  BY <1>1, <1>6 DEF Ledger, CreatesAlone, Shaped, CallShape, IdleCall
<1>10. CallRefs'
  BY <1>1, <1>2, <1>3, <1>4, <1>5, <1>6 DEF Ledger, CallRefs, RowRefs
<1>11. NewRefs'
  BY <1>1, <1>2, <1>3, <1>4, <1>5 DEF Ledger, NewRefs, Unwritten
<1>12. OldRefs'
  BY <1>1, <1>6 DEF Ledger, OldRefs, RowRefs, Live
<1>13. Orderly'
  <2> SUFFICES ASSUME ~disturbed' PROVE Orderly'
    BY DEF Orderly
  <2>1. ~disturbed /\ (IsWriter(c) => Writers(d) = {})
    BY Zenon
  <2>2. ASSUME NEW p \in Calls, NEW s \in Calls, IsWriter(call'[p]), IsWriter(call'[s]),
               call'[p].source = call'[s].source
        PROVE  p = s
    BY <2>1, <2>2, <1>1 DEF Ledger, Orderly, IsWriter, Writers
  <2>3. ASSUME NEW p \in Calls, IsWriter(call'[p]), call'[p].pc = "write"
        PROVE  /\ ds'[call'[p].source].state = "live"
               /\ call'[p].old # NoRef => ds'[call'[p].source].ref = call'[p].old
    BY <2>1, <2>3, <1>1, <1>6 DEF Ledger, Orderly, IsWriter, Live
  <2>4. ASSUME NEW s \in Refs, secret'[s] = "live" PROVE Owned(s)'
    <3>1. CASE s = r
      <4>1. call'[q] = c /\ Unwritten(c)
        BY <1>1, <1>3 DEF Unwritten
      <4> QED
        BY <3>1, <4>1 DEF Owned, Unwritten
    <3>2. CASE s # r
      <4>1. secret[s] = "live"
        BY <2>4, <3>2, <1>2
      <4>2. Owned(s)
        BY <2>1, <4>1, Zenon DEF Ledger, Orderly
      <4>3. CASE \E e \in Sources : Live(e) /\ ds[e].ref = s
        BY <4>3 DEF Owned, Live
      <4>4. ASSUME NEW p \in Calls, \/ Unwritten(call[p]) /\ call[p].new = s
                                    \/ call[p].pc = "drop" /\ call[p].old = s
            PROVE  Owned(s)'
        <5>1. p # q
          BY <4>4 DEF IdleCall, Unwritten
        <5>2. call'[p] = call[p]
          BY <5>1, <1>1
        <5> QED
          BY <5>2, <4>4 DEF Owned, Unwritten
      <4> QED
        BY <4>2, <4>3, <4>4 DEF Owned
    <3> QED
      BY <3>1, <3>2
  <2> QED
    BY <2>2, <2>3, <2>4 DEF Orderly, Live
<1> QED
  BY <1>7, <1>8, <1>9, <1>10, <1>11, <1>12, <1>13 DEF Ledger

\* A call goes that has nothing in the store to answer for, or is given up.
LEMMA LeaveKeeps ==
  ASSUME LedgerTyped, LedgerTyped', Ledger, NEW q \in Calls,
         call' = [call EXCEPT ![q] = IdleCall], SameRows, secret' = secret,
         \/ disturbed'
         \/ ~disturbed /\ ~Unwritten(call[q]) /\ call[q].pc # "drop"
  PROVE  Ledger'
<1> DEFINE On(p) == IF p = q THEN IdleCall ELSE call[p]
<1>1. \A p \in Calls : call'[p] = On(p)
  BY DEF LedgerTyped
<1>2. \A e \in Sources : ds'[e].state = ds[e].state /\ ds'[e].ref = ds[e].ref
  BY DEF SameRows
<1>3. NoDanglingSecret' /\ RowRefs'
  BY <1>2 DEF Ledger, NoDanglingSecret, RowRefs, Live
<1>4. Shaped'
  BY <1>1, <1>2 DEF Ledger, Shaped, CallShape
<1>5. CreatesAlone'
  <2>1. \A p \in Calls : call[p].op = "create" => call[p].source # "none"
    BY DEF Ledger, Shaped, CallShape, IdleCall
  <2> QED
    BY <1>1, <2>1 DEF Ledger, CreatesAlone, IdleCall
<1>6. CallRefs'
  BY <1>1 DEF Ledger, CallRefs, IdleCall
<1>7. NewRefs'
  BY <1>1, <1>2 DEF Ledger, NewRefs, Unwritten, IdleCall
<1>8. OldRefs'
  BY <1>1, <1>2 DEF Ledger, OldRefs, Live, Shaped, CallShape, IdleCall
<1>9. Orderly'
  <2> SUFFICES ASSUME ~disturbed' PROVE Orderly'
    BY DEF Orderly
  <2>1. ~disturbed /\ ~Unwritten(call[q]) /\ call[q].pc # "drop"
    BY Zenon
  <2>2. ASSUME NEW p \in Calls, NEW s \in Calls, IsWriter(call'[p]), IsWriter(call'[s]),
               call'[p].source = call'[s].source
        PROVE  p = s
    BY <2>1, <2>2, <1>1 DEF Ledger, Orderly, IsWriter, IdleCall
  <2>3. ASSUME NEW p \in Calls, IsWriter(call'[p]), call'[p].pc = "write"
        PROVE  /\ ds'[call'[p].source].state = "live"
               /\ call'[p].old # NoRef => ds'[call'[p].source].ref = call'[p].old
    BY <2>1, <2>3, <1>1, <1>2 DEF Ledger, Orderly, IsWriter, Live, IdleCall, Shaped, CallShape
  <2>4. ASSUME NEW r \in Refs, secret'[r] = "live" PROVE Owned(r)'
    <3>1. Owned(r)
      <4>1. secret[r] = "live"
        BY <2>4
      <4> QED
        BY <2>1, <4>1, Zenon DEF Ledger, Orderly
    <3>2. CASE \E e \in Sources : Live(e) /\ ds[e].ref = r
      BY <3>2, <1>2 DEF Owned, Live
    <3>3. ASSUME NEW p \in Calls, \/ Unwritten(call[p]) /\ call[p].new = r
                                  \/ call[p].pc = "drop" /\ call[p].old = r
          PROVE  Owned(r)'
      <4>1. call'[p] = call[p]
        BY <2>1, <3>3, <1>1
      <4> QED
        BY <4>1, <3>3 DEF Owned, Unwritten
    <3> QED
      BY <3>1, <3>2, <3>3 DEF Owned
  <2> QED
    BY <2>2, <2>3, <2>4 DEF Orderly, Live
<1> QED
  BY <1>3, <1>4, <1>5, <1>6, <1>7, <1>8, <1>9 DEF Ledger

\* A stored password is written into its row.
LEMMA WriteKeeps ==
  ASSUME LedgerTyped, LedgerTyped', Ledger, NEW q \in Calls, NEW c \in CallSet, NEW d \in Sources,
         d = call[q].source, Unwritten(call[q]), call' = [call EXCEPT ![q] = c],
         \/ call[q].op = "create" /\ c = IdleCall
         \/ /\ call[q].op = "update" /\ c.op = "update" /\ c.pc = "drop" /\ c.source = d
            /\ c.old = call[q].old /\ c.new = call[q].new /\ Live(d),
         \A e \in Sources : /\ ds'[e].state = IF e = d THEN "live" ELSE ds[e].state
                            /\ ds'[e].ref = IF e = d THEN call[q].new ELSE ds[e].ref,
         secret' = secret, disturbed' = disturbed
  PROVE  Ledger'
<1> DEFINE On(p) == IF p = q THEN c ELSE call[p]
<1> DEFINE n == call[q].new
<1>1. \A p \in Calls : call'[p] = On(p)
  BY DEF LedgerTyped
<1>2. /\ n # NoRef /\ secret[n] = "live"
      /\ \A e \in Sources : ds[e].ref # n
      /\ \A p \in Calls : call[p].old # n /\ (p # q => call[p].new # n)
  BY DEF Ledger, NewRefs, Unwritten
<1>3. \A e \in Sources : /\ ds'[e].state = IF e = d THEN "live" ELSE ds[e].state
                         /\ ds'[e].ref = IF e = d THEN n ELSE ds[e].ref
  OBVIOUS
<1>4. /\ call[q].op = "create" => \A p \in Calls \ {q} : call[p].source # d
      /\ c.op \in {"none", "update"}
      /\ c.op = "none" => c = IdleCall
  BY DEF Ledger, CreatesAlone, IdleCall
<1> HIDE DEF n
<1>5. NoDanglingSecret' /\ RowRefs'
  BY <1>2, <1>3 DEF Ledger, NoDanglingSecret, RowRefs, Live
<1>6. Shaped'
  <2> SUFFICES ASSUME NEW p \in Calls PROVE CallShape(call[p])'
    BY DEF Shaped
  <2>1. CASE p = q
    <3>1. CallShape(call[q])
      BY DEF Ledger, Shaped
    <3> QED
      BY <2>1, <3>1, <1>1, <1>2, <1>3, <1>4 DEF CallShape, IdleCall, n
  <2>2. CASE p # q
    <3>1. CallShape(call[p]) /\ call'[p] = call[p]
      BY <2>2, <1>1 DEF Ledger, Shaped
    <3>2. call[p].op = "create" => call[p].source # d
      BY <2>2 DEF Ledger, CreatesAlone
    <3> QED
      BY <3>1, <3>2, <1>3 DEF CallShape, IdleCall
  <2> QED
    BY <2>1, <2>2
<1>7. CreatesAlone'
  <2>1. \A p \in Calls : call[p].op = "create" => call[p].source # "none"
    BY DEF Ledger, Shaped, CallShape, IdleCall
  <2> QED
    BY <1>1, <1>4, <2>1 DEF Ledger, CreatesAlone, IdleCall
<1>8. CallRefs'
  BY <1>1, <1>2, <1>4 DEF Ledger, CallRefs, IdleCall, n
<1>9. NewRefs'
  BY <1>1, <1>2, <1>3, <1>4 DEF Ledger, NewRefs, Unwritten, IdleCall, n
<1>10. OldRefs'
  <2> SUFFICES ASSUME NEW p \in Calls, call'[p].old # NoRef
               PROVE  /\ \A e \in Sources : e # call'[p].source => ds'[e].ref # call'[p].old
                      /\ call'[p].pc = "drop" => \/ ds'[call'[p].source].state # "live"
                                                 \/ ds'[call'[p].source].ref # call'[p].old
    BY DEF OldRefs, Live
  <2>1. call'[p].old = call[p].old /\ call'[p].source = call[p].source
    BY <1>1, <1>4 DEF IdleCall
  <2>2. call[p].old # n /\ call[p].source \in Sources
    BY <1>2, <2>1 DEF Ledger, Shaped, CallShape, IdleCall
  <2>3. call'[p].pc = "drop" => call[p].pc = "drop" \/ call[p].source = d
    BY <1>1
  <2> QED
    BY <2>1, <2>2, <2>3, <1>3 DEF Ledger, OldRefs, Live
<1>11. Orderly'
  <2> SUFFICES ASSUME ~disturbed' PROVE Orderly'
    BY DEF Orderly
  <2>1. ~disturbed
    BY Zenon
  <2>2. ASSUME NEW p \in Calls, NEW s \in Calls, IsWriter(call'[p]), IsWriter(call'[s]),
               call'[p].source = call'[s].source
        PROVE  p = s
    <3>1. /\ IsWriter(call[p]) /\ call[p].source = call'[p].source
          /\ IsWriter(call[s]) /\ call[s].source = call'[s].source
      BY <2>2, <1>1, <1>4 DEF IsWriter, IdleCall
    <3> QED
      BY <2>1, <2>2, <3>1 DEF Ledger, Orderly
  <2>3. ASSUME NEW p \in Calls, IsWriter(call'[p]), call'[p].pc = "write"
        PROVE  /\ ds'[call'[p].source].state = "live"
               /\ call'[p].old # NoRef => ds'[call'[p].source].ref = call'[p].old
    <3>1. p # q /\ call'[p] = call[p] /\ call[p].source \in Sources
      BY <2>3, <1>1, <1>4 DEF IsWriter, IdleCall, Ledger, Shaped, CallShape
    <3>2. call[p].source # d
      BY <2>1, <2>3, <3>1, <1>4 DEF Ledger, Orderly, IsWriter
    <3> QED
      BY <2>1, <2>3, <3>1, <3>2, <1>3 DEF Ledger, Orderly, Live
  <2>4. ASSUME NEW r \in Refs, secret'[r] = "live" PROVE Owned(r)'
    <3>1. Owned(r)
      <4>1. secret[r] = "live"
        BY <2>4
      <4> QED
        BY <2>1, <4>1, Zenon DEF Ledger, Orderly
    <3>2. CASE r = n
      BY <3>2, <1>3 DEF Owned, Live
    <3>3. ASSUME NEW e \in Sources, Live(e), ds[e].ref = r PROVE Owned(r)'
      <4>1. CASE e # d
        BY <4>1, <3>3, <1>3 DEF Owned, Live
      <4>2. CASE e = d
        <5>1. call[q].op = "update" /\ call[q].old = r
          <6>1. call[q].op = "update"
            BY <4>2, <3>3 DEF Ledger, Shaped, CallShape, Live, Unwritten, IdleCall
          <6>2. call[q].old # NoRef
            BY <6>1 DEF Ledger, Shaped, CallShape, Unwritten, IdleCall
          <6> QED
            BY <6>1, <6>2, <4>2, <3>3, <2>1 DEF Ledger, Orderly, IsWriter, Unwritten
        <5>2. call'[q].pc = "drop" /\ call'[q].old = r
          BY <5>1, <1>1
        <5> QED
          BY <5>2 DEF Owned
      <4> QED
        BY <4>1, <4>2
    <3>4. ASSUME NEW p \in Calls, r # n, \/ Unwritten(call[p]) /\ call[p].new = r
                                         \/ call[p].pc = "drop" /\ call[p].old = r
          PROVE  Owned(r)'
      <4>1. p # q
        BY <3>4 DEF Unwritten, n
      <4>2. call'[p] = call[p]
        BY <4>1, <1>1
      <4> QED
        BY <4>2, <3>4 DEF Owned, Unwritten
    <3> QED
      BY <3>1, <3>2, <3>3, <3>4 DEF Owned
  <2> QED
    BY <2>2, <2>3, <2>4 DEF Orderly, Live
<1> QED
  BY <1>5, <1>6, <1>7, <1>8, <1>9, <1>10, <1>11 DEF Ledger

\* A row goes, or is found gone, and the call has its password to drop.
LEMMA GoneKeeps ==
  ASSUME LedgerTyped, LedgerTyped', Ledger, NEW q \in Calls, NEW c \in CallSet, NEW d \in Sources,
         d = call[q].source, call[q].pc = "write", call[q].old # NoRef,
         \/ call[q].op = "delete"
         \/ call[q].op = "update" /\ ~Live(d),
         call' = [call EXCEPT ![q] = c],
         c.op = call[q].op, c.pc = "drop", c.source = d,
         c.old = call[q].old, c.new = call[q].new,
         \A e \in Sources : /\ ds'[e].state = IF e = d THEN "gone" ELSE ds[e].state
                            /\ ds'[e].ref = ds[e].ref,
         secret' = secret, disturbed' = disturbed
  PROVE  Ledger'
<1> DEFINE On(p) == IF p = q THEN c ELSE call[p]
<1>1. \A p \in Calls : call'[p] = On(p)
  BY DEF LedgerTyped
<1>2. \A e \in Sources : /\ ds'[e].state = IF e = d THEN "gone" ELSE ds[e].state
                         /\ ds'[e].ref = ds[e].ref
  OBVIOUS
<1>3. ds[d].state # "free"
  BY DEF Ledger, Shaped, CallShape, IdleCall
<1>4. \A p \in Calls : /\ call'[p].op = call[p].op /\ call'[p].source = call[p].source
                       /\ call'[p].old = call[p].old /\ call'[p].new = call[p].new
                       /\ call'[p].pc = IF p = q THEN "drop" ELSE call[p].pc
  BY <1>1
<1>5. NoDanglingSecret' /\ RowRefs'
  BY <1>2, <1>3 DEF Ledger, NoDanglingSecret, RowRefs, Live
<1>6. Shaped'
  <2> SUFFICES ASSUME NEW p \in Calls PROVE CallShape(call[p])'
    BY DEF Shaped
  <2>1. CASE p = q
    <3>1. CallShape(call[q])
      BY DEF Ledger, Shaped
    <3> QED
      BY <2>1, <3>1, <1>4, <1>2, <1>3 DEF CallShape, IdleCall
  <2>2. CASE p # q
    <3>1. CallShape(call[p]) /\ call'[p] = call[p]
      BY <2>2, <1>1 DEF Ledger, Shaped
    <3> QED
      BY <3>1, <1>2, <1>3 DEF CallShape, IdleCall
  <2> QED
    BY <2>1, <2>2
<1>7. CreatesAlone'
  BY <1>4 DEF Ledger, CreatesAlone
<1>8. CallRefs'
  BY <1>4 DEF Ledger, CallRefs
<1>9. NewRefs'
  BY <1>4, <1>2 DEF Ledger, NewRefs, Unwritten
<1>10. OldRefs'
  <2>1. \A p \in Calls : call[p].old # NoRef => call[p].source \in Sources
    BY DEF Ledger, Shaped, CallShape, IdleCall
  <2> QED
    BY <1>4, <1>2, <2>1 DEF Ledger, OldRefs, Live
<1>11. Orderly'
  <2> SUFFICES ASSUME ~disturbed' PROVE Orderly'
    BY DEF Orderly
  <2>1. ~disturbed
    BY Zenon
  <2>2. ASSUME NEW p \in Calls, NEW s \in Calls, IsWriter(call'[p]), IsWriter(call'[s]),
               call'[p].source = call'[s].source
        PROVE  p = s
    BY <2>1, <2>2, <1>4 DEF Ledger, Orderly, IsWriter
  <2>3. ASSUME NEW p \in Calls, IsWriter(call'[p]), call'[p].pc = "write"
        PROVE  /\ ds'[call'[p].source].state = "live"
               /\ call'[p].old # NoRef => ds'[call'[p].source].ref = call'[p].old
    <3>1. p # q /\ call'[p] = call[p] /\ call[p].source \in Sources
      BY <2>3, <1>1 DEF IsWriter, IdleCall, Ledger, Shaped, CallShape
    <3>2. call[p].source # d
      BY <2>1, <2>3, <3>1 DEF Ledger, Orderly, IsWriter
    <3> QED
      BY <2>1, <2>3, <3>1, <3>2, <1>2 DEF Ledger, Orderly, Live
  <2>4. ASSUME NEW r \in Refs, secret'[r] = "live" PROVE Owned(r)'
    <3>1. Owned(r)
      <4>1. secret[r] = "live"
        BY <2>4
      <4> QED
        BY <2>1, <4>1, Zenon DEF Ledger, Orderly
    <3>2. call[q].op = "delete" /\ ds[d].ref = call[q].old
      BY <2>1 DEF Ledger, Orderly, IsWriter
    <3>3. ASSUME NEW e \in Sources, Live(e), ds[e].ref = r PROVE Owned(r)'
      <4>1. CASE e # d
        BY <4>1, <3>3, <1>2 DEF Owned, Live
      <4>2. CASE e = d
        <5>1. call'[q].pc = "drop" /\ call'[q].old = r
          BY <4>2, <3>2, <3>3, <1>4
        <5> QED
          BY <5>1 DEF Owned
      <4> QED
        BY <4>1, <4>2
    <3>4. ASSUME NEW p \in Calls, \/ Unwritten(call[p]) /\ call[p].new = r
                                  \/ call[p].pc = "drop" /\ call[p].old = r
          PROVE  Owned(r)'
      <4>1. p # q
        BY <3>4, <3>2 DEF Unwritten, Ledger, Shaped, CallShape, IdleCall
      <4>2. call'[p] = call[p]
        BY <4>1, <1>1
      <4> QED
        BY <4>2, <3>4 DEF Owned, Unwritten
    <3> QED
      BY <3>1, <3>3, <3>4 DEF Owned
  <2> QED
    BY <2>2, <2>3, <2>4 DEF Orderly, Live
<1> QED
  BY <1>5, <1>6, <1>7, <1>8, <1>9, <1>10, <1>11 DEF Ledger

\* A call drops the password it replaced or the one of the row it deleted.
LEMMA DropKeeps ==
  ASSUME LedgerTyped, LedgerTyped', Ledger, NEW q \in Calls, call[q].pc = "drop",
         call' = [call EXCEPT ![q] = IdleCall], ds' = ds, disturbed' = disturbed,
         secret' = [secret EXCEPT ![call[q].old] = "deleted"]
  PROVE  Ledger'
<1> DEFINE On(p) == IF p = q THEN IdleCall ELSE call[p]
<1> DEFINE o == call[q].old
<1>1. \A p \in Calls : call'[p] = On(p)
  BY DEF LedgerTyped
<1>2. /\ o \in Refs /\ call[q].source \in Sources
      /\ IsWriter(call[q])
  BY DEF Ledger, Shaped, CallShape, IdleCall, LedgerTyped, CallSet, IsWriter
<1>3. \A s \in Refs : secret'[s] = IF s = o THEN "deleted" ELSE secret[s]
  BY DEF LedgerTyped
<1>4. /\ \A e \in Sources : Live(e) => ds[e].ref # o
      /\ \A p \in Calls : Unwritten(call[p]) => call[p].new # o
  <2>1. o # NoRef
    BY <1>2 DEF Refs, NoRef
  <2>2. \A e \in Sources : Live(e) => ds[e].ref # o
    BY <2>1, <1>2 DEF Ledger, OldRefs
  <2> QED
    BY <2>2 DEF Ledger, NewRefs
<1>5. /\ \A e \in Sources : ds[e].ref \in Refs \union {NoRef}
      /\ \A p \in Calls : call[p].old \in Refs \union {NoRef} /\ call[p].new \in Refs \union {NoRef}
  BY DEF LedgerTyped, RowSet, CallSet
<1> HIDE DEF o
<1>6. NoDanglingSecret'
  <2> SUFFICES ASSUME NEW e \in Sources, Live(e) PROVE secret'[ds[e].ref] = "live"
    BY DEF NoDanglingSecret, Live
  <2>1. ds[e].ref \in Refs /\ ds[e].ref # o
    BY <1>4, <1>5 DEF Ledger, RowRefs, Live
  <2> QED
    BY <2>1, <1>3 DEF Ledger, NoDanglingSecret
<1>7. RowRefs'
  BY <1>3, <1>5 DEF Ledger, RowRefs
<1>8. Shaped'
  BY <1>1 DEF Ledger, Shaped, CallShape
<1>9. CreatesAlone'
  <2>1. \A p \in Calls : call[p].op = "create" => call[p].source # "none"
    BY DEF Ledger, Shaped, CallShape, IdleCall
  <2> QED
    BY <1>1, <2>1 DEF Ledger, CreatesAlone, IdleCall
<1>10. CallRefs'
  BY <1>1, <1>3, <1>5 DEF Ledger, CallRefs, IdleCall
<1>11. NewRefs'
  BY <1>1, <1>3, <1>4, <1>5 DEF Ledger, NewRefs, Unwritten, IdleCall
<1>12. OldRefs'
  BY <1>1 DEF Ledger, OldRefs, Live, IdleCall
<1>13. Orderly'
  <2> SUFFICES ASSUME ~disturbed' PROVE Orderly'
    BY DEF Orderly
  <2>1. ~disturbed
    BY Zenon
  <2>2. ASSUME NEW p \in Calls, NEW s \in Calls, IsWriter(call'[p]), IsWriter(call'[s]),
               call'[p].source = call'[s].source
        PROVE  p = s
    BY <2>1, <2>2, <1>1 DEF Ledger, Orderly, IsWriter, IdleCall
  <2>3. ASSUME NEW p \in Calls, IsWriter(call'[p]), call'[p].pc = "write"
        PROVE  /\ ds'[call'[p].source].state = "live"
               /\ call'[p].old # NoRef => ds'[call'[p].source].ref = call'[p].old
    BY <2>1, <2>3, <1>1 DEF Ledger, Orderly, IsWriter, Live, IdleCall
  <2>4. ASSUME NEW r \in Refs, secret'[r] = "live" PROVE Owned(r)'
    <3>1. r # o /\ secret[r] = "live"
      BY <2>4, <1>3
    <3>2. Owned(r)
      BY <2>1, <3>1, Zenon DEF Ledger, Orderly
    <3>3. CASE \E e \in Sources : Live(e) /\ ds[e].ref = r
      BY <3>3 DEF Owned, Live
    <3>4. ASSUME NEW p \in Calls, \/ Unwritten(call[p]) /\ call[p].new = r
                                  \/ call[p].pc = "drop" /\ call[p].old = r
          PROVE  Owned(r)'
      <4>1. p # q
        BY <3>1, <3>4 DEF Unwritten, o
      <4>2. call'[p] = call[p]
        BY <4>1, <1>1
      <4> QED
        BY <4>2, <3>4 DEF Owned, Unwritten
    <3> QED
      BY <3>2, <3>3, <3>4 DEF Owned
  <2> QED
    BY <2>2, <2>3, <2>4 DEF Orderly, Live
<1> QED
  BY <1>6, <1>7, <1>8, <1>9, <1>10, <1>11, <1>12, <1>13 DEF Ledger

----------------------------------------------------------------------------
(* Every step keeps the invariant.                                           *)

\* The rest of the state: the jobs, the cache and who refers to a datasource.
RestTyped ==
    /\ conn \in [ConnJobs -> ConnSet]
    /\ metadata \in [Sources -> {NoMetadata} \union (0..MaxConfig)]
    /\ refTask \in [Sources -> BOOLEAN]
    /\ deaths \in 0..MaxDeaths
    /\ \A d \in Sources : ds[d].state # "live" => metadata[d] = NoMetadata /\ ~refTask[d]

Jobs == Queued /\ MissingOnlyByRace

LEMMA IInvParts ==
  /\ DatasourcesTypeOK <=> LedgerTyped /\ RestTyped
  /\ DatasourcesIInv <=> LedgerTyped /\ RestTyped /\ Ledger /\ Jobs
<1>1. DatasourcesTypeOK <=> LedgerTyped /\ RestTyped
  BY Zenon DEF DatasourcesTypeOK, LedgerTyped, RestTyped, RowSet, CallSet, ConnSet
<1>2. DatasourcesIInv <=> DatasourcesTypeOK /\ Ledger /\ Jobs
  BY Zenon DEF DatasourcesIInv, Ledger, Jobs
<1> QED
  BY <1>1, <1>2, Zenon

\* The jobs do not mind a call that neither deletes a row nor is about to.
LEMMA JobsKept ==
  ASSUME Jobs, conn' = conn, NEW q \in Calls, LedgerTyped,
         NEW c, call' = [call EXCEPT ![q] = c],
         \A d \in Sources : Live(d) => ds'[d].state = "live",
         ~(c.op = "delete" /\ c.pc = "write")
  PROVE  Jobs'
<1>1. \A p \in Calls : call'[p] = IF p = q THEN c ELSE call[p]
  BY DEF LedgerTyped
<1>2. Queued'
  BY <1>1 DEF Jobs, Queued, CallAt, Live
<1>3. MissingOnlyByRace'
  BY DEF Jobs, MissingOnlyByRace
<1> QED
  BY <1>2, <1>3 DEF Jobs

\* A request as it comes in.
LEMMA RequestIs ==
  ASSUME NEW op \in {"create", "update", "delete", "metadata"}, NEW d \in Sources,
         NEW o \in Refs \union {NoRef}, NEW r \in Refs \union {NoRef}, NEW n \in 0..MaxConfig
  PROVE  /\ Request(op, d, o, r, n) \in CallSet
         /\ Request(op, d, o, r, n).op = op /\ Request(op, d, o, r, n).pc = "write"
         /\ Request(op, d, o, r, n).source = d /\ Request(op, d, o, r, n).old = o
         /\ Request(op, d, o, r, n).new = r
BY DEF CallSet, Request

LEMMA CreateStoreKeeps ==
  ASSUME LedgerTyped, RestTyped, Ledger, Jobs, NEW q \in Calls, NEW d \in Sources,
         CreateStore(q, d)
  PROVE  LedgerTyped' /\ RestTyped' /\ Ledger' /\ Jobs'
<1>1. PICK r \in Refs : /\ StoreSecret(r)
                        /\ call' = [call EXCEPT ![q] = Request("create", d, NoRef, r, 0)]
  BY DEF CreateStore
<1>2. PICK c \in CallSet : /\ call' = [call EXCEPT ![q] = c]
                           /\ c.op = "create" /\ c.pc = "write" /\ c.source = d
                           /\ c.new = r /\ c.old = NoRef
  <2>1. 0 \in 0..MaxConfig
    BY DatasourceBounds
  <2> DEFINE e == Request("create", d, NoRef, r, 0)
  <2>2. /\ e \in CallSet /\ e.op = "create" /\ e.pc = "write" /\ e.source = d
        /\ e.new = r /\ e.old = NoRef
    BY <2>1, RequestIs
  <2> QED
    BY <1>1, <2>2, Zenon
<1>3. /\ call[q] = IdleCall /\ ds[d].state = "free" /\ \A p \in Calls : call[p].source # d
      /\ ds' = ds /\ conn' = conn /\ metadata' = metadata /\ refTask' = refTask
      /\ deaths' = deaths
  BY DEF CreateStore
<1>4. disturbed' = disturbed
  BY DEF CreateStore
<1>5. secret[r] = "free" /\ secret' = [secret EXCEPT ![r] = "live"]
  BY <1>1 DEF StoreSecret
<1>6. LedgerTyped'
  <2>1. call' \in [Calls -> CallSet] /\ ds' \in [Sources -> RowSet]
    BY <1>2, <1>3 DEF LedgerTyped
  <2>2. secret' \in [Refs -> {"free", "live", "deleted"}]
    BY <1>5 DEF LedgerTyped
  <2>3. disturbed' \in BOOLEAN
    BY <1>4 DEF LedgerTyped
  <2> QED
    BY <2>1, <2>2, <2>3 DEF LedgerTyped
<1>7. RestTyped'
  BY <1>3 DEF RestTyped
<1>8. disturbed' \/ (~disturbed /\ (IsWriter(c) => Writers(d) = {}))
  <2>1. ~IsWriter(c)
    BY <1>2 DEF IsWriter
  <2> QED
    BY <2>1, <1>4, Zenon DEF LedgerTyped
<1>9. Ledger'
  BY <1>2, <1>3, <1>5, <1>6, <1>8, StoreKeeps
<1>10. Jobs'
  BY <1>2, <1>3, JobsKept DEF Live
<1> QED
  BY <1>6, <1>7, <1>9, <1>10

LEMMA CreateInsertKeeps ==
  ASSUME LedgerTyped, RestTyped, Ledger, Jobs, NEW q \in Calls, CreateInsert(q)
  PROVE  LedgerTyped' /\ RestTyped' /\ Ledger' /\ Jobs'
<1> DEFINE d == call[q].source
<1>1. IdleCall \in CallSet
  BY DatasourceBounds DEF IdleCall, CallSet
<1>2. /\ call[q].op = "create" /\ call[q].pc = "write" /\ d \in Sources
      /\ call[q].new # NoRef /\ call[q].new \in Refs \union {NoRef} /\ ds[d].state = "free"
  BY DEF CreateInsert, CallAt, Ledger, Shaped, CallShape, IdleCall, LedgerTyped, CallSet
<1>3. /\ call' = [call EXCEPT ![q] = IdleCall]
      /\ secret' = secret /\ conn' = conn /\ metadata' = metadata /\ refTask' = refTask
      /\ deaths' = deaths
  BY DEF CreateInsert, Finish
<1>4. CASE /\ ds' = [ds EXCEPT ![d] = [state |-> "live", ref |-> call[q].new, config |-> 0]]
           /\ disturbed' = disturbed
  <2>1. [state |-> "live", ref |-> call[q].new, config |-> 0] \in RowSet
    BY <1>2, DatasourceBounds DEF RowSet
  <2>2. \A e \in Sources : /\ ds'[e].state = IF e = d THEN "live" ELSE ds[e].state
                           /\ ds'[e].ref = IF e = d THEN call[q].new ELSE ds[e].ref
    BY <1>4, <1>2 DEF LedgerTyped
  <2>3. LedgerTyped'
    <3>1. call' \in [Calls -> CallSet] /\ ds' \in [Sources -> RowSet]
      BY <1>1, <1>2, <1>3, <1>4, <2>1 DEF LedgerTyped
    <3> QED
      BY <3>1, <1>3, <1>4, Zenon DEF LedgerTyped
  <2>4. RestTyped'
    BY <1>2, <1>3, <2>2 DEF RestTyped
  <2>5. Ledger'
    <3>1. Unwritten(call[q])
      BY <1>2 DEF Unwritten
    <3> HIDE DEF d
    <3>2. d \in Sources /\ d = call[q].source
      BY <1>2 DEF d
    <3> QED
      BY <1>1, <1>2, <1>3, <1>4, <2>2, <2>3, <3>1, <3>2, WriteKeeps
  <2>6. Jobs'
    BY <1>3, <2>2, JobsKept DEF Live, IdleCall
  <2> QED
    BY <2>3, <2>4, <2>5, <2>6
<1>5. CASE ds' = ds /\ disturbed' = TRUE
  <2>1. LedgerTyped'
    BY <1>1, <1>3, <1>5 DEF LedgerTyped
  <2>2. RestTyped'
    BY <1>3, <1>5 DEF RestTyped
  <2>3. Ledger'
    BY <1>3, <1>5, <2>1, LeaveKeeps DEF SameRows
  <2>4. Jobs'
    BY <1>3, <1>5, JobsKept DEF Live, IdleCall
  <2> QED
    BY <2>1, <2>2, <2>3, <2>4
<1> QED
  BY <1>4, <1>5 DEF CreateInsert

LEMMA UpdateReadKeeps ==
  ASSUME LedgerTyped, RestTyped, Ledger, Jobs, NEW q \in Calls, NEW d \in Sources,
         NEW password \in BOOLEAN, UpdateRead(q, d, password)
  PROVE  LedgerTyped' /\ RestTyped' /\ Ledger' /\ Jobs'
<1>1. /\ call[q] = IdleCall /\ Live(d)
      /\ ds' = ds /\ conn' = conn /\ metadata' = metadata /\ refTask' = refTask
      /\ deaths' = deaths
  BY DEF UpdateRead
<1>2. disturbed' = (disturbed \/ Writers(d) # {})
  BY DEF UpdateRead
<1>3. disturbed' \/ (~disturbed /\ Writers(d) = {})
  BY <1>2, Zenon DEF LedgerTyped
<1>4. disturbed' \in BOOLEAN
  BY <1>2, Zenon DEF LedgerTyped
<1>5. 0 \in 0..MaxConfig /\ ds[d].ref \in Refs \union {NoRef}
  BY DatasourceBounds DEF LedgerTyped, RowSet
<1>6. RestTyped'
  BY <1>1 DEF RestTyped
<1>7. CASE password
  <2>1. PICK r \in Refs : /\ StoreSecret(r)
                          /\ call' = [call EXCEPT ![q] = Request("update", d, ds[d].ref, r, 0)]
    BY <1>7 DEF UpdateRead
  <2>2. PICK c \in CallSet : /\ call' = [call EXCEPT ![q] = c]
                             /\ c.op = "update" /\ c.pc = "write" /\ c.source = d
                             /\ c.new = r /\ c.old = ds[d].ref
    <3> DEFINE e == Request("update", d, ds[d].ref, r, 0)
    <3>1. /\ e \in CallSet /\ e.op = "update" /\ e.pc = "write" /\ e.source = d
          /\ e.new = r /\ e.old = ds[d].ref
      BY <1>5, RequestIs
    <3> QED
      BY <2>1, <3>1, Zenon
  <2>3. secret[r] = "free" /\ secret' = [secret EXCEPT ![r] = "live"]
    BY <2>1 DEF StoreSecret
  <2>4. LedgerTyped'
    <3>1. call' \in [Calls -> CallSet] /\ secret' \in [Refs -> {"free", "live", "deleted"}]
      BY <2>2, <2>3 DEF LedgerTyped
    <3> QED
      BY <3>1, <1>1, <1>4 DEF LedgerTyped
  <2>5. Ledger'
    BY <1>1, <1>3, <2>2, <2>3, <2>4, StoreKeeps
  <2>6. Jobs'
    BY <1>1, <2>2, JobsKept DEF Live
  <2> QED
    BY <1>6, <2>4, <2>5, <2>6
<1>8. CASE ~password
  <2>1. /\ call' = [call EXCEPT ![q] = Request("update", d, NoRef, NoRef, 0)]
        /\ secret' = secret
    BY <1>8 DEF UpdateRead
  <2>2. PICK c \in CallSet : /\ call' = [call EXCEPT ![q] = c]
                             /\ c.op = "update" /\ c.pc = "write" /\ c.source = d
                             /\ c.new = NoRef /\ c.old = NoRef
    <3> DEFINE e == Request("update", d, NoRef, NoRef, 0)
    <3>1. /\ e \in CallSet /\ e.op = "update" /\ e.pc = "write" /\ e.source = d
          /\ e.new = NoRef /\ e.old = NoRef
      <4>1. NoRef \in Refs \union {NoRef} /\ "update" \in {"create", "update", "delete", "metadata"}
        OBVIOUS
      <4>2. 0 \in 0..MaxConfig
        BY <1>5
      <4> QED
        BY <4>1, <4>2, SMTT(30) DEF CallSet, Request
    <3> QED
      BY <2>1, <3>1, Zenon
  <2>3. LedgerTyped'
    BY <2>1, <2>2, <1>1, <1>4 DEF LedgerTyped
  <2>4. Ledger'
    <3>1. /\ c.op = "update" => c.old = NoRef
          /\ c.op \in {"delete", "metadata"} => c.old = ds[d].ref
          /\ c.op \in {"update", "delete", "metadata"}
      BY <2>2
    <3>2. disturbed' \/ (~disturbed /\ (IsWriter(c) => Writers(d) = {}))
      BY <1>3, Zenon
    <3> QED
      BY <1>1, <2>1, <2>2, <2>3, <3>1, <3>2, EnterKeeps
  <2>5. Jobs'
    BY <1>1, <2>2, JobsKept DEF Live
  <2> QED
    BY <1>6, <2>3, <2>4, <2>5
<1> QED
  BY <1>7, <1>8

LEMMA UpdateWriteKeeps ==
  ASSUME LedgerTyped, RestTyped, Ledger, Jobs, NEW q \in Calls, UpdateWrite(q)
  PROVE  LedgerTyped' /\ RestTyped' /\ Ledger' /\ Jobs'
<1>1. PICK d \in Sources : d = call[q].source
  BY DEF UpdateWrite, CallAt, Ledger, Shaped, CallShape, IdleCall
<1>2. /\ call[q].op = "update" /\ call[q].pc = "write" /\ ds[d].state # "free"
      /\ call[q] \in CallSet /\ ds[d] \in RowSet
      /\ call[q].new # NoRef => call[q].old # NoRef
  BY <1>1 DEF UpdateWrite, CallAt, Ledger, Shaped, CallShape, IdleCall, LedgerTyped
<1>3. /\ secret' = secret /\ conn' = conn /\ metadata' = metadata /\ refTask' = refTask
      /\ deaths' = deaths
  BY DEF UpdateWrite
<1>4. disturbed' = disturbed
  BY DEF UpdateWrite
<1>5. /\ ds' \in [Sources -> RowSet]
      /\ \A e \in Sources : ds'[e].state = ds[e].state
      /\ \A e \in Sources : ds'[e].ref = IF e = d /\ Live(d) /\ call[q].new # NoRef
                                         THEN call[q].new ELSE ds[e].ref
  <2>1. CASE ds' = ds /\ ~Live(d)
    BY <2>1 DEF LedgerTyped
  <2>2. CASE Live(d) /\ call[q].new # NoRef /\ ds' = [ds EXCEPT ![d].ref = call[q].new]
    <3>1. call[q].new \in Refs \union {NoRef}
      BY <1>2 DEF CallSet
    <3> QED
      BY <2>2, <3>1, <1>2 DEF LedgerTyped, RowSet
  <2>3. CASE /\ Live(d) /\ call[q].new = NoRef /\ ds[d].config < MaxConfig
             /\ ds' = [ds EXCEPT ![d].config = @ + 1]
    <3>1. ds[d].config + 1 \in 0..MaxConfig
      BY <2>3, <1>2, DatasourceBounds DEF RowSet
    <3> QED
      BY <2>3, <3>1, <1>2 DEF LedgerTyped, RowSet
  <2> QED
    BY <1>1, <2>1, <2>2, <2>3 DEF UpdateWrite
<1>6. RestTyped'
  BY <1>3, <1>5 DEF RestTyped
<1>7. CASE call[q].new = NoRef
  <2>1. call' = [call EXCEPT ![q] = IdleCall]
    BY <1>7 DEF UpdateWrite, Finish
  <2>2. LedgerTyped'
    <3>1. IdleCall \in CallSet
      BY DatasourceBounds DEF IdleCall, CallSet
    <3>2. call' \in [Calls -> CallSet]
      BY <2>1, <3>1 DEF LedgerTyped
    <3> QED
      BY <3>2, <1>3, <1>4, <1>5 DEF LedgerTyped
  <2>3. disturbed' \/ (~disturbed /\ ~Unwritten(call[q]) /\ call[q].pc # "drop")
    <3>1. ~Unwritten(call[q]) /\ call[q].pc # "drop"
      BY <1>2, <1>7 DEF Unwritten
    <3> QED
      BY <3>1, <1>4, Zenon DEF LedgerTyped
  <2>4. Ledger'
    BY <1>3, <1>5, <1>7, <2>1, <2>2, <2>3, LeaveKeeps DEF SameRows
  <2>5. Jobs'
    BY <1>3, <1>5, <2>1, JobsKept DEF Live, IdleCall
  <2> QED
    BY <1>6, <2>2, <2>4, <2>5
<1>8. CASE call[q].new # NoRef
  <2>1. PICK c \in CallSet : /\ call' = [call EXCEPT ![q] = c]
                             /\ c.op = "update" /\ c.pc = "drop" /\ c.source = d
                             /\ c.old = call[q].old /\ c.new = call[q].new
    <3> DEFINE e == [call[q] EXCEPT !.pc = "drop"]
    <3>1. /\ e \in CallSet /\ e.op = "update" /\ e.pc = "drop" /\ e.source = d
          /\ e.old = call[q].old /\ e.new = call[q].new
      BY <1>1, <1>2 DEF CallSet
    <3>2. call' = [call EXCEPT ![q] = e]
      BY <1>8 DEF UpdateWrite
    <3> QED
      BY <3>1, <3>2, Zenon
  <2>2. LedgerTyped'
    BY <2>1, <1>3, <1>4, <1>5 DEF LedgerTyped
  <2>3. Ledger'
    <3>1. CASE Live(d)
      <4>1. \A e \in Sources : /\ ds'[e].state = IF e = d THEN "live" ELSE ds[e].state
                               /\ ds'[e].ref = IF e = d THEN call[q].new ELSE ds[e].ref
        BY <1>5, <1>8, <3>1 DEF Live
      <4>2. Unwritten(call[q])
        BY <1>2, <1>8 DEF Unwritten
      <4> QED
        BY <1>1, <1>2, <1>3, <1>4, <2>1, <2>2, <3>1, <4>1, <4>2, WriteKeeps
    <3>2. CASE ~Live(d)
      <4>1. \A e \in Sources : /\ ds'[e].state = IF e = d THEN "gone" ELSE ds[e].state
                               /\ ds'[e].ref = ds[e].ref
        BY <1>2, <1>5, <3>2 DEF Live, RowSet
      <4> QED
        BY <1>1, <1>2, <1>3, <1>4, <1>8, <2>1, <2>2, <3>2, <4>1, GoneKeeps, ZenonT(60)
    <3> QED
      BY <3>1, <3>2
  <2>4. Jobs'
    BY <1>3, <1>5, <2>1, JobsKept DEF Live
  <2> QED
    BY <1>6, <2>2, <2>3, <2>4
<1> QED
  BY <1>7, <1>8

LEMMA DropSecretKeeps ==
  ASSUME LedgerTyped, RestTyped, Ledger, Jobs, NEW q \in Calls, DropSecret(q)
  PROVE  LedgerTyped' /\ RestTyped' /\ Ledger' /\ Jobs'
<1>1. /\ call[q].pc = "drop" /\ call' = [call EXCEPT ![q] = IdleCall]
      /\ secret' = [secret EXCEPT ![call[q].old] = "deleted"]
      /\ ds' = ds /\ conn' = conn /\ metadata' = metadata /\ refTask' = refTask
      /\ deaths' = deaths
  BY DEF DropSecret, DeleteSecret, Finish
<1>2. disturbed' = disturbed
  BY DEF DropSecret
<1>3. LedgerTyped'
  <2>1. IdleCall \in CallSet
    BY DatasourceBounds DEF IdleCall, CallSet
  <2>2. call' \in [Calls -> CallSet] /\ secret' \in [Refs -> {"free", "live", "deleted"}]
    BY <1>1, <2>1 DEF LedgerTyped
  <2> QED
    BY <2>2, <1>1, <1>2 DEF LedgerTyped
<1>4. RestTyped'
  BY <1>1 DEF RestTyped
<1>5. Ledger'
  BY <1>1, <1>2, <1>3, DropKeeps
<1>6. Jobs'
  BY <1>1, JobsKept DEF Live, IdleCall
<1> QED
  BY <1>3, <1>4, <1>5, <1>6

LEMMA DeleteReadKeeps ==
  ASSUME LedgerTyped, RestTyped, Ledger, Jobs, NEW q \in Calls, NEW d \in Sources,
         DeleteRead(q, d)
  PROVE  LedgerTyped' /\ RestTyped' /\ Ledger' /\ Jobs'
<1>1. /\ call[q] = IdleCall /\ Live(d) /\ JobReferences(d) = {}
      /\ call' = [call EXCEPT ![q] = Request("delete", d, ds[d].ref, NoRef, 0)]
      /\ ds' = ds /\ secret' = secret /\ conn' = conn /\ metadata' = metadata
      /\ refTask' = refTask /\ deaths' = deaths
  BY DEF DeleteRead
<1>2. disturbed' = (disturbed \/ Writers(d) # {})
  BY DEF DeleteRead
<1>3. disturbed' \/ (~disturbed /\ Writers(d) = {})
  BY <1>2, Zenon DEF LedgerTyped
<1>4. disturbed' \in BOOLEAN
  BY <1>2, Zenon DEF LedgerTyped
<1>5. PICK c \in CallSet : /\ call' = [call EXCEPT ![q] = c]
                           /\ c.op = "delete" /\ c.pc = "write" /\ c.source = d
                           /\ c.new = NoRef /\ c.old = ds[d].ref
  <2>1. /\ 0 \in 0..MaxConfig /\ ds[d].ref \in Refs \union {NoRef}
        /\ NoRef \in Refs \union {NoRef}
    BY DatasourceBounds DEF LedgerTyped, RowSet
  <2> DEFINE e == Request("delete", d, ds[d].ref, NoRef, 0)
  <2>2. /\ e \in CallSet /\ e.op = "delete" /\ e.pc = "write" /\ e.source = d
        /\ e.new = NoRef /\ e.old = ds[d].ref
    BY <2>1, RequestIs
  <2> QED
    BY <1>1, <2>2, Zenon
<1>6. LedgerTyped'
  BY <1>1, <1>4, <1>5 DEF LedgerTyped
<1>7. RestTyped'
  BY <1>1 DEF RestTyped
<1>8. Ledger'
  <2>1. disturbed' \/ (~disturbed /\ (IsWriter(c) => Writers(d) = {}))
    BY <1>3, Zenon
  <2> QED
    BY <1>1, <1>5, <1>6, <2>1, EnterKeeps
<1>9. Jobs'
  <2>1. \A p \in Calls : call'[p] = IF p = q THEN c ELSE call[p]
    BY <1>5 DEF LedgerTyped
  <2>2. \A j \in ConnJobs : conn[j].pc = "queued" => conn[j].source # d
    BY <1>1 DEF JobReferences, JobEnd
  <2>3. Queued'
    BY <1>1, <1>5, <2>1, <2>2 DEF Jobs, Queued, CallAt, Live
  <2>4. MissingOnlyByRace'
    BY <1>1 DEF Jobs, MissingOnlyByRace
  <2> QED
    BY <2>3, <2>4 DEF Jobs
<1> QED
  BY <1>6, <1>7, <1>8, <1>9

LEMMA DeleteWriteKeeps ==
  ASSUME LedgerTyped, RestTyped, Ledger, Jobs, NEW q \in Calls, DeleteWrite(q)
  PROVE  LedgerTyped' /\ RestTyped' /\ Ledger' /\ Jobs'
<1>1. PICK d \in Sources : d = call[q].source
  BY DEF DeleteWrite, CallAt, Ledger, Shaped, CallShape, IdleCall
<1>2. /\ call[q].op = "delete" /\ call[q].pc = "write" /\ ds[d].state # "free"
      /\ call[q] \in CallSet /\ ds[d] \in RowSet /\ call[q].old # NoRef /\ call[q].new = NoRef
  BY <1>1 DEF DeleteWrite, CallAt, Ledger, Shaped, CallShape, IdleCall, LedgerTyped
<1>3. secret' = secret /\ conn' = conn /\ refTask' = refTask /\ deaths' = deaths
  BY DEF DeleteWrite
<1>4. disturbed' = disturbed
  BY DEF DeleteWrite
<1>5. CASE refTask[d]
  <2>1. call' = [call EXCEPT ![q] = IdleCall] /\ ds' = ds /\ metadata' = metadata
    BY <1>1, <1>5 DEF DeleteWrite, Finish
  <2>2. LedgerTyped'
    <3>1. IdleCall \in CallSet
      BY DatasourceBounds DEF IdleCall, CallSet
    <3>2. call' \in [Calls -> CallSet]
      BY <2>1, <3>1 DEF LedgerTyped
    <3> QED
      BY <3>2, <1>3, <1>4, <2>1 DEF LedgerTyped
  <2>3. RestTyped'
    BY <1>3, <2>1 DEF RestTyped
  <2>4. Ledger'
    <3>1. ~Unwritten(call[q]) /\ call[q].pc # "drop"
      BY <1>2 DEF Unwritten
    <3>2. disturbed' \/ (~disturbed /\ ~Unwritten(call[q]) /\ call[q].pc # "drop")
      BY <3>1, <1>4, Zenon DEF LedgerTyped
    <3> QED
      BY <1>3, <2>1, <2>2, <3>2, LeaveKeeps DEF SameRows
  <2>5. Jobs'
    BY <1>3, <2>1, JobsKept DEF Live, IdleCall
  <2> QED
    BY <2>2, <2>3, <2>4, <2>5
<1>6. CASE ~refTask[d]
  <2>1. /\ ds' = [ds EXCEPT ![d].state = "gone"]
        /\ metadata' = [metadata EXCEPT ![d] = NoMetadata]
        /\ call' = [call EXCEPT ![q].pc = "drop"]
    BY <1>1, <1>6 DEF DeleteWrite
  <2>2. PICK c \in CallSet : /\ call' = [call EXCEPT ![q] = c]
                             /\ c.op = "delete" /\ c.pc = "drop" /\ c.source = d
                             /\ c.old = call[q].old /\ c.new = call[q].new
    <3> DEFINE e == [call[q] EXCEPT !.pc = "drop"]
    <3>1. /\ e \in CallSet /\ e.op = "delete" /\ e.pc = "drop" /\ e.source = d
          /\ e.old = call[q].old /\ e.new = call[q].new
      BY <1>1, <1>2 DEF CallSet
    <3>2. call' = [call EXCEPT ![q] = e]
      BY <2>1
    <3> QED
      BY <3>1, <3>2, Zenon
  <2>3. /\ ds' \in [Sources -> RowSet]
        /\ \A e \in Sources : /\ ds'[e].state = IF e = d THEN "gone" ELSE ds[e].state
                              /\ ds'[e].ref = ds[e].ref
    BY <1>2, <2>1 DEF LedgerTyped, RowSet
  <2>4. LedgerTyped'
    BY <1>3, <1>4, <2>2, <2>3 DEF LedgerTyped
  <2>5. RestTyped'
    <3>1. \A e \in Sources : metadata'[e] = IF e = d THEN NoMetadata ELSE metadata[e]
      BY <2>1 DEF RestTyped
    <3>2. metadata' \in [Sources -> {NoMetadata} \union (0..MaxConfig)]
      BY <2>1 DEF RestTyped
    <3> QED
      BY <1>3, <1>6, <2>3, <3>1, <3>2 DEF RestTyped
  <2>6. Ledger'
    <3>1. c.op = call[q].op /\ (call[q].op = "delete" \/ (call[q].op = "update" /\ ~Live(d)))
      BY <1>2, <2>2
    <3> QED
      BY <1>1, <1>2, <1>3, <1>4, <2>2, <2>3, <2>4, <3>1, GoneKeeps
  <2>7. Jobs'
    <3>1. \A p \in Calls : call'[p] = IF p = q THEN c ELSE call[p]
      BY <2>2 DEF LedgerTyped
    <3>2. \A j \in ConnJobs : conn[j].pc = "queued" /\ ~conn[j].raced => conn[j].source # d
      BY <1>1, <1>2 DEF Jobs, Queued, CallAt
    <3>3. Queued'
      BY <1>3, <2>2, <2>3, <3>1, <3>2 DEF Jobs, Queued, CallAt, Live
    <3>4. MissingOnlyByRace'
      BY <1>3 DEF Jobs, MissingOnlyByRace
    <3> QED
      BY <3>3, <3>4 DEF Jobs
  <2> QED
    BY <2>4, <2>5, <2>6, <2>7
<1> QED
  BY <1>5, <1>6

LEMMA CallDiesKeeps ==
  ASSUME LedgerTyped, RestTyped, Ledger, Jobs, NEW q \in Calls, CallDies(q)
  PROVE  LedgerTyped' /\ RestTyped' /\ Ledger' /\ Jobs'
<1>1. /\ call' = [call EXCEPT ![q] = IdleCall]
      /\ ds' = ds /\ secret' = secret /\ conn' = conn /\ metadata' = metadata
      /\ refTask' = refTask /\ deaths < MaxDeaths /\ deaths' = deaths + 1
  BY DEF CallDies, Finish
<1>2. disturbed' = TRUE
  BY DEF CallDies
<1>3. LedgerTyped'
  <2>1. IdleCall \in CallSet
    BY DatasourceBounds DEF IdleCall, CallSet
  <2>2. call' \in [Calls -> CallSet]
    BY <1>1, <2>1 DEF LedgerTyped
  <2> QED
    BY <2>2, <1>1, <1>2 DEF LedgerTyped
<1>4. RestTyped'
  BY <1>1, DatasourceBounds DEF RestTyped
<1>5. Ledger'
  BY <1>1, <1>2, <1>3, LeaveKeeps DEF SameRows
<1>6. Jobs'
  BY <1>1, JobsKept DEF Live, IdleCall
<1> QED
  BY <1>3, <1>4, <1>5, <1>6

LEMMA UpdateRefusedKeeps ==
  ASSUME LedgerTyped, RestTyped, Ledger, Jobs, NEW q \in Calls, UpdateRefused(q)
  PROVE  LedgerTyped' /\ RestTyped' /\ Ledger' /\ Jobs'
<1>1. /\ call' = [call EXCEPT ![q] = IdleCall] /\ call[q].pc = "write"
      /\ ds' = ds /\ secret' = secret /\ conn' = conn /\ metadata' = metadata
      /\ refTask' = refTask /\ deaths' = deaths
  BY DEF UpdateRefused, Finish, CallAt
<1>2. disturbed' = (disturbed \/ call[q].new # NoRef)
  BY DEF UpdateRefused
<1>3. LedgerTyped'
  <2>1. IdleCall \in CallSet
    BY DatasourceBounds DEF IdleCall, CallSet
  <2>2. call' \in [Calls -> CallSet]
    BY <1>1, <2>1 DEF LedgerTyped
  <2>3. disturbed' \in BOOLEAN
    BY <1>2, Zenon DEF LedgerTyped
  <2> QED
    BY <2>2, <2>3, <1>1 DEF LedgerTyped
<1>4. RestTyped'
  BY <1>1 DEF RestTyped
<1>5. Ledger'
  <2>1. \/ disturbed'
        \/ ~disturbed /\ ~Unwritten(call[q]) /\ call[q].pc # "drop"
    BY <1>1, <1>2 DEF Unwritten
  <2> QED
    BY <1>1, <1>3, <2>1, LeaveKeeps DEF SameRows
<1>6. Jobs'
  BY <1>1, JobsKept DEF Live, IdleCall
<1> QED
  BY <1>3, <1>4, <1>5, <1>6

LEMMA MetadataMissKeeps ==
  ASSUME LedgerTyped, RestTyped, Ledger, Jobs, NEW q \in Calls, NEW d \in Sources,
         MetadataMiss(q, d)
  PROVE  LedgerTyped' /\ RestTyped' /\ Ledger' /\ Jobs'
<1>1. /\ call[q] = IdleCall /\ Live(d)
      /\ call' = [call EXCEPT ![q] = Request("metadata", d, ds[d].ref, NoRef, ds[d].config)]
      /\ ds' = ds /\ secret' = secret /\ conn' = conn /\ metadata' = metadata
      /\ refTask' = refTask /\ deaths' = deaths
  BY DEF MetadataMiss
<1>2. disturbed' = disturbed
  BY DEF MetadataMiss
<1>3. PICK c \in CallSet : /\ call' = [call EXCEPT ![q] = c]
                           /\ c.op = "metadata" /\ c.pc = "write" /\ c.source = d
                           /\ c.new = NoRef /\ c.old = ds[d].ref
  <2>1. /\ ds[d].config \in 0..MaxConfig /\ ds[d].ref \in Refs \union {NoRef}
        /\ NoRef \in Refs \union {NoRef}
    BY DEF LedgerTyped, RowSet
  <2> DEFINE e == Request("metadata", d, ds[d].ref, NoRef, ds[d].config)
  <2>2. /\ e \in CallSet /\ e.op = "metadata" /\ e.pc = "write" /\ e.source = d
        /\ e.new = NoRef /\ e.old = ds[d].ref
    <3>1. PICK o \in Refs \union {NoRef}, n \in 0..MaxConfig : o = ds[d].ref /\ n = ds[d].config
      BY <2>1
    <3>2. /\ "metadata" \in {"create", "update", "delete", "metadata"}
          /\ NoRef \in Refs \union {NoRef}
      OBVIOUS
    <3>3. /\ Request("metadata", d, o, NoRef, n) \in CallSet
          /\ Request("metadata", d, o, NoRef, n).op = "metadata"
          /\ Request("metadata", d, o, NoRef, n).pc = "write"
          /\ Request("metadata", d, o, NoRef, n).source = d
          /\ Request("metadata", d, o, NoRef, n).new = NoRef
          /\ Request("metadata", d, o, NoRef, n).old = o
      BY <3>2, RequestIs
    <3> QED
      BY <3>1, <3>3
  <2> QED
    BY <1>1, <2>2, Zenon
<1>4. LedgerTyped'
  BY <1>1, <1>2, <1>3 DEF LedgerTyped
<1>5. RestTyped'
  BY <1>1 DEF RestTyped
<1>6. Ledger'
  <2>1. ~IsWriter(c)
    BY <1>3 DEF IsWriter
  <2>2. disturbed' \/ (~disturbed /\ (IsWriter(c) => Writers(d) = {}))
    BY <2>1, <1>2, Zenon DEF LedgerTyped
  <2> QED
    BY <1>1, <1>3, <1>4, <2>2, EnterKeeps
<1>7. Jobs'
  BY <1>1, <1>3, JobsKept DEF Live
<1> QED
  BY <1>4, <1>5, <1>6, <1>7

LEMMA MetadataWriteKeeps ==
  ASSUME LedgerTyped, RestTyped, Ledger, Jobs, NEW q \in Calls, MetadataWrite(q)
  PROVE  LedgerTyped' /\ RestTyped' /\ Ledger' /\ Jobs'
<1>1. /\ call[q].op = "metadata" /\ call[q].pc = "write"
      /\ call' = [call EXCEPT ![q] = IdleCall]
      /\ ds' = ds /\ secret' = secret /\ conn' = conn
      /\ refTask' = refTask /\ deaths' = deaths
  BY DEF MetadataWrite, CallAt, Finish
<1>2. disturbed' = disturbed
  BY DEF MetadataWrite
<1>3. LedgerTyped'
  <2>1. IdleCall \in CallSet
    BY DatasourceBounds DEF IdleCall, CallSet
  <2>2. call' \in [Calls -> CallSet]
    BY <1>1, <2>1 DEF LedgerTyped
  <2> QED
    BY <2>2, <1>1, <1>2 DEF LedgerTyped
<1>4. RestTyped'
  <2>1. \/ metadata' = metadata
        \/ Live(call[q].source) /\ metadata' = [metadata EXCEPT ![call[q].source] = call[q].config]
    BY DEF MetadataWrite
  <2>2. call[q].config \in 0..MaxConfig
    BY DEF LedgerTyped, CallSet
  <2> QED
    BY <1>1, <2>1, <2>2 DEF RestTyped, Live
<1>5. Ledger'
  <2>1. ~Unwritten(call[q]) /\ call[q].pc # "drop"
    BY <1>1 DEF Unwritten, Ledger, Shaped, CallShape, IdleCall
  <2>2. disturbed' \/ (~disturbed /\ ~Unwritten(call[q]) /\ call[q].pc # "drop")
    BY <2>1, <1>2, Zenon DEF LedgerTyped
  <2> QED
    BY <1>1, <1>3, <2>2, LeaveKeeps DEF SameRows
<1>6. Jobs'
  BY <1>1, JobsKept DEF Live, IdleCall
<1> QED
  BY <1>3, <1>4, <1>5, <1>6

\* What the jobs and the cache do is not in the ledger.
LEMMA LedgerKept ==
  ASSUME LedgerTyped, Ledger, ds' = ds, secret' = secret, call' = call, disturbed' = disturbed
  PROVE  LedgerTyped' /\ Ledger'
<1>1. LedgerTyped'
  BY DEF LedgerTyped
<1>2. NoDanglingSecret' /\ RowRefs' /\ CallRefs' /\ Shaped' /\ CreatesAlone'
  BY DEF Ledger, NoDanglingSecret, RowRefs, CallRefs, Shaped, CreatesAlone, CallShape, Live
<1>3. NewRefs' /\ OldRefs'
  BY DEF Ledger, NewRefs, OldRefs, Unwritten, Live
<1>4. Orderly'
  BY DEF Ledger, Orderly, Owned, Unwritten, Live
<1> QED
  BY <1>1, <1>2, <1>3, <1>4 DEF Ledger

\* Two steps of the cache and of those who refer to a datasource.
LEMMA CacheKeeps ==
  ASSUME LedgerTyped, RestTyped, Ledger, Jobs, NEW d \in Sources,
         TaskRefers(d) \/ MetadataExpires(d)
  PROVE  LedgerTyped' /\ RestTyped' /\ Ledger' /\ Jobs'
<1>1. /\ ds' = ds /\ secret' = secret /\ call' = call /\ conn' = conn
      /\ deaths' = deaths /\ disturbed' = disturbed
  BY DEF TaskRefers, MetadataExpires
<1>2. LedgerTyped' /\ Ledger'
  BY <1>1, LedgerKept
<1>3. Jobs'
  BY <1>1 DEF Jobs, Queued, MissingOnlyByRace, CallAt, Live
<1>4. CASE TaskRefers(d)
  <2>1. /\ Live(d) /\ metadata' = metadata
        /\ refTask' = [refTask EXCEPT ![d] = ~refTask[d]]
    BY <1>4 DEF TaskRefers
  <2>2. refTask' \in [Sources -> BOOLEAN]
    BY <2>1 DEF RestTyped
  <2>3. \A e \in Sources : e # d => refTask'[e] = refTask[e]
    BY <2>1 DEF RestTyped
  <2> QED
    BY <1>1, <1>2, <1>3, <2>1, <2>2, <2>3 DEF RestTyped, Live
<1>5. CASE MetadataExpires(d)
  <2>1. metadata' = [metadata EXCEPT ![d] = NoMetadata] /\ refTask' = refTask
    BY <1>5 DEF MetadataExpires
  <2> QED
    BY <1>1, <1>2, <1>3, <2>1 DEF RestTyped
<1> QED
  BY <1>4, <1>5

\* The steps of the jobs.  A job that reads a row when no delete is under way is
\* queued with it, and one that no longer finds it was queued too late.
JobStep(j) == JobEnqueue(j) \/ JobLoad(j) \/ JobReveal(j) \/ JobRuns(j)

LEMMA JobKeeps ==
  ASSUME LedgerTyped, RestTyped, Ledger, Jobs, NEW j \in ConnJobs,
         \/ \E d \in Sources, k \in {"test", "sync"} : JobAsk(j, d, k)
         \/ JobStep(j)
  PROVE  LedgerTyped' /\ RestTyped' /\ Ledger' /\ Jobs'
<1>1. /\ ds' = ds /\ secret' = secret /\ call' = call /\ refTask' = refTask
      /\ deaths' = deaths /\ disturbed' = disturbed
  BY DEF JobStep, JobAsk, JobEnqueue, JobLoad, JobReveal, JobRuns
<1>2. LedgerTyped' /\ Ledger'
  BY <1>1, LedgerKept
<1>3. conn[j] \in ConnSet
  BY DEF RestTyped
<1>4. /\ metadata' \in [Sources -> {NoMetadata} \union (0..MaxConfig)]
      /\ \A d \in Sources : ds[d].state # "live" => metadata'[d] = NoMetadata
  <2>1. CASE metadata' = metadata
    BY <2>1 DEF RestTyped
  <2>2. CASE JobRuns(j) /\ metadata' # metadata
    <3>1. /\ Live(conn[j].source)
          /\ metadata' = [metadata EXCEPT ![conn[j].source] = conn[j].config]
      BY <2>2 DEF JobRuns
    <3>2. conn[j].config \in 0..MaxConfig
      BY <1>3 DEF ConnSet
    <3> QED
      BY <3>1, <3>2 DEF RestTyped, Live
  <2> QED
    BY <2>1, <2>2 DEF JobStep, JobAsk, JobEnqueue, JobLoad, JobReveal
<1> DEFINE Keeps(c) ==
        /\ c \in ConnSet /\ c.source \in Sources
        /\ c.pc # "missing" /\ c.pc # "queued"
<1>5. PICK c \in ConnSet :
        /\ conn' = [conn EXCEPT ![j] = c]
        /\ c.pc # "none" => c.source \in Sources
        /\ c.pc = "missing" => c.raced = conn[j].raced /\ conn[j].pc = "queued"
                               /\ ~Live(conn[j].source)
        /\ c.pc = "queued" /\ ~c.raced =>
              /\ Live(c.source)
              /\ \A q \in Calls : CallAt(q, "delete", "write") => call[q].source # c.source
  <2>1. ASSUME NEW d \in Sources, NEW k \in {"test", "sync"}, JobAsk(j, d, k)
        PROVE  \E c \in ConnSet : conn' = [conn EXCEPT ![j] = c] /\ Keeps(c)
    <3> DEFINE e == [conn[j] EXCEPT !.pc = "asked", !.source = d, !.kind = k]
    <3>1. Keeps(e)
      BY <1>3 DEF ConnSet
    <3>2. conn' = [conn EXCEPT ![j] = e]
      BY <2>1 DEF JobAsk, RestTyped, ConnSet
    <3> QED
      BY <3>1, <3>2, Zenon
  <2>2. ASSUME JobEnqueue(j)
        PROVE  \E c \in ConnSet :
                 /\ conn' = [conn EXCEPT ![j] = c] /\ c.pc = "queued" /\ c.source \in Sources
                 /\ ~c.raced =>
                       /\ Live(c.source)
                       /\ \A q \in Calls : CallAt(q, "delete", "write") => call[q].source # c.source
    <3> DEFINE b == \/ ~Live(conn[j].source)
                    \/ \E q \in Calls : CallAt(q, "delete", "write")
                                        /\ call[q].source = conn[j].source
    <3> DEFINE e == [conn[j] EXCEPT !.pc = "queued", !.raced = b]
    <3>1. b \in BOOLEAN
      BY Zenon
    <3>2. conn[j].source \in Sources
      BY <2>2 DEF JobEnqueue, Jobs, Queued
    <3>3. /\ conn' = [conn EXCEPT ![j] = e]
      BY <2>2 DEF JobEnqueue, RestTyped, ConnSet
    <3> HIDE DEF b
    <3>4. e \in ConnSet /\ e.pc = "queued" /\ e.source = conn[j].source
      BY <1>3, <3>1 DEF ConnSet
    <3>5. e.raced = b
      BY <1>3, Zenon DEF ConnSet
    <3>6. ~b => /\ Live(conn[j].source)
                /\ \A q \in Calls : CallAt(q, "delete", "write") => call[q].source # conn[j].source
      BY DEF b
    <3> QED
      BY <3>2, <3>3, <3>4, <3>5, <3>6, ZenonT(30)
  <2>3. ASSUME JobLoad(j)
        PROVE  \E c \in ConnSet :
                 /\ conn' = [conn EXCEPT ![j] = c] /\ c.source \in Sources /\ c.pc # "queued"
                 /\ c.pc = "missing" => c.raced = conn[j].raced /\ conn[j].pc = "queued"
                                        /\ ~Live(conn[j].source)
    <3>1. conn[j].pc = "queued" /\ conn[j].source \in Sources
      BY <2>3 DEF JobLoad, Jobs, Queued
    <3>2. CASE Live(conn[j].source)
      <4> DEFINE e == [conn[j] EXCEPT !.pc = "loaded", !.ref = ds[conn[j].source].ref,
                                      !.config = ds[conn[j].source].config]
      <4>1. ds[conn[j].source] \in RowSet
        BY <3>1 DEF LedgerTyped
      <4>2. e \in ConnSet /\ e.pc = "loaded" /\ e.source = conn[j].source
        BY <1>3, <4>1 DEF ConnSet, RowSet
      <4>3. conn' = [conn EXCEPT ![j] = e]
        BY <2>3, <3>2 DEF JobLoad
      <4> QED
        BY <3>1, <4>2, <4>3
    <3>3. CASE ~Live(conn[j].source)
      <4> DEFINE e == [conn[j] EXCEPT !.pc = "missing"]
      <4>1. e \in ConnSet /\ e.pc = "missing" /\ e.source = conn[j].source
        BY <1>3 DEF ConnSet, JobEnd
      <4>2. e.raced = conn[j].raced
        BY <1>3 DEF ConnSet
      <4>3. conn' = [conn EXCEPT ![j] = e]
        BY <2>3, <3>3 DEF JobLoad
      <4> QED
        BY <3>1, <3>3, <4>1, <4>2, <4>3
    <3> QED
      BY <3>2, <3>3
  <2>4. ASSUME JobReveal(j) \/ JobRuns(j)
        PROVE  \E c \in ConnSet : conn' = [conn EXCEPT ![j] = c] /\ Keeps(c)
    <3>1. conn[j].source \in Sources /\ conn[j].pc \in {"loaded", "open"}
      BY <2>4 DEF JobReveal, JobRuns, Jobs, Queued
    <3>2. CASE conn' = conn
      BY <1>3, <3>1, <3>2 DEF RestTyped
    <3>3. ASSUME NEW s \in {"open", "failed", "nosecret", "done"}, conn' = [conn EXCEPT ![j].pc = s]
          PROVE  \E c \in ConnSet : conn' = [conn EXCEPT ![j] = c] /\ Keeps(c)
      <4> DEFINE e == [conn[j] EXCEPT !.pc = s]
      <4>1. Keeps(e)
        BY <1>3, <3>1 DEF ConnSet, JobEnd
      <4>2. conn' = [conn EXCEPT ![j] = e]
        BY <3>3
      <4> QED
        BY <4>1, <4>2, Zenon
    <3> QED
      BY <2>4, <3>2, <3>3 DEF JobReveal, JobRuns
  <2> QED
    BY <2>1, <2>2, <2>3, <2>4 DEF JobStep
<1>6. RestTyped'
  BY <1>1, <1>4, <1>5 DEF RestTyped
<1>7. \A i \in ConnJobs : conn'[i] = IF i = j THEN c ELSE conn[i]
  BY <1>5 DEF RestTyped
<1>8. Queued'
  BY <1>1, <1>5, <1>7 DEF Jobs, Queued, CallAt, Live
<1>9. MissingOnlyByRace'
  BY <1>5, <1>7 DEF Jobs, Queued, MissingOnlyByRace
<1> QED
  BY <1>2, <1>6, <1>8, <1>9 DEF Jobs

\* Every step of the specification keeps the invariant.
LEMMA DatasourcesKept == DatasourcesIInv /\ [DatasourcesNext]_datasourceVars => DatasourcesIInv'
<1> SUFFICES ASSUME LedgerTyped, RestTyped, Ledger, Jobs, [DatasourcesNext]_datasourceVars
             PROVE  LedgerTyped' /\ RestTyped' /\ Ledger' /\ Jobs'
  <2>1. DatasourcesIInv' <=> LedgerTyped' /\ RestTyped' /\ Ledger' /\ Jobs'
    BY IInvParts, PTL
  <2> QED
    BY <2>1, IInvParts
<1>1. ASSUME NEW q \in Calls, NEW d \in Sources,
             CreateStore(q, d) \/ DeleteRead(q, d) \/ MetadataMiss(q, d)
      PROVE  LedgerTyped' /\ RestTyped' /\ Ledger' /\ Jobs'
  BY <1>1, CreateStoreKeeps, DeleteReadKeeps, MetadataMissKeeps
<1>2. ASSUME NEW q \in Calls, NEW d \in Sources, NEW p \in BOOLEAN, UpdateRead(q, d, p)
      PROVE  LedgerTyped' /\ RestTyped' /\ Ledger' /\ Jobs'
  BY <1>2, UpdateReadKeeps
<1>3. ASSUME NEW q \in Calls,
             \/ CreateInsert(q) \/ UpdateWrite(q) \/ UpdateRefused(q)
             \/ DropSecret(q) \/ DeleteWrite(q) \/ CallDies(q) \/ MetadataWrite(q)
      PROVE  LedgerTyped' /\ RestTyped' /\ Ledger' /\ Jobs'
  BY <1>3, CreateInsertKeeps, UpdateWriteKeeps, UpdateRefusedKeeps, DropSecretKeeps,
     DeleteWriteKeeps, CallDiesKeeps, MetadataWriteKeeps
<1>4. ASSUME NEW d \in Sources, TaskRefers(d) \/ MetadataExpires(d)
      PROVE  LedgerTyped' /\ RestTyped' /\ Ledger' /\ Jobs'
  BY <1>4, CacheKeeps
<1>5. ASSUME NEW j \in ConnJobs, \/ \E d \in Sources, k \in {"test", "sync"} : JobAsk(j, d, k)
                                 \/ JobStep(j)
      PROVE  LedgerTyped' /\ RestTyped' /\ Ledger' /\ Jobs'
  BY <1>5, JobKeeps
<1>6. CASE UNCHANGED datasourceVars
  <2>1. /\ ds' = ds /\ secret' = secret /\ call' = call /\ conn' = conn /\ metadata' = metadata
        /\ refTask' = refTask /\ deaths' = deaths /\ disturbed' = disturbed
    BY <1>6 DEF datasourceVars
  <2>2. LedgerTyped' /\ Ledger'
    BY <2>1, LedgerKept
  <2>3. RestTyped'
    BY <2>1 DEF RestTyped
  <2>4. Jobs'
    BY <2>1 DEF Jobs, Queued, MissingOnlyByRace, CallAt, Live
  <2> QED
    BY <2>2, <2>3, <2>4
<1> QED
  BY <1>1, <1>2, <1>3, <1>4, <1>5, <1>6 DEF DatasourcesNext, JobStep

LEMMA DatasourcesBegin == DatasourcesInit => DatasourcesIInv
<1> SUFFICES ASSUME DatasourcesInit PROVE LedgerTyped /\ RestTyped /\ Ledger /\ Jobs
  BY IInvParts
<1>1. /\ \A d \in Sources : ds[d].state = "free" /\ ds[d].ref = NoRef
      /\ \A q \in Calls : call[q] = IdleCall
      /\ \A j \in ConnJobs : conn[j].pc = "none"
      /\ \A r \in Refs : secret[r] = "free"
  BY DEF DatasourcesInit
<1>2. LedgerTyped
  <2>1. IdleCall \in CallSet
    BY DatasourceBounds DEF IdleCall, CallSet
  <2>2. [state |-> "free", ref |-> NoRef, config |-> 0] \in RowSet
    BY DatasourceBounds DEF RowSet
  <2> QED
    BY <2>1, <2>2 DEF DatasourcesInit, LedgerTyped
<1>3. RestTyped
  <2>1. [pc |-> "none", source |-> "none", kind |-> "test", ref |-> NoRef, config |-> 0,
         raced |-> FALSE] \in ConnSet
    BY DatasourceBounds DEF ConnSet
  <2>2. conn \in [ConnJobs -> ConnSet]
    BY <2>1 DEF DatasourcesInit
  <2>3. metadata \in [Sources -> {NoMetadata} \union (0..MaxConfig)] /\ deaths \in 0..MaxDeaths
    BY DatasourceBounds DEF DatasourcesInit
  <2>4. refTask = [d \in Sources |-> FALSE]
    BY DEF DatasourcesInit
  <2>5. refTask \in [Sources -> BOOLEAN] /\ \A d \in Sources : ~refTask[d]
    BY <2>4
  <2>6. \A d \in Sources : metadata[d] = NoMetadata
    BY DEF DatasourcesInit
  <2> QED
    BY <2>2, <2>3, <2>5, <2>6, Zenon DEF RestTyped
<1>4. Ledger
  <2>1. NoDanglingSecret /\ RowRefs
    BY <1>1 DEF NoDanglingSecret, RowRefs, Live
  <2>2. Shaped /\ CreatesAlone /\ CallRefs /\ NewRefs /\ OldRefs
    BY <1>1 DEF Shaped, CallShape, CreatesAlone, CallRefs, NewRefs, OldRefs, Unwritten, IdleCall
  <2>3. Orderly
    BY <1>1 DEF Orderly, IsWriter, IdleCall
  <2> QED
    BY <2>1, <2>2, <2>3 DEF Ledger
<1>5. Jobs
  BY <1>1 DEF Jobs, Queued, MissingOnlyByRace
<1> QED
  BY <1>2, <1>3, <1>4, <1>5

\* When all is quiet the secrets in the store are those of the rows.
LEMMA DatasourcesSafe == DatasourcesIInv => DatasourcesInv
<1> SUFFICES ASSUME DatasourcesIInv PROVE SecretsReclaimed
  BY DEF DatasourcesIInv, DatasourcesInv
<1> SUFFICES ASSUME ~disturbed, \A q \in Calls : call[q] = IdleCall
             PROVE  {r \in Refs : secret[r] = "live"} = {ds[d].ref : d \in {e \in Sources : Live(e)}}
  BY Zenon DEF SecretsReclaimed
<1>1. ASSUME NEW r \in Refs, secret[r] = "live" PROVE \E d \in Sources : Live(d) /\ ds[d].ref = r
  <2>1. Owned(r)
    BY <1>1, Zenon DEF DatasourcesIInv, Orderly
  <2> QED
    BY <2>1 DEF Owned, Unwritten, IdleCall
<1>2. ASSUME NEW d \in Sources, Live(d) PROVE ds[d].ref \in Refs /\ secret[ds[d].ref] = "live"
  BY <1>2 DEF DatasourcesIInv, DatasourcesTypeOK, RowRefs, NoDanglingSecret, Live
<1> QED
  BY <1>1, <1>2

\* Whatever requests, jobs and crashes do to the datasources and in which order,
\* for any number of each: a row that is there names a password that is in the
\* store, the store keeps no password of a row that is gone unless something
\* failed, died or overlapped, and a queued job loses its datasource only when it
\* was queued behind the back of a delete (create_, update_, delete_datasource).
THEOREM DatasourcesAreSafe == DatasourcesSpec => []DatasourcesInv
<1>1. DatasourcesInit => DatasourcesIInv
  BY DatasourcesBegin
<1>2. DatasourcesIInv /\ [DatasourcesNext]_datasourceVars => DatasourcesIInv'
  BY DatasourcesKept
<1>3. DatasourcesIInv => DatasourcesInv
  BY DatasourcesSafe
<1> QED
  BY <1>1, <1>2, <1>3, PTL DEF DatasourcesSpec

----------------------------------------------------------------------------
(* The pages of a query: the inductive invariant.                            *)

\* How many rows the query has, and how many of them a page at an offset gets.
Size == LET n == IF query.limit = NoLimit \/ query.size - query.skip < query.limit
                 THEN query.size - query.skip ELSE query.limit
        IN  IF n < 0 THEN 0 ELSE n

Room(off) == IF PageSize < MaxResultRows - off THEN PageSize ELSE MaxResultRows - off

Portion(size, off, n) == LET m == IF size - off < n THEN size - off ELSE n
                         IN  IF m < 0 THEN 0 ELSE m

RowsFrom(first, n) == [i \in 1..n |-> first + i]

PageStates == Ended \union {"none", "pending", "running"}
JobRecs == [st : PageStates, tries : 0..MaxRetries, cancel : BOOLEAN]
PullPcs == {"idle", "read", "flush", "peek", "settle", "catalog"} \union Ended
PullsSet == [deaths : Nat, evicting : BOOLEAN, again : BOOLEAN, emptied : BOOLEAN]

QueryTyped ==
    query \in [size : TableSizes, limit : UserLimits, skip : UserOffsets, ordered : BOOLEAN]

SpoolTyped ==
    /\ pages \in [present : BOOLEAN, rows : Seq(Int), more : BOOLEAN, trunc : BOOLEAN]
    /\ Len(pages.rows) <= SpoolMax
    /\ pages.rows # <<>> => pages.present
    /\ catalog \in [state : {"none", "streaming", "complete", "failed", "closed"},
                    total : (0..SpoolMax) \union {-1}]

PullTyped ==
    /\ pageJob \in [Offsets -> JobRecs]
    /\ puller \in [pc : PullPcs, off : Offsets, rows : Seq(Int), more : BOOLEAN]
    /\ pulls \in PullsSet

\* A download token is made once, for an export that has none, and is used once.
PagerSet == [op : {"none", "page", "export", "token", "download"}, arg : Int \union Exports]

ExportSet == [st : Ended \union {"none", "pending"}, token : {"none", "live", "consumed"},
              file : Seq(Int), deadline : 0..2, served : {0, 1}]

Tokens ==
    /\ pager \in [Pagers -> PagerSet]
    /\ export \in [Exports -> ExportSet]
    /\ \A x \in Exports : /\ export[x].token # "consumed" => export[x].served = 0
                          /\ export[x].st = "none" => export[x].token = "none"
    /\ \A q \in Pagers : pager[q].op = "token" =>
          /\ pager[q].arg \in Exports
          /\ export[pager[q].arg].token = "none" /\ export[pager[q].arg].st # "none"
          /\ \A p \in Pagers : p # q /\ pager[p].op = "token" => pager[p].arg # pager[q].arg
    /\ \A q \in Pagers : pager[q].op = "download" =>
          /\ pager[q].arg \in Exports /\ export[pager[q].arg].token # "none"

\* A query begins with its first job, and the worker is at a running one.
Begun ==
    /\ \A q \in Pagers : pager[q].op = "page" => pager[q].arg \in Offsets
    /\ puller.pc # "idle" => pageJob[puller.off].st = "running"
    /\ pageJob[0].st = "none" => /\ \A o \in Offsets : pageJob[o].st = "none"
                                 /\ pages = NoPages
                                 /\ \A q \in Pagers : pager[q].op # "page"

\* Until the query is disturbed, the page to come is the one behind the spool: the
\* job that is to write is at its end, and so are those about to be asked for.
Front ==
    /\ \A o \in Offsets : pageJob[o].st = "pending" =>
          /\ o = Len(pages.rows) /\ (o # 0 => pages.present)
    /\ puller.pc \in {"read", "flush"} =>
          /\ puller.off = Len(pages.rows) /\ (puller.off # 0 => pages.present)
    /\ \A q \in Pagers : pager[q].op = "page" /\ pageJob[pager[q].arg].st = "none" =>
          pager[q].arg = Len(pages.rows) /\ pages.present

\* What the worker holds is the page of its offset.  Whether there is more it knows
\* before it flushes a short page, and otherwise once it has looked.
Beyond(off) == Size - off > Room(off)

Held ==
    /\ puller.pc \in {"flush", "peek", "settle"} =>
          /\ puller.off <= Size
          /\ puller.rows = RowsFrom(query.skip + puller.off,
                                    Portion(Size, puller.off, Room(puller.off)))
    /\ puller.pc = "flush" /\ Len(puller.rows) < PageSize =>
          (puller.more <=> Beyond(puller.off))
    /\ puller.pc = "settle" /\ ~pages.trunc => (puller.more <=> Beyond(puller.off))

\* The spool is the beginning of the answer, and the page is in it unless it was cut.
Laid ==
    /\ Len(pages.rows) <= Size
    /\ pages.rows = RowsFrom(query.skip, Len(pages.rows))
    /\ puller.pc \in {"peek", "settle"} /\ ~pages.trunc =>
          Len(pages.rows) = puller.off + Len(puller.rows)
    /\ pages.more \/ pages.trunc => pages.rows # <<>>

\* Once the first page is settled, a spool that offers no more is the whole answer.
Settled == pageJob[0].st = "success" \/ puller.pc \in {"catalog", "success"}

Whole ==
    /\ Settled /\ pages.present /\ ~pages.more => Len(pages.rows) = Size
    /\ puller.pc \in {"catalog", "success"} /\ ~pages.more => Len(pages.rows) = Size

Shown == catalog.state = "complete" /\ catalog.total # -1 => catalog.total = Size

Worker ==
    /\ SpoolTyped /\ PullTyped /\ Begun
    /\ Undisturbed => Front /\ Held /\ Laid /\ Whole /\ Shown

PagedIInv == QueryTyped /\ Tokens /\ Worker

\* The smaller and the larger of two numbers.
LEMMA MinOfTwo ==
  ASSUME NEW a \in Int, NEW b \in Int
  PROVE  Min({a, b}) = IF a < b THEN a ELSE b
<1> DEFINE P(x) == x \in {a, b} /\ \A y \in {a, b} : x =< y
<1>1. P(IF a < b THEN a ELSE b)
  OBVIOUS
<1>2. \A x : P(x) => x = IF a < b THEN a ELSE b
  OBVIOUS
<1> QED
  BY <1>1, <1>2 DEF Min

LEMMA MaxOfTwo ==
  ASSUME NEW a \in Int, NEW b \in Int
  PROVE  Max({a, b}) = IF a < b THEN b ELSE a
<1> DEFINE P(x) == x \in {a, b} /\ \A y \in {a, b} : x >= y
<1>1. P(IF a < b THEN b ELSE a)
  OBVIOUS
<1>2. \A x : P(x) => x = IF a < b THEN b ELSE a
  OBVIOUS
<1> QED
  BY <1>1, <1>2 DEF Max

LEMMA QueryNumbers ==
  ASSUME QueryTyped
  PROVE  /\ query.size \in Nat /\ query.skip \in Nat
         /\ query.limit \in Int /\ (query.limit # NoLimit => query.limit \in Nat)
         /\ NoLimit = -1 /\ Size \in Nat
         /\ MaxResultRows \in Nat \ {0} /\ PageSize \in Nat \ {0} /\ SpoolMax \in Nat \ {0}
<1>1. /\ query.size \in Nat /\ query.skip \in Nat
      /\ query.limit \in Nat \union {NoLimit}
  BY PagedQueryBounds DEF QueryTyped
<1> QED
  BY <1>1, PagedQueryBounds DEF NoLimit, Size

\* The answer is the rows behind the query's own offset.
LEMMA AnswerIs ==
  ASSUME QueryTyped
  PROVE  Answer = RowsFrom(query.skip, Size) /\ Len(Answer) = Size
<1> DEFINE last == IF query.limit = NoLimit THEN query.size
                   ELSE Min({query.size, query.skip + query.limit})
<1>1. last = IF query.limit = NoLimit \/ query.size < query.skip + query.limit
             THEN query.size ELSE query.skip + query.limit
  BY QueryNumbers, MinOfTwo
<1>2. last \in Int
  BY <1>1, QueryNumbers
<1> HIDE DEF last
<1>3. Max({0, last - (query.skip + 1) + 1}) = Size
  <2>1. last - (query.skip + 1) + 1 \in Int
    BY <1>2, QueryNumbers
  <2>2. Max({0, last - (query.skip + 1) + 1}) =
          IF 0 < last - (query.skip + 1) + 1 THEN last - (query.skip + 1) + 1 ELSE 0
    BY <2>1, MaxOfTwo
  <2> QED
    BY <2>2, <1>1, <1>2, QueryNumbers DEF Size
<1>4. Answer = [i \in 1..Size |-> (query.skip + 1) + i - 1]
  BY <1>3 DEF Answer, RowNumbers, last
<1>5. \A i \in 1..Size : (query.skip + 1) + i - 1 = query.skip + i
  BY QueryNumbers
<1>6. Answer = [i \in 1..Size |-> query.skip + i]
  BY <1>4, <1>5
<1> QED
  BY <1>6, QueryNumbers DEF RowsFrom

\* A page holds the rows of the answer behind its offset.
LEMMA WindowIs ==
  ASSUME QueryTyped, NEW off \in Nat, NEW n \in Nat
  PROVE  PageWindow(off, n) = RowsFrom(query.skip + off, Portion(Size, off, n))
<1> DEFINE rows == IF query.limit = NoLimit THEN n ELSE Min({n, Max({0, query.limit - off})})
           last == Min({query.size, query.skip + off + rows})
<1>1. query.limit # NoLimit => Max({0, query.limit - off}) =
                               IF 0 < query.limit - off THEN query.limit - off ELSE 0
  BY QueryNumbers, MaxOfTwo
<1>2. rows = IF query.limit = NoLimit THEN n
             ELSE LET r == IF 0 < query.limit - off THEN query.limit - off ELSE 0
                  IN  IF n < r THEN n ELSE r
  BY <1>1, QueryNumbers, MinOfTwo
<1>3. rows \in Nat
  BY <1>2, QueryNumbers
<1> HIDE DEF rows
<1>4. last = IF query.size < query.skip + off + rows THEN query.size ELSE query.skip + off + rows
  BY <1>3, QueryNumbers, MinOfTwo
<1>5. last \in Int
  BY <1>3, <1>4, QueryNumbers
<1> HIDE DEF last
<1>6. Max({0, last - (query.skip + off + 1) + 1}) = Portion(Size, off, n)
  <2>1. last - (query.skip + off + 1) + 1 \in Int
    BY <1>5, QueryNumbers
  <2>2. Max({0, last - (query.skip + off + 1) + 1}) =
          IF 0 < last - (query.skip + off + 1) + 1 THEN last - (query.skip + off + 1) + 1 ELSE 0
    BY <2>1, MaxOfTwo
  <2> QED
    BY <2>2, <1>2, <1>3, <1>4, QueryNumbers DEF Portion, Size
<1>7. PageWindow(off, n) = [i \in 1..Portion(Size, off, n) |-> (query.skip + off + 1) + i - 1]
  BY <1>6 DEF PageWindow, RowNumbers, rows, last
<1>8. \A i \in 1..Portion(Size, off, n) : (query.skip + off + 1) + i - 1 = query.skip + off + i
  BY QueryNumbers
<1>9. PageWindow(off, n) = [i \in 1..Portion(Size, off, n) |-> query.skip + off + i]
  BY <1>7, <1>8
<1> QED
  BY <1>9 DEF RowsFrom

\* Consecutive rows as sequences.
LEMMA RowsAre ==
  ASSUME NEW f \in Int, NEW n \in Nat
  PROVE  /\ RowsFrom(f, n) \in Seq(Int) /\ Len(RowsFrom(f, n)) = n
         /\ \A i \in 1..n : RowsFrom(f, n)[i] = f + i
         /\ (n = 0 <=> RowsFrom(f, n) = <<>>)
<1>1. RowsFrom(f, n) \in Seq(Int) /\ Len(RowsFrom(f, n)) = n
  BY DEF RowsFrom
<1>2. \A i \in 1..n : RowsFrom(f, n)[i] = f + i
  BY DEF RowsFrom
<1>3. n = 0 <=> RowsFrom(f, n) = <<>>
  BY <1>1, EmptySeq
<1> QED
  BY <1>1, <1>2, <1>3

LEMMA RowsPrefix ==
  ASSUME NEW f \in Int, NEW n \in Nat, NEW k \in 0..n
  PROVE  SubSeq(RowsFrom(f, n), 1, k) = RowsFrom(f, k)
<1> DEFINE s == SubSeq(RowsFrom(f, n), 1, k)
           t == RowsFrom(f, k)
<1>1. RowsFrom(f, n) \in Seq(Int) /\ Len(RowsFrom(f, n)) = n
  BY RowsAre
<1>2. s \in Seq(Int) /\ Len(s) = k
  BY <1>1, SubSeqProperties
<1>3. t \in Seq(Int) /\ Len(t) = k
  BY RowsAre
<1>4. ASSUME NEW i \in 1..k PROVE s[i] = t[i]
  <2>1. s[i] = RowsFrom(f, n)[i]
    BY <1>1, SubSeqProperties
  <2>2. i \in 1..n
    OBVIOUS
  <2> QED
    BY <2>1, <2>2, RowsAre
<1> HIDE DEF s, t
<1>5. s = t
  BY <1>2, <1>3, <1>4, SeqEqual
<1> QED
  BY <1>5 DEF s, t

LEMMA RowsJoin ==
  ASSUME NEW f \in Int, NEW m \in Nat, NEW n \in Nat
  PROVE  RowsFrom(f, m) \o RowsFrom(f + m, n) = RowsFrom(f, m + n)
<1> DEFINE a == RowsFrom(f, m)
           b == RowsFrom(f + m, n)
           t == RowsFrom(f, m + n)
<1>1. a \in Seq(Int) /\ Len(a) = m /\ \A i \in 1..m : a[i] = f + i
  BY RowsAre
<1>2. b \in Seq(Int) /\ Len(b) = n /\ \A i \in 1..n : b[i] = f + m + i
  BY RowsAre
<1>3. t \in Seq(Int) /\ Len(t) = m + n /\ \A i \in 1..(m + n) : t[i] = f + i
  BY RowsAre
<1> HIDE DEF a, b, t
<1>4. a \o b \in Seq(Int) /\ Len(a \o b) = m + n
  BY <1>1, <1>2, ConcatProperties
<1>5. ASSUME NEW i \in 1..(m + n) PROVE (a \o b)[i] = t[i]
  <2>1. (a \o b)[i] = IF i <= m THEN a[i] ELSE b[i - m]
    BY <1>1, <1>2, <1>4, ConcatProperties
  <2> QED
    BY <2>1, <1>1, <1>2, <1>3
<1>6. a \o b = t
  BY <1>3, <1>4, <1>5, SeqEqual
<1> QED
  BY <1>6 DEF a, b, t

\* What a read gives.
LEMMA RoomIs ==
  ASSUME QueryTyped, NEW off \in Offsets
  PROVE  /\ off \in Nat /\ off < MaxResultRows
         /\ PullRows(off) = Room(off) /\ Room(off) \in Nat \ {0}
         /\ \A n \in Nat : Portion(Size, off, n) \in Nat
<1>1. off \in Nat /\ off < MaxResultRows /\ MaxResultRows - off \in Int
  BY QueryNumbers DEF Offsets
<1>2. PullRows(off) = IF PageSize < MaxResultRows - off THEN PageSize ELSE MaxResultRows - off
  BY <1>1, QueryNumbers, MinOfTwo DEF PullRows
<1>3. Room(off) \in Nat \ {0}
  BY <1>1, QueryNumbers DEF Room
<1>4. \A n \in Nat : Portion(Size, off, n) \in Nat
  BY <1>1, QueryNumbers DEF Portion
<1> QED
  BY <1>1, <1>2, <1>3, <1>4 DEF Room

LEMMA ReadIs ==
  ASSUME QueryTyped, NEW off \in Offsets
  PROVE  /\ PageWindow(off, PullRows(off)) = RowsFrom(query.skip + off, Portion(Size, off, Room(off)))
         /\ RowBeyond(off) <=> Beyond(off)
<1> DEFINE r == Room(off)
           f == query.skip + off
           w == Portion(Size, off, r + 1)
<1>1. r \in Nat \ {0} /\ PullRows(off) = r /\ off \in Nat /\ w \in Nat /\ f \in Int
  BY RoomIs, QueryNumbers
<1> HIDE DEF r
<1>2. /\ PageWindow(off, r) = RowsFrom(f, Portion(Size, off, r))
      /\ PageWindow(off, r + 1) = RowsFrom(f, w)
  BY <1>1, WindowIs
<1>3. Len(PageWindow(off, r + 1)) = w
  BY <1>1, <1>2, RowsAre
<1>4. (w > r) <=> (Size - off > r)
  <2>1. Size \in Nat /\ r \in Nat /\ off \in Nat
    BY <1>1, QueryNumbers
  <2> QED
    BY <2>1 DEF Portion
<1>5. RowBeyond(off) <=> w > r
  BY <1>1, <1>3 DEF RowBeyond
<1> QED
  BY <1>1, <1>2, <1>4, <1>5 DEF r, Beyond

----------------------------------------------------------------------------
(* The requests: pages asked for, exports and downloads.                     *)

\* The query does not change.
LEMMA QueryKept ==
  ASSUME QueryTyped, query' = query
  PROVE  QueryTyped' /\ Size' = Size
BY DEF QueryTyped, Size

\* The worker's part does not depend on requests that ask for no page.
LEMMA WorkerKept ==
  ASSUME QueryTyped, Worker, query' = query, pageJob' = pageJob, pages' = pages, catalog' = catalog,
         puller' = puller, pulls' = pulls,
         \A q \in Pagers : pager'[q].op = "page" =>
             \/ pager'[q] = pager[q]
             \/ /\ pager'[q].arg \in Offsets /\ pageJob[0].st # "none"
                /\ pager'[q].arg = Len(pages.rows) /\ pages.present
  PROVE  Worker'
<1>1. Size' = Size
  BY QueryKept
<1>2. SpoolTyped' /\ PullTyped'
  BY DEF Worker, SpoolTyped, PullTyped
<1>3. Begun'
  BY DEF Worker, Begun
<1>4. ASSUME Undisturbed PROVE Front' /\ Held' /\ Laid' /\ Whole' /\ Shown'
  <2>1. Front /\ Held /\ Laid /\ Whole /\ Shown
    BY <1>4 DEF Worker
  <2>2. Front'
    BY <2>1 DEF Front
  <2>3. Held'
    BY <2>1, <1>1 DEF Held, Beyond
  <2>4. Laid' /\ Shown'
    BY <2>1, <1>1 DEF Laid, Shown
  <2>5. Whole'
    BY <2>1, <1>1 DEF Whole, Settled
  <2> QED
    BY <2>2, <2>3, <2>4, <2>5
<1> QED
  BY <1>2, <1>3, <1>4 DEF Worker, Undisturbed

\* A request changes, and no token is in its hands.
LEMMA PagerMoves ==
  ASSUME Tokens, NEW q \in Pagers, NEW r \in PagerSet,
         pager' = [pager EXCEPT ![q] = r], export' = export, r.op \notin {"token", "download"}
  PROVE  Tokens'
<1>1. \A p \in Pagers : pager'[p] = IF p = q THEN r ELSE pager[p]
  BY DEF Tokens
<1>2. pager' \in [Pagers -> PagerSet]
  BY DEF Tokens
<1> QED
  BY <1>1, <1>2 DEF Tokens

LEMMA PageAskKeeps ==
  ASSUME QueryTyped, Tokens, Worker, NEW q \in Pagers, PageAsk(q)
  PROVE  QueryTyped' /\ Tokens' /\ Worker'
<1>1. /\ query' = query /\ pageJob' = pageJob /\ pages' = pages /\ catalog' = catalog
      /\ puller' = puller /\ export' = export /\ pulls' = pulls
      /\ pager' = [pager EXCEPT ![q] = [op |-> "page", arg |-> Len(pages.rows)]]
      /\ pageJob[0].st # "none" /\ pages.present /\ Len(pages.rows) < MaxResultRows
  BY DEF PageAsk, MayPage
<1>2. Len(pages.rows) \in Nat
  BY DEF Worker, SpoolTyped
<1>3. Len(pages.rows) \in Offsets
  BY <1>1, <1>2, QueryNumbers DEF Offsets
<1>4. Tokens'
  <2>1. [op |-> "page", arg |-> Len(pages.rows)] \in PagerSet
    BY <1>2 DEF PagerSet
  <2> QED
    BY <1>1, <2>1, PagerMoves
<1>5. \A p \in Pagers : pager'[p] = IF p = q THEN [op |-> "page", arg |-> Len(pages.rows)] ELSE pager[p]
  BY <1>1 DEF Tokens
<1>6. Worker'
  BY <1>1, <1>3, <1>5, WorkerKept
<1> QED
  BY <1>1, <1>4, <1>6, QueryKept

LEMMA ExportAskKeeps ==
  ASSUME QueryTyped, Tokens, Worker, NEW q \in Pagers, ExportAsk(q)
  PROVE  QueryTyped' /\ Tokens' /\ Worker'
<1>1. /\ query' = query /\ pageJob' = pageJob /\ pages' = pages /\ catalog' = catalog
      /\ puller' = puller /\ export' = export /\ pulls' = pulls
      /\ pager' = [pager EXCEPT ![q] = [op |-> "export", arg |-> 0]]
  BY DEF ExportAsk
<1>2. Tokens'
  <2>1. [op |-> "export", arg |-> 0] \in PagerSet
    BY DEF PagerSet
  <2> QED
    BY <1>1, <2>1, PagerMoves
<1>3. \A p \in Pagers : pager'[p] = IF p = q THEN [op |-> "export", arg |-> 0] ELSE pager[p]
  BY <1>1 DEF Tokens
<1>4. Worker'
  BY <1>1, <1>3, WorkerKept
<1> QED
  BY <1>1, <1>2, <1>4, QueryKept

\* An export changes and its token does not, or is used up.
LEMMA ExportMoves ==
  ASSUME Tokens, NEW x \in Exports, NEW e \in ExportSet,
         export' = [export EXCEPT ![x] = e], pager' = pager,
         e.st = "none" <=> export[x].st = "none",
         e.token = export[x].token, e.served = export[x].served
  PROVE  Tokens'
<1>1. \A y \in Exports : export'[y] = IF y = x THEN e ELSE export[y]
  BY DEF Tokens
<1>2. export' \in [Exports -> ExportSet]
  BY DEF Tokens
<1> QED
  BY <1>1, <1>2 DEF Tokens

LEMMA ExportRunsKeeps ==
  ASSUME QueryTyped, Tokens, Worker, NEW x \in Exports, ExportRuns(x) \/ TokenAges(x)
  PROVE  QueryTyped' /\ Tokens' /\ Worker'
<1>1. /\ query' = query /\ pageJob' = pageJob /\ pages' = pages /\ catalog' = catalog
      /\ puller' = puller /\ pager' = pager /\ pulls' = pulls
  BY DEF ExportRuns, TokenAges
<1>2. export[x] \in ExportSet
  BY DEF Tokens
<1>3. \E e \in ExportSet : /\ export' = [export EXCEPT ![x] = e]
                           /\ e.st = "none" <=> export[x].st = "none"
                           /\ e.token = export[x].token /\ e.served = export[x].served
  <2>1. CASE ExportRuns(x) /\ export' = [export EXCEPT ![x].st = "success", ![x].file = pages.rows]
    <3> DEFINE e == [export[x] EXCEPT !.st = "success", !.file = pages.rows]
    <3>1. pages.rows \in Seq(Int) /\ export[x].st = "pending"
      BY <2>1 DEF Worker, SpoolTyped, ExportRuns
    <3>2. /\ e \in ExportSet /\ e.st = "success"
          /\ e.token = export[x].token /\ e.served = export[x].served
      BY <1>2, <3>1 DEF ExportSet, Ended
    <3>3. export' = [export EXCEPT ![x] = e]
      BY <2>1 DEF Tokens, ExportSet
    <3> QED
      BY <3>1, <3>2, <3>3
  <2>2. CASE ExportRuns(x) /\ export' = [export EXCEPT ![x].st = "failed"]
    <3> DEFINE e == [export[x] EXCEPT !.st = "failed"]
    <3>1. export[x].st = "pending"
      BY <2>2 DEF ExportRuns
    <3>2. /\ e \in ExportSet /\ e.st = "failed"
          /\ e.token = export[x].token /\ e.served = export[x].served
      BY <1>2 DEF ExportSet, Ended
    <3>3. export' = [export EXCEPT ![x] = e]
      BY <2>2
    <3> QED
      BY <3>1, <3>2, <3>3
  <2>3. CASE TokenAges(x)
    <3> DEFINE e == [export[x] EXCEPT !.deadline = export[x].deadline + 1]
    <3>1. export[x].deadline + 1 \in 0..2
      BY <2>3 DEF TokenAges
    <3>2. /\ e \in ExportSet /\ e.st = export[x].st
          /\ e.token = export[x].token /\ e.served = export[x].served
      BY <1>2, <3>1 DEF ExportSet
    <3>3. export' = [export EXCEPT ![x] = e]
      BY <2>3 DEF TokenAges
    <3> QED
      BY <3>2, <3>3
  <2> QED
    BY <2>1, <2>2, <2>3 DEF ExportRuns
<1>4. Tokens'
  BY <1>1, <1>3, ExportMoves
<1>5. Worker'
  BY <1>1, WorkerKept
<1> QED
  BY <1>1, <1>4, <1>5, QueryKept

LEMMA ExportEnqueueKeeps ==
  ASSUME QueryTyped, Tokens, Worker,
         NEW q \in Pagers, NEW x \in Exports, ExportEnqueue(q, x)
  PROVE  QueryTyped' /\ Tokens' /\ Worker'
<1>1. /\ query' = query /\ pageJob' = pageJob /\ pages' = pages /\ catalog' = catalog
      /\ puller' = puller /\ pulls' = pulls
      /\ export[x].st = "none" /\ export' = [export EXCEPT ![x].st = "pending"]
      /\ pager' = [pager EXCEPT ![q] = [op |-> "token", arg |-> x]]
  BY DEF ExportEnqueue
<1>2. \A p \in Pagers : pager'[p] = IF p = q THEN [op |-> "token", arg |-> x] ELSE pager[p]
  BY <1>1 DEF Tokens
<1>3. pager' \in [Pagers -> PagerSet]
  <2>1. [op |-> "token", arg |-> x] \in PagerSet
    BY DEF PagerSet
  <2> QED
    BY <1>1, <2>1 DEF Tokens
<1>4. export[x] \in ExportSet
  BY DEF Tokens
<1>5. /\ export' \in [Exports -> ExportSet]
      /\ \A y \in Exports : /\ export'[y].st = IF y = x THEN "pending" ELSE export[y].st
                            /\ export'[y].token = export[y].token
                            /\ export'[y].served = export[y].served
  BY <1>1, <1>4 DEF Tokens, ExportSet
<1>6. Tokens'
  BY <1>1, <1>2, <1>3, <1>5 DEF Tokens
<1>7. Worker'
  BY <1>1, <1>2, WorkerKept
<1> QED
  BY <1>1, <1>6, <1>7, QueryKept

LEMMA ExportTokenKeeps ==
  ASSUME QueryTyped, Tokens, Worker, NEW q \in Pagers, ExportToken(q)
  PROVE  QueryTyped' /\ Tokens' /\ Worker'
<1> DEFINE x == pager[q].arg
<1>1. /\ query' = query /\ pageJob' = pageJob /\ pages' = pages /\ catalog' = catalog
      /\ puller' = puller /\ pulls' = pulls
      /\ pager[q].op = "token" /\ export' = [export EXCEPT ![x].token = "live"]
      /\ pager' = [pager EXCEPT ![q] = IdlePager]
  BY DEF ExportToken
<1>2. \A p \in Pagers : pager'[p] = IF p = q THEN IdlePager ELSE pager[p]
  BY <1>1 DEF Tokens
<1>3. pager' \in [Pagers -> PagerSet] /\ IdlePager.op = "none"
  <2>1. IdlePager \in PagerSet /\ IdlePager.op = "none"
    BY DEF PagerSet, IdlePager
  <2> QED
    BY <1>1, <2>1 DEF Tokens
<1>4. x \in Exports /\ export[x].token = "none" /\ export[x].st # "none" /\ export[x] \in ExportSet
  BY <1>1 DEF Tokens
<1>5. /\ export' \in [Exports -> ExportSet]
      /\ \A y \in Exports : /\ export'[y].st = export[y].st
                            /\ export'[y].token = IF y = x THEN "live" ELSE export[y].token
                            /\ export'[y].served = export[y].served
  BY <1>1, <1>4 DEF Tokens, ExportSet
<1>6. Tokens'
  BY <1>1, <1>2, <1>3, <1>4, <1>5 DEF Tokens
<1>7. Worker'
  BY <1>1, <1>2, <1>3, WorkerKept
<1> QED
  BY <1>1, <1>6, <1>7, QueryKept

LEMMA DownloadAskKeeps ==
  ASSUME QueryTyped, Tokens, Worker,
         NEW q \in Pagers, NEW x \in Exports, DownloadAsk(q, x)
  PROVE  QueryTyped' /\ Tokens' /\ Worker'
<1>1. /\ query' = query /\ pageJob' = pageJob /\ pages' = pages /\ catalog' = catalog
      /\ puller' = puller /\ pulls' = pulls /\ export' = export
      /\ export[x].token = "live"
      /\ pager' = [pager EXCEPT ![q] = [op |-> "download", arg |-> x]]
  BY DEF DownloadAsk
<1>2. \A p \in Pagers : pager'[p] = IF p = q THEN [op |-> "download", arg |-> x] ELSE pager[p]
  BY <1>1 DEF Tokens
<1>3. pager' \in [Pagers -> PagerSet]
  <2>1. [op |-> "download", arg |-> x] \in PagerSet
    BY DEF PagerSet
  <2> QED
    BY <1>1, <2>1 DEF Tokens
<1>4. Tokens'
  BY <1>1, <1>2, <1>3 DEF Tokens
<1>5. Worker'
  BY <1>1, <1>2, WorkerKept
<1> QED
  BY <1>1, <1>4, <1>5, QueryKept

LEMMA DownloadConsumeKeeps ==
  ASSUME QueryTyped, Tokens, Worker, NEW q \in Pagers, DownloadConsume(q)
  PROVE  QueryTyped' /\ Tokens' /\ Worker'
<1> DEFINE x == pager[q].arg
<1>1. /\ query' = query /\ pageJob' = pageJob /\ pages' = pages /\ catalog' = catalog
      /\ puller' = puller /\ pulls' = pulls /\ pager[q].op = "download"
      /\ pager' = [pager EXCEPT ![q] = IdlePager]
  BY DEF DownloadConsume
<1>2. \A p \in Pagers : pager'[p] = IF p = q THEN IdlePager ELSE pager[p]
  BY <1>1 DEF Tokens
<1>3. pager' \in [Pagers -> PagerSet] /\ IdlePager.op = "none"
  <2>1. IdlePager \in PagerSet /\ IdlePager.op = "none"
    BY DEF PagerSet, IdlePager
  <2> QED
    BY <1>1, <2>1 DEF Tokens
<1>4. x \in Exports /\ export[x] \in ExportSet
  BY <1>1 DEF Tokens
<1>5. CASE export[x].token = "live"
  <2>1. export' = [export EXCEPT ![x].token = "consumed", ![x].served = export[x].served + 1]
    BY <1>5 DEF DownloadConsume, Consume
  <2>2. export[x].served = 0
    BY <1>4, <1>5 DEF Tokens
  <2>3. export' = [export EXCEPT ![x] = [export[x] EXCEPT !.token = "consumed", !.served = 1]]
    <3>1. export[x].served + 1 = 1
      BY <2>2
    <3>2. export' = [export EXCEPT ![x].token = "consumed", ![x].served = 1]
      BY <2>1, <3>1
    <3> QED
      BY <3>2 DEF Tokens, ExportSet
  <2>4. /\ export' \in [Exports -> ExportSet]
        /\ \A y \in Exports : /\ export'[y].st = export[y].st
                              /\ export'[y].token = IF y = x THEN "consumed" ELSE export[y].token
                              /\ y # x => export'[y].served = export[y].served
    BY <1>4, <2>3 DEF Tokens, ExportSet
  <2>5. Tokens'
    BY <1>2, <1>3, <1>4, <1>5, <2>4 DEF Tokens
  <2> QED
    BY <1>1, <1>2, <1>3, <2>5, WorkerKept, QueryKept
<1>6. CASE export[x].token # "live"
  <2>1. export' = export
    BY <1>6 DEF DownloadConsume, Consume
  <2>2. Tokens'
    BY <1>2, <1>3, <2>1 DEF Tokens
  <2> QED
    BY <1>1, <1>2, <1>3, <2>2, WorkerKept, QueryKept
<1> QED
  BY <1>5, <1>6

----------------------------------------------------------------------------
(* The jobs of a query.                                                      *)

LEMMA TokensKept ==
  ASSUME Tokens, pager' = pager, export' = export
  PROVE  Tokens'
BY DEF Tokens

\* A job changes its state.
LEMMA PageMoves ==
  ASSUME PullTyped, NEW o \in Offsets, NEW s \in PageStates,
         pageJob' = [pageJob EXCEPT ![o].st = s]
  PROVE  /\ pageJob' \in [Offsets -> JobRecs]
         /\ \A p \in Offsets : pageJob'[p].st = IF p = o THEN s ELSE pageJob[p].st
<1>1. pageJob[o] \in JobRecs /\ pageJob \in [Offsets -> JobRecs]
  BY DEF PullTyped
<1> QED
  BY <1>1 DEF JobRecs

LEMMA RootIs == ASSUME QueryTyped PROVE 0 \in Offsets
BY QueryNumbers DEF Offsets

\* The part of the invariant that ends when the query is disturbed, for a step that
\* leaves the spool and what the worker holds alone.
LEMMA CourseKept ==
  ASSUME QueryTyped, query' = query, pages' = pages,
         Front', Held, Laid, Whole, Shown,
         \/ puller' = puller
         \/ puller'.pc \in {"idle", "read", "cancelled", "failed"},
         Settled' => Settled,
         \/ catalog' = catalog
         \/ catalog'.state # "complete"
  PROVE  Front' /\ Held' /\ Laid' /\ Whole' /\ Shown'
<1>1. Size' = Size
  BY QueryKept
<1>2. Held'
  BY <1>1 DEF Held, Beyond
<1>3. Laid' /\ Shown'
  BY <1>1 DEF Laid, Shown
<1>4. Whole'
  <2>1. pages'.present = pages.present /\ pages'.more = pages.more /\ pages'.rows = pages.rows
    OBVIOUS
  <2>2. puller'.pc \in {"catalog", "success"} => puller.pc \in {"catalog", "success"}
    OBVIOUS
  <2> QED
    BY <1>1, <2>1, <2>2 DEF Whole
<1> QED
  BY <1>2, <1>3, <1>4

LEMMA ExecuteSqlKeeps ==
  ASSUME QueryTyped, Tokens, Worker, ExecuteSql
  PROVE  QueryTyped' /\ Tokens' /\ Worker'
<1>1. /\ query' = query /\ pages' = pages /\ puller' = puller /\ pager' = pager
      /\ export' = export /\ pulls' = pulls /\ pageJob[0].st = "none"
      /\ pageJob' = [pageJob EXCEPT ![0].st = "pending"]
      /\ catalog' = [state |-> "streaming", total |-> -1]
  BY DEF ExecuteSql
<1>2. /\ \A o \in Offsets : pageJob[o].st = "none"
      /\ pages = NoPages /\ \A q \in Pagers : pager[q].op # "page"
  BY <1>1 DEF Worker, Begun
<1>3. puller.pc = "idle"
  BY <1>2 DEF Worker, Begun, PullTyped
<1>4. /\ pageJob' \in [Offsets -> JobRecs]
      /\ \A p \in Offsets : pageJob'[p].st = IF p = 0 THEN "pending" ELSE pageJob[p].st
  BY <1>1, RootIs, PageMoves DEF Worker, PageStates
<1>5. SpoolTyped' /\ PullTyped'
  BY <1>1, <1>4 DEF Worker, SpoolTyped, PullTyped
<1>6. Begun'
  BY <1>1, <1>2, <1>3, <1>4, RootIs DEF Worker, Begun
<1>7. ASSUME Undisturbed PROVE Front' /\ Held' /\ Laid' /\ Whole' /\ Shown'
  <2>1. Front /\ Held /\ Laid /\ Whole /\ Shown
    BY <1>7 DEF Worker
  <2>2. Front'
    BY <1>1, <1>2, <1>3, <1>4 DEF Front, NoPages
  <2>3. Settled' => Settled
    BY <1>1, <1>4, RootIs DEF Settled
  <2>4. catalog'.state # "complete"
    BY <1>1
  <2> QED
    BY <1>1, <2>1, <2>2, <2>3, <2>4, CourseKept
<1> QED
  BY <1>1, <1>5, <1>6, <1>7, QueryKept, TokensKept DEF Worker, Undisturbed

LEMMA PageEnqueueKeeps ==
  ASSUME QueryTyped, Tokens, Worker, NEW q \in Pagers, PageEnqueue(q)
  PROVE  QueryTyped' /\ Tokens' /\ Worker'
<1> DEFINE a == pager[q].arg
<1>1. /\ query' = query /\ pages' = pages /\ puller' = puller /\ catalog' = catalog
      /\ export' = export /\ pulls' = pulls /\ pager[q].op = "page"
      /\ pager' = [pager EXCEPT ![q] = IdlePager]
  BY DEF PageEnqueue
<1>2. a \in Offsets /\ pageJob[0].st # "none"
  BY <1>1 DEF Worker, Begun
<1>3. \A p \in Pagers : pager'[p] = IF p = q THEN IdlePager ELSE pager[p]
  BY <1>1 DEF Tokens
<1>4. IdlePager \in PagerSet /\ IdlePager.op = "none"
  BY DEF PagerSet, IdlePager
<1>5. Tokens'
  BY <1>1, <1>4, PagerMoves
<1>6. CASE pageJob[a].st # "none"
  <2>1. pageJob' = pageJob
    BY <1>6 DEF PageEnqueue
  <2> QED
    BY <1>1, <1>3, <1>4, <1>5, <2>1, WorkerKept, QueryKept
<1>7. CASE pageJob[a].st = "none"
  <2>1. pageJob' = [pageJob EXCEPT ![a].st = "pending"]
    BY <1>7 DEF PageEnqueue
  <2>2. /\ pageJob' \in [Offsets -> JobRecs]
        /\ \A p \in Offsets : pageJob'[p].st = IF p = a THEN "pending" ELSE pageJob[p].st
    BY <2>1, <1>2, PageMoves DEF Worker, PageStates
  <2>3. SpoolTyped' /\ PullTyped'
    BY <1>1, <2>2 DEF Worker, SpoolTyped, PullTyped
  <2>4. puller.off \in Offsets
    BY DEF Worker, PullTyped
  <2>5. Begun'
    BY <1>1, <1>2, <1>3, <1>4, <1>7, <2>2, <2>4, RootIs DEF Worker, Begun
  <2>6. ASSUME Undisturbed PROVE Front' /\ Held' /\ Laid' /\ Whole' /\ Shown'
    <3>1. Front /\ Held /\ Laid /\ Whole /\ Shown
      BY <2>6 DEF Worker
    <3>2. a = Len(pages.rows) /\ pages.present
      BY <1>1, <1>7, <3>1 DEF Front
    <3>3. \A p \in Pagers : pager[p].op = "page" => pager[p].arg \in Offsets
      BY DEF Worker, Begun
    <3>4. Front'
      BY <1>1, <1>3, <1>4, <2>2, <3>1, <3>2, <3>3 DEF Front
    <3>5. Settled' => Settled
      BY <1>1, <2>2, RootIs DEF Settled
    <3> QED
      BY <1>1, <3>1, <3>4, <3>5, CourseKept
  <2> QED
    BY <1>1, <1>5, <2>3, <2>5, <2>6, QueryKept DEF Worker, Undisturbed
<1> QED
  BY <1>6, <1>7

LEMMA CancelPageKeeps ==
  ASSUME QueryTyped, Tokens, Worker, NEW o \in Offsets, CancelPage(o)
  PROVE  QueryTyped' /\ Tokens' /\ Worker'
<1>1. /\ query' = query /\ pages' = pages /\ puller' = puller /\ catalog' = catalog
      /\ pager' = pager /\ export' = export /\ pulls' = pulls
      /\ pageJob' = [pageJob EXCEPT ![o].cancel = TRUE]
  BY DEF CancelPage
<1>2. /\ pageJob' \in [Offsets -> JobRecs]
      /\ \A p \in Offsets : pageJob'[p].st = pageJob[p].st
  <2>1. pageJob[o] \in JobRecs /\ pageJob \in [Offsets -> JobRecs]
    BY DEF Worker, PullTyped
  <2> QED
    BY <1>1, <2>1 DEF JobRecs
<1>3. SpoolTyped' /\ PullTyped'
  BY <1>1, <1>2 DEF Worker, SpoolTyped, PullTyped
<1>4. puller.off \in Offsets
  BY DEF Worker, PullTyped
<1>5. Begun'
  BY <1>1, <1>2, <1>4, RootIs DEF Worker, Begun
<1>6. ASSUME Undisturbed PROVE Front' /\ Held' /\ Laid' /\ Whole' /\ Shown'
  <2>1. Front /\ Held /\ Laid /\ Whole /\ Shown
    BY <1>6 DEF Worker
  <2>2. \A p \in Pagers : pager[p].op = "page" => pager[p].arg \in Offsets
    BY DEF Worker, Begun
  <2>3. Front'
    BY <1>1, <1>2, <2>1, <2>2 DEF Front
  <2>4. Settled' => Settled
    BY <1>1, <1>2, RootIs DEF Settled
  <2> QED
    BY <1>1, <2>1, <2>3, <2>4, CourseKept
<1> QED
  BY <1>1, <1>3, <1>5, <1>6, QueryKept, TokensKept DEF Worker, Undisturbed

LEMMA PullBeginsKeeps ==
  ASSUME QueryTyped, Tokens, Worker, NEW o \in Offsets, PullBegins(o)
  PROVE  QueryTyped' /\ Tokens' /\ Worker'
<1>1. /\ query' = query /\ pages' = pages /\ pager' = pager /\ export' = export
      /\ pulls' = pulls /\ puller.pc = "idle" /\ pageJob[o].st = "pending"
      /\ pageJob' = [pageJob EXCEPT ![o].st = "running"]
  BY DEF PullBegins, Pulling
<1>2. catalog' = catalog \/ catalog' = [state |-> "streaming", total |-> -1]
  BY DEF PullBegins
<1>3. PICK s \in {"read", "cancelled", "failed"} :
        puller' = [pc |-> s, off |-> o, rows |-> <<>>, more |-> FALSE]
  BY DEF PullBegins, IdlePull
<1>4. /\ pageJob' \in [Offsets -> JobRecs]
      /\ \A p \in Offsets : pageJob'[p].st = IF p = o THEN "running" ELSE pageJob[p].st
  BY <1>1, PageMoves DEF Worker, PageStates
<1>5. SpoolTyped'
  BY <1>1, <1>2 DEF Worker, SpoolTyped
<1>6. PullTyped'
  BY <1>1, <1>3, <1>4 DEF Worker, PullTyped, PullPcs, Ended
<1>7. Begun'
  BY <1>1, <1>3, <1>4, RootIs DEF Worker, Begun
<1>8. ASSUME Undisturbed PROVE Front' /\ Held' /\ Laid' /\ Whole' /\ Shown'
  <2>1. Front /\ Held /\ Laid /\ Whole /\ Shown
    BY <1>8 DEF Worker
  <2>2. \A p \in Pagers : pager[p].op = "page" => pager[p].arg \in Offsets
    BY DEF Worker, Begun
  <2>3. puller'.pc = s /\ puller'.off = o
    BY <1>3
  <2>4. Front'
    BY <1>1, <1>4, <2>1, <2>2, <2>3 DEF Front
  <2>5. Settled' => Settled
    BY <1>4, <2>3, RootIs DEF Settled
  <2>6. catalog' = catalog \/ catalog'.state # "complete"
    BY <1>2
  <2> QED
    BY <1>1, <2>1, <2>3, <2>4, <2>5, <2>6, CourseKept
<1> QED
  BY <1>1, <1>5, <1>6, <1>7, <1>8, QueryKept, TokensKept DEF Worker, Undisturbed

LEMMA ReapPageKeeps ==
  ASSUME QueryTyped, Tokens, Worker, NEW o \in Offsets, ReapPage(o)
  PROVE  QueryTyped' /\ Tokens' /\ Worker'
<1>1. /\ query' = query /\ pages' = pages /\ puller' = puller /\ catalog' = catalog
      /\ pager' = pager /\ export' = export /\ puller.pc = "idle"
      /\ pageJob[o].st = "running"
  BY DEF ReapPage, Pulling
<1>2. pulls' = [pulls EXCEPT !.again = TRUE]
  BY DEF ReapPage
<1>3. pageJob[o] \in JobRecs /\ pageJob \in [Offsets -> JobRecs]
  BY DEF Worker, PullTyped
<1>4. PICK r \in JobRecs : r.st # "none" /\ pageJob' = [pageJob EXCEPT ![o] = r]
  <2>1. CASE pageJob[o].tries < MaxRetries
    <3> DEFINE r == [pageJob[o] EXCEPT !.st = "pending", !.tries = pageJob[o].tries + 1]
    <3>1. pageJob[o].tries + 1 \in 0..MaxRetries
      BY <1>3, <2>1, PagedQueryBounds DEF JobRecs
    <3>2. r \in JobRecs /\ r.st = "pending"
      BY <1>3, <3>1 DEF JobRecs, PageStates
    <3>3. pageJob' = [pageJob EXCEPT ![o] = r]
      BY <2>1 DEF ReapPage
    <3> QED
      BY <3>2, <3>3
  <2>2. CASE ~(pageJob[o].tries < MaxRetries)
    <3> DEFINE r == [pageJob[o] EXCEPT !.st = "failed"]
    <3>1. r \in JobRecs /\ r.st = "failed"
      BY <1>3 DEF JobRecs, PageStates, Ended
    <3>2. pageJob' = [pageJob EXCEPT ![o] = r]
      BY <2>2 DEF ReapPage
    <3> QED
      BY <3>1, <3>2
  <2> QED
    BY <2>1, <2>2
<1>5. /\ pageJob' \in [Offsets -> JobRecs]
      /\ \A p \in Offsets : p # o => pageJob'[p] = pageJob[p]
      /\ pageJob'[o].st # "none"
  BY <1>3, <1>4
<1>6. pulls' \in PullsSet /\ ~Undisturbed'
  BY <1>2 DEF Worker, PullTyped, PullsSet, Undisturbed
<1>7. SpoolTyped' /\ PullTyped'
  BY <1>1, <1>5, <1>6 DEF Worker, SpoolTyped, PullTyped
<1>8. Begun'
  BY <1>1, <1>5, RootIs DEF Worker, Begun
<1> QED
  BY <1>1, <1>6, <1>7, <1>8, QueryKept, TokensKept DEF Worker, Undisturbed

LEMMA WorkerDiesKeeps ==
  ASSUME QueryTyped, Tokens, Worker, WorkerDies
  PROVE  QueryTyped' /\ Tokens' /\ Worker'
<1>1. /\ query' = query /\ pages' = pages /\ pageJob' = pageJob /\ catalog' = catalog
      /\ pager' = pager /\ export' = export /\ puller' = IdlePull
  BY DEF WorkerDies
<1>2. pulls' = [pulls EXCEPT !.deaths = pulls.deaths + 1]
  BY DEF WorkerDies
<1>3. pulls' \in PullsSet /\ (Undisturbed' <=> Undisturbed)
  BY <1>2 DEF Worker, PullTyped, PullsSet, Undisturbed
<1>4. SpoolTyped' /\ PullTyped'
  <2>1. IdlePull \in [pc : PullPcs, off : Offsets, rows : Seq(Int), more : BOOLEAN]
    BY RootIs DEF IdlePull, PullPcs
  <2> QED
    BY <1>1, <1>3, <2>1 DEF Worker, SpoolTyped, PullTyped
<1>5. puller'.pc = "idle"
  BY <1>1 DEF IdlePull
<1>6. Begun'
  BY <1>1, <1>5 DEF Worker, Begun
<1>7. ASSUME Undisturbed PROVE Front' /\ Held' /\ Laid' /\ Whole' /\ Shown'
  <2>1. Front /\ Held /\ Laid /\ Whole /\ Shown
    BY <1>7 DEF Worker
  <2>2. Size' = Size
    BY <1>1, QueryKept
  <2>3. Front' /\ Held'
    BY <1>1, <1>5, <2>1 DEF Front, Held
  <2>4. Laid' /\ Whole' /\ Shown'
    BY <1>1, <1>5, <2>1, <2>2 DEF Laid, Whole, Settled, Shown
  <2> QED
    BY <2>3, <2>4
<1> QED
  BY <1>1, <1>3, <1>4, <1>6, <1>7, QueryKept, TokensKept DEF Worker, Undisturbed

\* The worker goes on with its page.
LEMMA PullMoves ==
  ASSUME PullTyped, NEW s \in PullPcs, puller' = [puller EXCEPT !.pc = s]
  PROVE  /\ puller' \in [pc : PullPcs, off : Offsets, rows : Seq(Int), more : BOOLEAN]
         /\ puller'.pc = s /\ puller'.off = puller.off /\ puller'.rows = puller.rows
         /\ puller'.more = puller.more
BY DEF PullTyped

LEMMA PullReadsKeeps ==
  ASSUME QueryTyped, Tokens, Worker, PullReads
  PROVE  QueryTyped' /\ Tokens' /\ Worker'
<1> DEFINE got == PageWindow(puller.off, PullRows(puller.off))
           b   == Len(got) < PageSize /\ RowBeyond(puller.off)
<1>1. /\ query' = query /\ pages' = pages /\ pageJob' = pageJob /\ catalog' = catalog
      /\ pager' = pager /\ export' = export /\ pulls' = pulls /\ puller.pc = "read"
      /\ puller' = [puller EXCEPT !.pc = "flush", !.rows = got, !.more = b]
  BY DEF PullReads, Pulling
<1>2. puller.off \in Offsets
  BY DEF Worker, PullTyped
<1>3. /\ got = RowsFrom(query.skip + puller.off, Portion(Size, puller.off, Room(puller.off)))
      /\ RowBeyond(puller.off) <=> Beyond(puller.off)
  BY <1>2, ReadIs
<1>4. b \in BOOLEAN /\ (Len(got) < PageSize => (b <=> Beyond(puller.off)))
  BY <1>3
<1> HIDE DEF got, b
<1>5. got \in Seq(Int)
  <2>1. puller.off \in Nat /\ Room(puller.off) \in Nat
    BY <1>2, RoomIs
  <2>2. Portion(Size, puller.off, Room(puller.off)) \in Nat /\ query.skip + puller.off \in Int
    BY <1>2, <2>1, RoomIs, QueryNumbers
  <2> QED
    BY <1>3, <2>2, RowsAre
<1>6. /\ puller' \in [pc : PullPcs, off : Offsets, rows : Seq(Int), more : BOOLEAN]
      /\ puller'.pc = "flush" /\ puller'.off = puller.off /\ puller'.rows = got
  BY <1>1, <1>4, <1>5 DEF Worker, PullTyped, PullPcs
<1>7. puller'.more = b
  BY <1>1 DEF Worker, PullTyped
<1>8. SpoolTyped' /\ PullTyped'
  BY <1>1, <1>6 DEF Worker, SpoolTyped, PullTyped
<1>9. Begun'
  BY <1>1, <1>6 DEF Worker, Begun
<1>10. ASSUME Undisturbed PROVE Front' /\ Held' /\ Laid' /\ Whole' /\ Shown'
  <2>1. Front /\ Held /\ Laid /\ Whole /\ Shown
    BY <1>10 DEF Worker
  <2>2. Size' = Size
    BY <1>1, QueryKept
  <2>3. Front'
    BY <1>1, <1>6, <2>1 DEF Front
  <2>4. Held'
    <3>1. puller.off <= Size
      BY <1>1, <2>1 DEF Front, Laid
    <3>2. Len(puller'.rows) < PageSize => (puller'.more <=> Beyond(puller.off))
      BY <1>4, <1>6, <1>7
    <3> QED
      BY <1>1, <1>3, <1>6, <2>2, <3>1, <3>2 DEF Held, Beyond
  <2>5. Laid' /\ Whole' /\ Shown'
    BY <1>1, <1>6, <2>1, <2>2 DEF Laid, Whole, Settled, Shown
  <2> QED
    BY <2>3, <2>4, <2>5
<1> QED
  BY <1>1, <1>8, <1>9, <1>10, QueryKept, TokensKept DEF Worker, Undisturbed

LEMMA PullPeeksKeeps ==
  ASSUME QueryTyped, Tokens, Worker, PullPeeks
  PROVE  QueryTyped' /\ Tokens' /\ Worker'
<1> DEFINE b == RowBeyond(puller.off)
<1>1. /\ query' = query /\ pages' = pages /\ pageJob' = pageJob /\ catalog' = catalog
      /\ pager' = pager /\ export' = export /\ pulls' = pulls /\ puller.pc = "peek"
      /\ puller' = [puller EXCEPT !.pc = "settle", !.more = b]
  BY DEF PullPeeks, Pulling
<1>2. puller.off \in Offsets
  BY DEF Worker, PullTyped
<1>3. b \in BOOLEAN /\ (b <=> Beyond(puller.off))
  BY <1>2, ReadIs DEF RowBeyond
<1> HIDE DEF b
<1>4. /\ puller' \in [pc : PullPcs, off : Offsets, rows : Seq(Int), more : BOOLEAN]
      /\ puller'.pc = "settle" /\ puller'.off = puller.off /\ puller'.rows = puller.rows
  BY <1>1, <1>3 DEF Worker, PullTyped, PullPcs
<1>5. puller'.more = b
  BY <1>1 DEF Worker, PullTyped
<1>6. SpoolTyped' /\ PullTyped'
  BY <1>1, <1>4 DEF Worker, SpoolTyped, PullTyped
<1>7. Begun'
  BY <1>1, <1>4 DEF Worker, Begun
<1>8. ASSUME Undisturbed PROVE Front' /\ Held' /\ Laid' /\ Whole' /\ Shown'
  <2>1. Front /\ Held /\ Laid /\ Whole /\ Shown
    BY <1>8 DEF Worker
  <2>2. Size' = Size
    BY <1>1, QueryKept
  <2>3. Front'
    BY <1>1, <1>4, <2>1 DEF Front
  <2>4. Held'
    BY <1>1, <1>3, <1>4, <1>5, <2>1, <2>2 DEF Held, Beyond
  <2>5. Laid' /\ Whole' /\ Shown'
    BY <1>1, <1>4, <2>1, <2>2 DEF Laid, Whole, Settled, Shown
  <2> QED
    BY <2>3, <2>4, <2>5
<1> QED
  BY <1>1, <1>6, <1>7, <1>8, QueryKept, TokensKept DEF Worker, Undisturbed

LEMMA PullRaisesKeeps ==
  ASSUME QueryTyped, Tokens, Worker, PullRaises
  PROVE  QueryTyped' /\ Tokens' /\ Worker'
<1>1. /\ query' = query /\ pages' = pages /\ pageJob' = pageJob /\ catalog' = catalog
      /\ pager' = pager /\ export' = export /\ pulls' = pulls /\ puller.pc \in {"read", "peek"}
  BY DEF PullRaises
<1>2. PICK e \in {"cancelled", "failed"} : puller' = [puller EXCEPT !.pc = e]
  BY DEF PullRaises
<1>3. /\ puller' \in [pc : PullPcs, off : Offsets, rows : Seq(Int), more : BOOLEAN]
      /\ puller'.pc = e /\ puller'.off = puller.off
  BY <1>2, PullMoves DEF Worker, PullPcs, Ended
<1>4. SpoolTyped' /\ PullTyped'
  BY <1>1, <1>3 DEF Worker, SpoolTyped, PullTyped
<1>5. Begun'
  BY <1>1, <1>3 DEF Worker, Begun
<1>6. ASSUME Undisturbed PROVE Front' /\ Held' /\ Laid' /\ Whole' /\ Shown'
  <2>1. Front /\ Held /\ Laid /\ Whole /\ Shown
    BY <1>6 DEF Worker
  <2>2. Front'
    BY <1>1, <1>3, <2>1 DEF Front
  <2>3. Settled' => Settled
    BY <1>1, <1>3 DEF Settled
  <2> QED
    BY <1>1, <1>3, <2>1, <2>2, <2>3, CourseKept
<1> QED
  BY <1>1, <1>4, <1>5, <1>6, QueryKept, TokensKept DEF Worker, Undisturbed

\* What append_spool makes of the spool.
LEMMA AppendIs ==
  ASSUME QueryTyped, Worker, NEW rows \in Seq(Int)
  PROVE  LET n == IF Len(rows) < SpoolMax - Len(pages.rows) THEN Len(rows)
                  ELSE SpoolMax - Len(pages.rows)
         IN  \/ (rows = <<>> \/ pages.trunc) /\ AppendSpool(rows) = pages
             \/ /\ rows # <<>> /\ ~pages.trunc /\ n \in 0..Len(rows)
                /\ AppendSpool(rows).rows = pages.rows \o SubSeq(rows, 1, n)
                /\ AppendSpool(rows).rows \in Seq(Int)
                /\ Len(AppendSpool(rows).rows) = Len(pages.rows) + n
                /\ AppendSpool(rows).present /\ AppendSpool(rows).more = pages.more
                /\ AppendSpool(rows).trunc <=> Len(pages.rows) + Len(rows) >= SpoolMax
                /\ AppendSpool(rows) \in [present : BOOLEAN, rows : Seq(Int), more : BOOLEAN,
                                          trunc : BOOLEAN]
<1> DEFINE m == Min({Len(rows), SpoolMax - Len(pages.rows)})
           n == IF Len(rows) < SpoolMax - Len(pages.rows) THEN Len(rows)
                ELSE SpoolMax - Len(pages.rows)
<1>1. /\ Len(pages.rows) \in Nat /\ Len(pages.rows) <= SpoolMax /\ pages.rows \in Seq(Int)
      /\ Len(rows) \in Nat /\ SpoolMax \in Nat
  BY QueryNumbers DEF Worker, SpoolTyped
<1>2. m = n /\ n \in 0..Len(rows)
  <2>1. SpoolMax - Len(pages.rows) \in Nat
    BY <1>1
  <2>2. n \in 0..Len(rows)
    BY <1>1, <2>1
  <2>3. PICK d \in Int : d = SpoolMax - Len(pages.rows)
    BY <2>1
  <2>4. Min({Len(rows), d}) = IF Len(rows) < d THEN Len(rows) ELSE d
    BY <1>1, MinOfTwo, SMTT(30)
  <2>5. m = n
    BY <2>3, <2>4
  <2> QED
    BY <2>2, <2>5
<1> HIDE DEF m, n
<1>3. CASE rows = <<>> \/ pages.trunc
  BY <1>3 DEF AppendSpool
<1>4. CASE ~(rows = <<>> \/ pages.trunc)
  <2>1. PICK u \in Seq(Int) : u = SubSeq(rows, 1, n) /\ Len(u) = n
    <3>1. \A i \in 1..n : rows[i] \in Int
      BY <1>1, <1>2, ElementOfSeq
    <3>2. n \in Int /\ n >= 0
      BY <1>2
    <3>3. SubSeq(rows, 1, n) \in Seq(Int) /\ Len(SubSeq(rows, 1, n)) = n
      BY <3>1, <3>2, SubSeqProperties
    <3> QED
      BY <3>3
  <2>2. PICK t \in Seq(Int) : t = pages.rows \o u /\ Len(t) = Len(pages.rows) + n
    <3>1. pages.rows \o u \in Seq(Int) /\ Len(pages.rows \o u) = Len(pages.rows) + n
      BY <1>1, <2>1, ConcatProperties
    <3> QED
      BY <3>1
  <2> DEFINE b == Len(pages.rows) + Len(rows) >= SpoolMax
  <2>3. b \in BOOLEAN
    OBVIOUS
  <2> HIDE DEF b
  <2>4. AppendSpool(rows) = [pages EXCEPT !.present = TRUE, !.rows = t, !.trunc = b]
    BY <1>2, <1>4, <2>1, <2>2 DEF AppendSpool, m, b
  <2>5. pages \in [present : BOOLEAN, rows : Seq(Int), more : BOOLEAN, trunc : BOOLEAN]
    BY DEF Worker, SpoolTyped
  <2>6. /\ AppendSpool(rows) \in [present : BOOLEAN, rows : Seq(Int), more : BOOLEAN,
                                  trunc : BOOLEAN]
        /\ AppendSpool(rows).rows = t
    BY <2>3, <2>4, <2>5
  <2>7. /\ AppendSpool(rows).present = TRUE /\ AppendSpool(rows).more = pages.more
        /\ AppendSpool(rows).trunc = b
    BY <2>4, <2>5
  <2> QED
    BY <1>2, <1>4, <2>1, <2>2, <2>6, <2>7 DEF n, b
<1> QED
  BY <1>3, <1>4

\* A page that is laid behind the spool continues the answer.
LEMMA LaidBehind ==
  ASSUME QueryTyped, Worker, Front, Held, Laid, puller.pc = "flush",
         NEW n \in 0..Len(puller.rows)
  PROVE  /\ pages.rows \o SubSeq(puller.rows, 1, n) = RowsFrom(query.skip, Len(pages.rows) + n)
         /\ Len(pages.rows) + n <= Size
         /\ Len(pages.rows) = Size => puller.rows = <<>>
<1> DEFINE o == puller.off
           k == Portion(Size, o, Room(o))
<1>1. o \in Offsets /\ o = Len(pages.rows) /\ o <= Size /\ pages.rows = RowsFrom(query.skip, o)
  BY DEF Worker, PullTyped, Front, Laid
<1>2. o \in Nat /\ Room(o) \in Nat
  BY <1>1, RoomIs
<1>3. k \in Nat /\ o + k <= Size /\ (o = Size => k = 0)
  BY <1>1, <1>2, QueryNumbers, SMTT(30) DEF Portion
<1>4. puller.rows = RowsFrom(query.skip + o, k)
  BY DEF Held
<1>5. query.skip \in Int /\ query.skip + o \in Int
  BY <1>2, QueryNumbers
<1> HIDE DEF o, k
<1>6. Len(puller.rows) = k /\ (k = 0 => puller.rows = <<>>)
  <2>1. PICK f \in Int : f = query.skip + o
    BY <1>5
  <2>2. Len(RowsFrom(f, k)) = k /\ (k = 0 => RowsFrom(f, k) = <<>>)
    BY <1>3, RowsAre
  <2> QED
    BY <1>4, <2>1, <2>2
<1>7. n \in 0..k /\ n \in Nat
  BY <1>3, <1>6
<1>8. SubSeq(puller.rows, 1, n) = RowsFrom(query.skip + o, n)
  BY <1>3, <1>4, <1>5, <1>7, RowsPrefix
<1>9. RowsFrom(query.skip, o) \o RowsFrom(query.skip + o, n) = RowsFrom(query.skip, o + n)
  BY <1>2, <1>5, <1>7, RowsJoin
<1>10. o + n <= Size
  BY <1>2, <1>3, <1>7, QueryNumbers
<1> QED
  BY <1>1, <1>3, <1>6, <1>8, <1>9, <1>10

LEMMA PullFlushesKeeps ==
  ASSUME QueryTyped, Tokens, Worker, PullFlushes
  PROVE  QueryTyped' /\ Tokens' /\ Worker'
<1>1. /\ query' = query /\ pageJob' = pageJob
      /\ pager' = pager /\ export' = export /\ pulls' = pulls /\ puller.pc = "flush"
  BY DEF PullFlushes, Pulling
<1>2. puller.off \in Offsets /\ puller.rows \in Seq(Int)
  BY DEF Worker, PullTyped
<1>3. CASE puller' = [puller EXCEPT !.pc = "cancelled"] /\ pages' = pages /\ catalog' = catalog
  <2>1. /\ puller' \in [pc : PullPcs, off : Offsets, rows : Seq(Int), more : BOOLEAN]
        /\ puller'.pc = "cancelled" /\ puller'.off = puller.off
    BY <1>3, PullMoves DEF Worker, PullPcs, Ended
  <2>2. SpoolTyped' /\ PullTyped'
    BY <1>1, <1>3, <2>1 DEF Worker, SpoolTyped, PullTyped
  <2>3. Begun'
    BY <1>1, <1>3, <2>1 DEF Worker, Begun
  <2>4. ASSUME Undisturbed PROVE Front' /\ Held' /\ Laid' /\ Whole' /\ Shown'
    <3>1. Front /\ Held /\ Laid /\ Whole /\ Shown
      BY <2>4 DEF Worker
    <3>2. Front'
      BY <1>1, <1>3, <2>1, <3>1 DEF Front
    <3>3. Settled' => Settled
      BY <1>1, <2>1 DEF Settled
    <3> QED
      BY <1>1, <1>3, <2>1, <3>1, <3>2, <3>3, CourseKept
  <2> QED
    BY <1>1, <2>2, <2>3, <2>4, QueryKept, TokensKept DEF Worker, Undisturbed
<1>4. ASSUME NEW e \in {"peek", "settle"}, puller' = [puller EXCEPT !.pc = e],
             pages' = AppendSpool(puller.rows),
             catalog' = catalog \/ catalog' = [state |-> "streaming", total |-> -1],
             e = "peek" => ~pages'.trunc,
             e = "settle" => \/ puller.rows = <<>> \/ pages'.trunc
                             \/ Len(puller.rows) # PageSize
      PROVE  QueryTyped' /\ Tokens' /\ Worker'
  <2>1. /\ puller' \in [pc : PullPcs, off : Offsets, rows : Seq(Int), more : BOOLEAN]
        /\ puller'.pc = e /\ puller'.off = puller.off /\ puller'.rows = puller.rows
        /\ puller'.more = puller.more
    BY <1>4, PullMoves DEF Worker, PullPcs
  <2> DEFINE n == IF Len(puller.rows) < SpoolMax - Len(pages.rows) THEN Len(puller.rows)
                  ELSE SpoolMax - Len(pages.rows)
  <2>2. \/ (puller.rows = <<>> \/ pages.trunc) /\ pages' = pages
        \/ /\ puller.rows # <<>> /\ ~pages.trunc /\ n \in 0..Len(puller.rows)
           /\ pages'.rows = pages.rows \o SubSeq(puller.rows, 1, n)
           /\ pages'.rows \in Seq(Int) /\ Len(pages'.rows) = Len(pages.rows) + n
           /\ pages'.present /\ pages'.more = pages.more
           /\ pages'.trunc <=> Len(pages.rows) + Len(puller.rows) >= SpoolMax
           /\ pages' \in [present : BOOLEAN, rows : Seq(Int), more : BOOLEAN, trunc : BOOLEAN]
    BY <1>2, <1>4, AppendIs
  <2> HIDE DEF n
  <2>3. /\ Len(pages.rows) \in Nat /\ Len(pages.rows) <= SpoolMax /\ SpoolMax \in Nat \ {0}
        /\ Len(puller.rows) \in Nat
    BY <1>2, QueryNumbers, PagedQueryBounds DEF Worker, SpoolTyped
  <2>4. PICK l \in Nat, k \in Nat : l = Len(pages.rows) /\ k = Len(puller.rows)
    BY <2>3, Zenon
  <2>5. /\ l <= SpoolMax /\ SpoolMax \in Nat \ {0}
         /\ n = IF k < SpoolMax - l THEN k ELSE SpoolMax - l
    BY <2>3, <2>4 DEF n
  <2>6. l + n <= SpoolMax /\ (~(l + k >= SpoolMax) => n = k) /\ (k # 0 => l + n # 0)
    BY <2>5
  <2>11. catalog' \in [state : {"none", "streaming", "complete", "failed", "closed"},
                       total : (0..SpoolMax) \union {-1}]
    BY <1>4 DEF Worker, SpoolTyped
  <2>12. PullTyped'
    BY <1>1, <2>1 DEF Worker, PullTyped
  <2>7. SpoolTyped' /\ PullTyped'
    <3>1. CASE puller.rows = <<>> \/ pages.trunc
      BY <2>2, <2>11, <2>12, <3>1 DEF Worker, SpoolTyped
    <3>2. CASE ~(puller.rows = <<>> \/ pages.trunc)
      <4>1. Len(pages'.rows) <= SpoolMax
        <5>1. Len(pages'.rows) = Len(pages.rows) + n
          BY <2>2, <3>2, Zenon
        <5> QED
          BY <2>4, <2>6, <5>1
      <4> QED
        BY <2>2, <2>11, <2>12, <3>2, <4>1 DEF SpoolTyped
    <3> QED
      BY <3>1, <3>2
  <2>8. pageJob[puller.off].st = "running" /\ pageJob[0].st # "none"
    BY <1>1, <1>2 DEF Worker, Begun
  <2>9. Begun'
    BY <1>1, <2>1, <2>8 DEF Worker, Begun
  <2>10. ASSUME Undisturbed PROVE Front' /\ Held' /\ Laid' /\ Whole' /\ Shown'
    <3>1. Front /\ Held /\ Laid /\ Whole /\ Shown
      BY <2>10 DEF Worker
    <3>2. Size' = Size
      BY <1>1, QueryKept
    <3>3. /\ puller.off = Len(pages.rows)
          /\ puller.off # 0 => pages.present
      BY <1>1, <3>1 DEF Front
    <3>4. Front'
      <4>1. \A o \in Offsets : pageJob[o].st # "pending"
        BY <2>8, <3>1, <3>3 DEF Front
      <4>2. \A q \in Pagers : pager[q].op = "page" => pageJob[pager[q].arg].st # "none"
        BY <2>8, <3>1, <3>3 DEF Front
      <4> QED
        BY <1>1, <2>1, <4>1, <4>2 DEF Front
    <3>5. Held'
      <4>1. /\ puller.off <= Size
            /\ puller.rows = RowsFrom(query.skip + puller.off,
                                      Portion(Size, puller.off, Room(puller.off)))
            /\ Len(puller.rows) < PageSize => (puller.more <=> Beyond(puller.off))
        BY <1>1, <3>1 DEF Held
      <4>2. Len(puller.rows) <= PageSize /\ (puller.rows = <<>> => Len(puller.rows) < PageSize)
        <5>1. /\ puller.off \in Nat /\ Room(puller.off) \in Nat /\ Room(puller.off) <= PageSize
              /\ PageSize \in Nat \ {0}
          <6>1. puller.off \in Nat /\ Room(puller.off) \in Nat /\ PageSize \in Nat \ {0}
            BY <1>2, RoomIs, QueryNumbers
          <6>2. \A d \in Int : (IF PageSize < d THEN PageSize ELSE d) <= PageSize
            BY <6>1
          <6>3. MaxResultRows - puller.off \in Int
            BY <6>1, QueryNumbers
          <6> QED
            BY <6>1, <6>2, <6>3 DEF Room
        <5>2. PICK f \in Int : f = query.skip + puller.off
          BY <5>1, QueryNumbers
        <5>3. PICK p \in Nat : p = Portion(Size, puller.off, Room(puller.off)) /\ p <= Room(puller.off)
          BY <5>1, QueryNumbers DEF Portion
        <5>4. Len(puller.rows) = p
          BY <4>1, <5>2, <5>3, RowsAre
        <5>5. puller.rows = <<>> => Len(puller.rows) = 0
          OBVIOUS
        <5> QED
          BY <5>1, <5>3, <5>4, <5>5
      <4>3. e = "settle" /\ ~pages'.trunc => Len(puller.rows) < PageSize
        BY <1>4, <2>3, <4>2, PagedQueryBounds
      <4> QED
        BY <1>1, <2>1, <3>2, <4>1, <4>3 DEF Held, Beyond
    <3>6. Laid' /\ (Len(pages.rows) = Size => pages' = pages)
      <4>2. CASE puller.rows = <<>> \/ pages.trunc
        <5>1. pages' = pages /\ (~pages.trunc => Len(puller.rows) = 0)
          BY <2>2, <2>3, <4>2
        <5>2. ~pages.trunc => Len(pages.rows) = puller.off + Len(puller.rows)
          <6>1. puller.off = l /\ (~pages.trunc => k = 0)
            BY <2>4, <3>3, <5>1
          <6>2. ~pages.trunc => l = l + k
            BY <6>1
          <6> QED
            BY <2>4, <6>1, <6>2
        <5> QED
          BY <1>1, <2>1, <3>1, <3>2, <5>1, <5>2 DEF Laid
      <4>3. CASE ~(puller.rows = <<>> \/ pages.trunc)
        <5>1. /\ n \in 0..Len(puller.rows) /\ puller.rows # <<>>
              /\ pages'.rows = pages.rows \o SubSeq(puller.rows, 1, n)
              /\ Len(pages'.rows) = Len(pages.rows) + n
              /\ pages'.trunc <=> Len(pages.rows) + Len(puller.rows) >= SpoolMax
          BY <2>2, <4>3, Zenon
        <5>2. /\ pages'.rows = RowsFrom(query.skip, Len(pages.rows) + n)
              /\ Len(pages.rows) + n <= Size /\ Len(pages.rows) # Size
          BY <1>1, <3>1, <5>1, LaidBehind
        <5>3. ~pages'.trunc => Len(pages'.rows) = puller.off + Len(puller.rows)
          <6>1. ~pages'.trunc => ~(Len(pages.rows) + Len(puller.rows) >= SpoolMax)
            BY <5>1
          <6>2. ~(Len(pages.rows) + Len(puller.rows) >= SpoolMax) => n = Len(puller.rows)
            BY <2>4, <2>6
          <6> QED
            BY <3>3, <5>1, <6>1, <6>2
        <5>4. pages'.rows # <<>>
          <6>1. k # 0
            BY <1>2, <2>4, <5>1, EmptySeq
          <6>2. Len(pages'.rows) # 0
            BY <2>4, <2>6, <5>1, <6>1
          <6> QED
            BY <6>2
        <5> QED
          BY <1>1, <2>1, <3>2, <5>1, <5>2, <5>3, <5>4 DEF Laid
      <4> QED
        BY <4>2, <4>3
    <3>7. Whole'
      <4> SUFFICES ASSUME pageJob[0].st = "success", pages'.present, ~pages'.more
                   PROVE  Len(pages'.rows) = Size
        BY <1>1, <2>1, <3>2 DEF Whole, Settled
      <4>1. puller.off # 0
        BY <2>8
      <4>2. pages.present
        BY <3>3, <4>1
      <4>3. ~pages.more
        BY <2>2
      <4>4. Len(pages.rows) = Size
        BY <3>1, <4>2, <4>3 DEF Whole, Settled
      <4> QED
        BY <3>6, <4>4
    <3>8. Shown'
      BY <1>1, <1>4, <3>1, <3>2 DEF Shown
    <3> QED
      BY <3>4, <3>5, <3>6, <3>7, <3>8
  <2> QED
    BY <1>1, <2>7, <2>9, <2>10, QueryKept, TokensKept DEF Worker, Undisturbed
<1>5. CASE puller.rows = <<>>
  <2>1. /\ puller' = [puller EXCEPT !.pc = "settle"] /\ pages' = pages /\ catalog' = catalog
    BY <1>5 DEF PullFlushes
  <2>2. AppendSpool(puller.rows) = pages
    BY <1>5 DEF AppendSpool
  <2> QED
    BY <1>4, <1>5, <2>1, <2>2
<1>6. CASE puller.rows # <<>> /\ pageJob[puller.off].cancel
  BY <1>3, <1>6 DEF PullFlushes
<1>7. CASE puller.rows # <<>> /\ ~pageJob[puller.off].cancel
  <2>1. /\ pages' = AppendSpool(puller.rows)
        /\ catalog' = [state |-> "streaming", total |-> -1]
        /\ puller' = [puller EXCEPT !.pc = IF Len(puller.rows) = PageSize /\ ~pages'.trunc
                                           THEN "peek" ELSE "settle"]
    BY <1>7 DEF PullFlushes
  <2>2. CASE Len(puller.rows) = PageSize /\ ~pages'.trunc
    BY <1>4, <2>1, <2>2
  <2>3. CASE ~(Len(puller.rows) = PageSize /\ ~pages'.trunc)
    BY <1>4, <2>1, <2>3
  <2> QED
    BY <2>2, <2>3
<1> QED
  BY <1>5, <1>6, <1>7

LEMMA PullSettlesKeeps ==
  ASSUME QueryTyped, Tokens, Worker, PullSettles
  PROVE  QueryTyped' /\ Tokens' /\ Worker'
<1>1. /\ query' = query /\ pageJob' = pageJob /\ catalog' = catalog
      /\ pager' = pager /\ export' = export /\ pulls' = pulls /\ puller.pc = "settle"
      /\ pages' = Continues /\ puller' = [puller EXCEPT !.pc = "catalog"]
  BY DEF PullSettles, Pulling
<1>2. /\ puller' \in [pc : PullPcs, off : Offsets, rows : Seq(Int), more : BOOLEAN]
      /\ puller'.pc = "catalog" /\ puller'.off = puller.off
  BY <1>1, PullMoves DEF Worker, PullPcs
<1>3. pages \in [present : BOOLEAN, rows : Seq(Int), more : BOOLEAN, trunc : BOOLEAN]
  BY DEF Worker, SpoolTyped
<1> DEFINE full == puller.more /\ puller.off + Len(puller.rows) >= MaxResultRows
           t    == pages.trunc \/ full
           m    == puller.more \/ t
<1>4. (t <=> pages.trunc \/ full) /\ t \in BOOLEAN
  OBVIOUS
<1>5. (m <=> puller.more \/ t) /\ m \in BOOLEAN
  OBVIOUS
<1>6. pages' = [pages EXCEPT !.present = TRUE, !.trunc = t, !.more = m]
  BY <1>1 DEF Continues
<1> HIDE DEF m, t
<1>7. /\ pages' \in [present : BOOLEAN, rows : Seq(Int), more : BOOLEAN, trunc : BOOLEAN]
      /\ pages'.rows = pages.rows
  BY <1>3, <1>4, <1>5, <1>6
<1>8. pages'.present = TRUE /\ pages'.more = m /\ pages'.trunc = t
  BY <1>3, <1>6
<1>9. SpoolTyped' /\ PullTyped'
  BY <1>1, <1>2, <1>7, <1>8 DEF Worker, SpoolTyped, PullTyped
<1>10. pageJob[0].st # "none"
  BY <1>1 DEF Worker, Begun, PullTyped
<1>11. Begun'
  BY <1>1, <1>2, <1>10 DEF Worker, Begun
<1>12. ASSUME Undisturbed PROVE Front' /\ Held' /\ Laid' /\ Whole' /\ Shown'
  <2>1. Front /\ Held /\ Laid /\ Whole /\ Shown
    BY <1>12 DEF Worker
  <2>2. Size' = Size
    BY <1>1, QueryKept
  <2>3. Front' /\ Held'
    BY <1>1, <1>2, <1>7, <1>8, <2>1 DEF Front, Held
  <2>4. PICK o \in Nat, r \in Nat \ {0}, k \in Nat :
          /\ o = puller.off /\ r = Room(puller.off) /\ k = Portion(Size, o, r)
    BY RoomIs, QueryNumbers DEF Worker, PullTyped
  <2>5. Len(puller.rows) = k /\ o <= Size /\ Size \in Nat
    <3>1. PICK f \in Int : f = query.skip + puller.off
      BY <2>4, QueryNumbers
    <3>2. puller.rows = RowsFrom(f, k) /\ o <= Size
      BY <1>1, <2>1, <2>4, <3>1 DEF Held
    <3> QED
      BY <3>2, RowsAre, QueryNumbers
  <2>6. ~pages.trunc => /\ Len(pages.rows) = o + k
                        /\ puller.more <=> Size - o > r
    BY <1>1, <2>1, <2>4, <2>5 DEF Held, Beyond, Laid
  <2>7. m => pages.rows # <<>>
    <3>1. CASE pages.trunc
      BY <2>1, <3>1 DEF Laid
    <3>2. CASE m /\ ~pages.trunc
      <4>1. puller.more
        BY <1>4, <1>5, <3>2
      <4>2. k = r
        BY <2>4, <2>5, <2>6, <3>2, <4>1 DEF Portion
      <4>3. Len(pages.rows) # 0
        BY <2>4, <2>6, <3>2, <4>2
      <4> QED
        BY <4>3
    <3> QED
      BY <3>1, <3>2
  <2>8. Laid' /\ Shown'
    BY <1>1, <1>2, <1>5, <1>7, <1>8, <2>1, <2>2, <2>7 DEF Laid, Shown
  <2>9. ~m => Len(pages.rows) = Size
    <3> SUFFICES ASSUME ~m PROVE Len(pages.rows) = Size
      OBVIOUS
    <3>1. ~pages.trunc /\ ~puller.more
      BY <1>4, <1>5
    <3>2. k = Size - o
      BY <2>4, <2>5, <2>6, <3>1 DEF Portion
    <3>3. Len(pages.rows) = o + k
      BY <2>6, <3>1
    <3>4. o + (Size - o) = Size
      BY <2>4, <2>5
    <3> QED
      BY <3>2, <3>3, <3>4
  <2>10. Whole'
    BY <1>2, <1>7, <1>8, <2>2, <2>9 DEF Whole
  <2> QED
    BY <2>3, <2>8, <2>10
<1> QED
  BY <1>1, <1>9, <1>11, <1>12, QueryKept, TokensKept DEF Worker, Undisturbed

LEMMA PullCatalogsKeeps ==
  ASSUME QueryTyped, Tokens, Worker, PullCatalogs
  PROVE  QueryTyped' /\ Tokens' /\ Worker'
<1>1. /\ query' = query /\ pageJob' = pageJob /\ pages' = pages
      /\ pager' = pager /\ export' = export /\ pulls' = pulls /\ puller.pc = "catalog"
      /\ catalog' = [state |-> "complete", total |-> CompleteTotal]
      /\ puller' = [puller EXCEPT !.pc = "success"]
  BY DEF PullCatalogs, Pulling
<1>2. /\ puller' \in [pc : PullPcs, off : Offsets, rows : Seq(Int), more : BOOLEAN]
      /\ puller'.pc = "success" /\ puller'.off = puller.off
  BY <1>1, PullMoves DEF Worker, PullPcs, Ended
<1>3. CompleteTotal = -1 \/ (~pages.trunc /\ ~pages.more /\ CompleteTotal = Len(pages.rows))
  BY DEF CompleteTotal
<1>4. SpoolTyped' /\ PullTyped'
  <2>1. Len(pages.rows) \in 0..SpoolMax
    BY QueryNumbers DEF Worker, SpoolTyped
  <2>2. CompleteTotal \in (0..SpoolMax) \union {-1}
    BY <1>3, <2>1
  <2> QED
    BY <1>1, <1>2, <2>2 DEF Worker, SpoolTyped, PullTyped
<1>5. Begun'
  BY <1>1, <1>2 DEF Worker, Begun
<1>6. ASSUME Undisturbed PROVE Front' /\ Held' /\ Laid' /\ Whole' /\ Shown'
  <2>1. Front /\ Held /\ Laid /\ Whole /\ Shown
    BY <1>6 DEF Worker
  <2>2. Size' = Size
    BY <1>1, QueryKept
  <2>3. Front' /\ Held'
    BY <1>1, <1>2, <2>1 DEF Front, Held
  <2>4. Laid' /\ Whole'
    BY <1>1, <1>2, <2>1, <2>2 DEF Laid, Whole, Settled
  <2>5. ~pages.more => Len(pages.rows) = Size
    BY <1>1, <2>1 DEF Whole, Settled
  <2>6. Shown'
    BY <1>1, <1>3, <2>2, <2>5 DEF Shown
  <2> QED
    BY <2>3, <2>4, <2>6
<1> QED
  BY <1>1, <1>4, <1>5, <1>6, QueryKept, TokensKept DEF Worker, Undisturbed

\* A spool that goes while a job waits for it disturbs the query.
LEMMA EmptiedIs ==
  ASSUME Worker, NEW others \in SUBSET Offsets,
         \/ pulls' = [pulls EXCEPT !.emptied = Emptied(others)]
         \/ pulls' = [pulls EXCEPT !.evicting = FALSE, !.emptied = Emptied(others)]
  PROVE  /\ pulls' \in PullsSet
         /\ Undisturbed' => Undisturbed /\ (pages.rows = <<>> \/ ~Waiting(others))
<1> DEFINE t == Emptied(others)
<1>1. /\ t \in BOOLEAN
      /\ t <=> pulls.emptied \/ (pages.rows # <<>> /\ Waiting(others))
  BY DEF Emptied, Worker, PullTyped, PullsSet
<1> HIDE DEF t
<1>2. pulls \in PullsSet
  BY DEF Worker, PullTyped
<1>3. pulls' \in PullsSet /\ pulls'.again = pulls.again /\ pulls'.emptied = t
  BY <1>1, <1>2 DEF PullsSet, t
<1> QED
  BY <1>1, <1>3 DEF Undisturbed

LEMMA SpoolGoes ==
  ASSUME QueryTyped, Worker, query' = query, pageJob' = pageJob, catalog' = catalog,
         puller' = puller, pager' = pager, pages' = NoPages, pulls' \in PullsSet,
         Undisturbed' => Undisturbed /\ (pages.rows = <<>> \/ ~Waiting(Offsets))
  PROVE  Worker'
<1>1. /\ NoPages \in [present : BOOLEAN, rows : Seq(Int), more : BOOLEAN, trunc : BOOLEAN]
      /\ NoPages.rows = <<>> /\ Len(NoPages.rows) = 0
      /\ ~NoPages.present /\ ~NoPages.more /\ ~NoPages.trunc
  BY DEF NoPages
<1>2. SpoolTyped' /\ PullTyped'
  BY <1>1, QueryNumbers DEF Worker, SpoolTyped, PullTyped
<1>3. Begun'
  BY DEF Worker, Begun
<1>4. ASSUME Undisturbed, pages.rows = <<>> \/ ~Waiting(Offsets)
      PROVE  Front' /\ Held' /\ Laid' /\ Whole' /\ Shown'
  <2>1. Front /\ Held /\ Laid /\ Whole /\ Shown
    BY <1>4 DEF Worker
  <2>2. Size' = Size /\ Size \in Nat /\ query.skip \in Int
    BY QueryKept, QueryNumbers
  <2>3. RowsFrom(query.skip, 0) = <<>>
    BY <2>2, RowsAre
  <2>4. Shown'
    BY <2>1, <2>2 DEF Shown
  <2>5. CASE pages.rows = <<>>
    <3>1. ~pages.more /\ ~pages.trunc /\ Len(pages.rows) = 0
      BY <2>1, <2>5 DEF Laid
    <3>2. \A q \in Pagers : pager[q].op = "page" => pageJob[pager[q].arg].st # "none"
      BY <2>1, <3>1 DEF Front, Worker, Begun
    <3>3. Front'
      BY <1>1, <2>1, <3>1, <3>2 DEF Front
    <3>4. Held'
      BY <1>1, <2>1, <2>2, <3>1 DEF Held, Beyond
    <3>5. Laid'
      BY <1>1, <2>1, <2>2, <2>3, <3>1 DEF Laid
    <3>6. Whole'
      BY <1>1, <2>1, <2>2, <3>1 DEF Whole
    <3> QED
      BY <2>4, <3>3, <3>4, <3>5, <3>6
  <2>6. CASE ~Waiting(Offsets)
    <3>1. /\ \A o \in Offsets : pageJob[o].st \notin {"pending", "running"}
          /\ \A q \in Pagers : pager[q].op # "page"
      BY <2>6 DEF Waiting
    <3>2. puller.pc = "idle"
      BY <3>1 DEF Worker, Begun, PullTyped
    <3>3. Front' /\ Held'
      BY <3>1, <3>2 DEF Front, Held
    <3>4. Laid' /\ Whole'
      BY <1>1, <2>2, <2>3, <3>2 DEF Laid, Whole
    <3> QED
      BY <2>4, <3>3, <3>4
  <2> QED
    BY <1>4, <2>5, <2>6
<1> QED
  BY <1>2, <1>3, <1>4 DEF Worker

LEMMA EvictClosesKeeps ==
  ASSUME QueryTyped, Tokens, Worker, EvictCloses
  PROVE  QueryTyped' /\ Tokens' /\ Worker'
<1>1. /\ query' = query /\ pages' = pages /\ pageJob' = pageJob /\ puller' = puller
      /\ pager' = pager /\ export' = export
      /\ catalog' = [catalog EXCEPT !.state = "closed"]
      /\ pulls' = [pulls EXCEPT !.evicting = TRUE]
  BY DEF EvictCloses
<1>2. pulls' \in PullsSet /\ (Undisturbed' <=> Undisturbed)
  BY <1>1 DEF Worker, PullTyped, PullsSet, Undisturbed
<1>3. SpoolTyped' /\ PullTyped' /\ catalog'.state = "closed"
  BY <1>1, <1>2 DEF Worker, SpoolTyped, PullTyped
<1>4. Begun'
  BY <1>1 DEF Worker, Begun
<1>5. ASSUME Undisturbed PROVE Front' /\ Held' /\ Laid' /\ Whole' /\ Shown'
  <2>1. Front /\ Held /\ Laid /\ Whole /\ Shown
    BY <1>5 DEF Worker
  <2>2. Front'
    BY <1>1, <2>1 DEF Front
  <2>3. Settled' => Settled
    BY <1>1 DEF Settled
  <2> QED
    BY <1>1, <1>3, <2>1, <2>2, <2>3, CourseKept
<1> QED
  BY <1>1, <1>2, <1>3, <1>4, <1>5, QueryKept, TokensKept DEF Worker

LEMMA EvictDeletesKeeps ==
  ASSUME QueryTyped, Tokens, Worker, EvictDeletes
  PROVE  QueryTyped' /\ Tokens' /\ Worker'
<1>1. /\ query' = query /\ pageJob' = pageJob /\ catalog' = catalog /\ puller' = puller
      /\ pager' = pager /\ export' = export
  BY DEF EvictDeletes
<1>2. CASE /\ pages' = NoPages
           /\ pulls' = [pulls EXCEPT !.evicting = FALSE, !.emptied = Emptied(Offsets)]
  BY <1>1, <1>2, EmptiedIs, SpoolGoes, QueryKept, TokensKept
<1>3. CASE pages' = pages /\ pulls' = [pulls EXCEPT !.evicting = FALSE]
  <2>1. pulls' \in PullsSet /\ (Undisturbed' <=> Undisturbed)
    BY <1>3 DEF Worker, PullTyped, PullsSet, Undisturbed
  <2>2. SpoolTyped' /\ PullTyped' /\ Begun'
    BY <1>1, <1>3, <2>1 DEF Worker, SpoolTyped, PullTyped, Begun
  <2>3. ASSUME Undisturbed PROVE Front' /\ Held' /\ Laid' /\ Whole' /\ Shown'
    <3>1. Front /\ Held /\ Laid /\ Whole /\ Shown
      BY <2>3 DEF Worker
    <3>2. Front'
      BY <1>1, <1>3, <3>1 DEF Front
    <3>3. Settled' => Settled
      BY <1>1 DEF Settled
    <3> QED
      BY <1>1, <1>3, <3>1, <3>2, <3>3, CourseKept
  <2> QED
    BY <1>1, <2>1, <2>2, <2>3, QueryKept, TokensKept DEF Worker
<1> QED
  BY <1>2, <1>3 DEF EvictDeletes

LEMMA CollectPagesKeeps ==
  ASSUME QueryTyped, Tokens, Worker, CollectPages
  PROVE  QueryTyped' /\ Tokens' /\ Worker'
<1>1. /\ query' = query /\ pageJob' = pageJob /\ catalog' = catalog /\ puller' = puller
      /\ pager' = pager /\ export' = export /\ pages' = NoPages
      /\ pulls' = [pulls EXCEPT !.emptied = Emptied(Offsets)]
  BY DEF CollectPages
<1> QED
  BY <1>1, EmptiedIs, SpoolGoes, QueryKept, TokensKept

LEMMA PullEndsKeeps ==
  ASSUME QueryTyped, Tokens, Worker, PullEnds
  PROVE  QueryTyped' /\ Tokens' /\ Worker'
<1>1. /\ query' = query /\ pager' = pager /\ export' = export
      /\ puller.pc \in Ended /\ puller' = IdlePull
      /\ pageJob' = [pageJob EXCEPT ![puller.off].st = puller.pc]
  BY DEF PullEnds
<1>2. puller.off \in Offsets /\ pageJob[puller.off].st = "running" /\ pageJob[0].st # "none"
  BY <1>1 DEF Worker, Begun, PullTyped, Ended
<1>3. /\ pageJob' \in [Offsets -> JobRecs]
      /\ \A p \in Offsets : pageJob'[p].st = IF p = puller.off THEN puller.pc ELSE pageJob[p].st
  BY <1>1, <1>2, PageMoves DEF Worker, PageStates
<1>4. /\ puller.pc = "cancelled" => catalog' = [catalog EXCEPT !.state = "closed"] /\ pages' = NoPages
      /\ puller.pc = "failed" => catalog' = [catalog EXCEPT !.state = "failed"] /\ pages' = pages
      /\ puller.pc = "success" => catalog' = catalog /\ pages' = pages
  BY DEF PullEnds
<1>5. puller'.pc = "idle"
  BY <1>1 DEF IdlePull
<1>10. /\ pulls' \in PullsSet
       /\ puller.pc # "cancelled" => pulls' = pulls
       /\ puller.pc = "cancelled" /\ Undisturbed' =>
             Undisturbed /\ (pages.rows = <<>> \/ ~Waiting(Offsets \ {puller.off}))
  <2>1. CASE puller.pc # "cancelled"
    <3>1. pulls' = pulls
      BY <2>1 DEF PullEnds
    <3> QED
      BY <2>1, <3>1 DEF Worker, PullTyped
  <2>2. CASE puller.pc = "cancelled"
    <3> DEFINE t == Emptied(Offsets \ {puller.off})
    <3>1. pulls' = [pulls EXCEPT !.emptied = t]
      BY <2>2 DEF PullEnds
    <3> QED
      BY <2>2, <3>1, EmptiedIs
  <2> QED
    BY <2>1, <2>2
<1>6. PullTyped'
  <2>1. IdlePull \in [pc : PullPcs, off : Offsets, rows : Seq(Int), more : BOOLEAN]
    BY RootIs DEF IdlePull, PullPcs
  <2> QED
    BY <1>1, <1>3, <1>10, <2>1 DEF Worker, PullTyped
<1>7. SpoolTyped' /\ (catalog' = catalog \/ catalog'.state # "complete")
  <2>1. CASE pages' = pages
    BY <1>1, <1>4, <2>1 DEF Worker, SpoolTyped, Ended
  <2>2. CASE puller.pc = "cancelled"
    <3>1. pages' = NoPages /\ Len(NoPages.rows) = 0 /\ NoPages.rows = <<>>
      BY <1>4, <2>2 DEF NoPages
    <3>2. NoPages \in [present : BOOLEAN, rows : Seq(Int), more : BOOLEAN, trunc : BOOLEAN]
      BY DEF NoPages
    <3> QED
      BY <1>4, <2>2, <3>1, <3>2, QueryNumbers DEF Worker, SpoolTyped
  <2> QED
    BY <1>1, <1>4, <2>1, <2>2 DEF Ended
<1>8. Begun'
  BY <1>1, <1>2, <1>3, <1>5, RootIs DEF Worker, Begun, Ended
<1>11. Undisturbed' => Undisturbed
  BY <1>10 DEF Undisturbed
<1>9. ASSUME Undisturbed, Undisturbed' PROVE Front' /\ Held' /\ Laid' /\ Whole' /\ Shown'
  <2>1. Front /\ Held /\ Laid /\ Whole /\ Shown
    BY <1>9 DEF Worker
  <2>2. \A p \in Pagers : pager[p].op = "page" => pager[p].arg \in Offsets
    BY DEF Worker, Begun
  <2>3. CASE puller.pc = "cancelled"
    <3>1. pages.rows = <<>> \/ ~Waiting(Offsets \ {puller.off})
      BY <1>9, <1>10, <2>3
    <3>2. \A o \in Offsets : pageJob'[o].st = "pending" => o = 0
      <4> SUFFICES ASSUME NEW o \in Offsets, pageJob'[o].st = "pending" PROVE o = 0
        OBVIOUS
      <4>1. o # puller.off /\ pageJob[o].st = "pending"
        BY <1>3, <2>3
      <4>2. pages.rows = <<>>
        BY <3>1, <4>1 DEF Waiting
      <4> QED
        BY <2>1, <4>1, <4>2 DEF Front
    <3>3. \A p \in Pagers : pager[p].op = "page" => pageJob'[pager[p].arg].st # "none"
      <4> SUFFICES ASSUME NEW p \in Pagers, pager[p].op = "page", pageJob'[pager[p].arg].st = "none"
                   PROVE  FALSE
        OBVIOUS
      <4>1. pager[p].arg \in Offsets /\ pageJob[pager[p].arg].st = "none"
        BY <1>3, <2>2, <2>3
      <4>2. pages.rows = <<>>
        BY <3>1 DEF Waiting
      <4>3. pager[p].arg = 0
        BY <2>1, <4>1, <4>2 DEF Front
      <4> QED
        BY <1>2, <4>1, <4>3
    <3>7. pages'.rows = <<>>
      BY <1>4, <2>3 DEF NoPages
    <3>8. Front' /\ Held'
      BY <1>1, <1>5, <3>2, <3>3, <3>7 DEF Front, Held
    <3>4. /\ pages'.present = FALSE /\ pages'.rows = <<>> /\ ~pages'.more
          /\ ~pages'.trunc
      BY <1>4, <2>3 DEF NoPages
    <3>5. Laid'
      <4>1. Size' = Size /\ Size \in Nat /\ query.skip \in Int
        BY <1>1, QueryKept, QueryNumbers
      <4>2. RowsFrom(query.skip, 0) = <<>>
        BY <4>1, RowsAre
      <4> QED
        BY <1>1, <1>5, <3>4, <4>1, <4>2 DEF Laid
    <3>6. Whole' /\ Shown'
      BY <1>5, <1>7, <2>1, <3>4, <1>1, QueryKept DEF Whole, Shown
    <3> QED
      BY <3>8, <3>5, <3>6
  <2>4. CASE puller.pc # "cancelled"
    <3>1. pages' = pages
      BY <1>1, <1>4, <2>4 DEF Ended
    <3>2. Front'
      BY <1>1, <1>2, <1>3, <1>5, <2>1, <2>2, <3>1 DEF Front, Ended
    <3>3. Settled' => Settled
      BY <1>3, <1>5, RootIs DEF Settled
    <3> QED
      BY <1>1, <1>5, <1>7, <2>1, <3>1, <3>2, <3>3, CourseKept
  <2> QED
    BY <2>3, <2>4
<1> QED
  BY <1>1, <1>6, <1>7, <1>8, <1>9, <1>11, QueryKept, TokensKept DEF Worker, Undisturbed

LEMMA PagedKept == PagedIInv /\ [PagedNext]_pagedVars => PagedIInv'
<1> SUFFICES ASSUME QueryTyped, Tokens, Worker, [PagedNext]_pagedVars
             PROVE  QueryTyped' /\ Tokens' /\ Worker'
  BY DEF PagedIInv
<1>1. CASE UNCHANGED pagedVars
  <2>1. /\ query' = query /\ pageJob' = pageJob /\ pages' = pages /\ catalog' = catalog
        /\ puller' = puller /\ pager' = pager /\ export' = export /\ pulls' = pulls
    BY <1>1 DEF pagedVars
  <2>2. QueryTyped' /\ Tokens'
    BY <2>1, QueryKept, TokensKept
  <2>3. Worker'
    BY <2>1, WorkerKept
  <2> QED
    BY <2>2, <2>3
<1>2. CASE ExecuteSql
  BY <1>2, ExecuteSqlKeeps
<1>3. ASSUME NEW q \in Pagers,
             PageAsk(q) \/ PageEnqueue(q) \/ ExportAsk(q) \/ ExportToken(q) \/ DownloadConsume(q)
      PROVE  QueryTyped' /\ Tokens' /\ Worker'
  BY <1>3, PageAskKeeps, PageEnqueueKeeps, ExportAskKeeps, ExportTokenKeeps, DownloadConsumeKeeps
<1>4. ASSUME NEW q \in Pagers, NEW x \in Exports, ExportEnqueue(q, x) \/ DownloadAsk(q, x)
      PROVE  QueryTyped' /\ Tokens' /\ Worker'
  BY <1>4, ExportEnqueueKeeps, DownloadAskKeeps
<1>5. ASSUME NEW x \in Exports, ExportRuns(x) \/ TokenAges(x)
      PROVE  QueryTyped' /\ Tokens' /\ Worker'
  BY <1>5, ExportRunsKeeps
<1>6. ASSUME NEW o \in Offsets, CancelPage(o) \/ PullBegins(o) \/ ReapPage(o)
      PROVE  QueryTyped' /\ Tokens' /\ Worker'
  BY <1>6, CancelPageKeeps, PullBeginsKeeps, ReapPageKeeps
<1>7. CASE PullReads \/ PullPeeks \/ PullRaises \/ PullFlushes
  BY <1>7, PullReadsKeeps, PullPeeksKeeps, PullRaisesKeeps, PullFlushesKeeps
<1>8. CASE PullSettles \/ PullCatalogs \/ PullEnds
  BY <1>8, PullSettlesKeeps, PullCatalogsKeeps, PullEndsKeeps
<1>9. CASE WorkerDies
  BY <1>9, WorkerDiesKeeps
<1>10. CASE EvictCloses \/ EvictDeletes \/ CollectPages
  BY <1>10, EvictClosesKeeps, EvictDeletesKeeps, CollectPagesKeeps
<1> QED
  BY <1>1, <1>2, <1>3, <1>4, <1>5, <1>6, <1>7, <1>8, <1>9, <1>10 DEF PagedNext

LEMMA PagedBegin == PagedInit => PagedIInv
<1> SUFFICES ASSUME PagedInit PROVE PagedIInv
  OBVIOUS
<1>1. QueryTyped
  BY DEF PagedInit, QueryTyped
<1>2. Tokens
  <2>1. pager = [q \in Pagers |-> IdlePager] /\ export = [x \in Exports |-> NoExport]
    BY DEF PagedInit
  <2>2. IdlePager \in PagerSet /\ IdlePager.op = "none"
    BY DEF IdlePager, PagerSet
  <2>3. NoExport \in ExportSet /\ NoExport.token = "none" /\ NoExport.served = 0
    BY DEF NoExport, ExportSet
  <2> QED
    BY <2>1, <2>2, <2>3 DEF Tokens
<1>3. /\ pages = NoPages /\ puller = IdlePull /\ pageJob = [o \in Offsets |-> NoJob]
      /\ catalog = [state |-> "none", total |-> -1]
      /\ pulls = [deaths |-> 0, evicting |-> FALSE, again |-> FALSE, emptied |-> FALSE]
      /\ \A q \in Pagers : pager[q].op = "none"
  BY DEF PagedInit, IdlePager
<1>4. /\ NoPages \in [present : BOOLEAN, rows : Seq(Int), more : BOOLEAN, trunc : BOOLEAN]
      /\ NoPages.rows = <<>> /\ Len(NoPages.rows) = 0 /\ ~NoPages.present
  BY DEF NoPages
<1>5. /\ IdlePull \in [pc : PullPcs, off : Offsets, rows : Seq(Int), more : BOOLEAN]
      /\ IdlePull.pc = "idle"
  BY <1>1, RootIs DEF IdlePull, PullPcs
<1>6. NoJob \in JobRecs /\ NoJob.st = "none"
  BY PagedQueryBounds DEF NoJob, JobRecs, PageStates
<1>7. SpoolTyped
  BY <1>1, <1>3, <1>4, QueryNumbers DEF SpoolTyped
<1>8. PullTyped
  BY <1>3, <1>5, <1>6 DEF PullTyped, PullsSet
<1>9. \A o \in Offsets : pageJob[o].st = "none"
  BY <1>3, <1>6
<1>10. Begun
  BY <1>3, <1>5, <1>9 DEF Begun
<1>11. Front /\ Held
  BY <1>3, <1>5, <1>9 DEF Front, Held
<1>12. Laid
  <2>1. RowsFrom(query.skip, 0) = <<>> /\ Size \in Nat
    <3>1. query.skip \in Int /\ 0 \in Nat /\ Size \in Nat
      BY <1>1, QueryNumbers
    <3> QED
      BY <3>1, RowsAre
  <2>2. /\ pages.rows = <<>> /\ Len(pages.rows) = 0 /\ puller.pc = "idle"
        /\ ~pages.more /\ ~pages.trunc
    BY <1>3, <1>4, <1>5 DEF NoPages
  <2> QED
    BY <2>1, <2>2 DEF Laid
<1>13. Whole /\ Shown
  BY <1>3, <1>4, <1>5 DEF Whole, Shown
<1> QED
  BY <1>1, <1>2, <1>7, <1>8, <1>10, <1>11, <1>12, <1>13 DEF PagedIInv, Worker

LEMMA PagedSafe == PagedIInv => PagedInv
<1> SUFFICES ASSUME QueryTyped, Tokens, Worker PROVE PagedInv
  BY DEF PagedIInv
<1>1. SpoolTyped /\ PullTyped /\ (Undisturbed => Front /\ Held /\ Laid /\ Whole /\ Shown)
  BY DEF Worker
<1>2. Answer = RowsFrom(query.skip, Size) /\ Len(Answer) = Size
  BY AnswerIs
<1>3. PagedTypeOK
  <2>1. \A o \in Offsets : /\ pageJob[o].st \in Ended \union {"none", "pending", "running"}
                           /\ pageJob[o].tries \in 0..MaxRetries
    BY <1>1 DEF PullTyped, JobRecs, PageStates
  <2>2. /\ Len(pages.rows) <= SpoolMax
        /\ pages.rows # <<>> => pages.present
        /\ catalog.state \in {"none", "streaming", "complete", "failed", "closed"}
        /\ catalog.total \in -1..SpoolMax
    BY <1>1, QueryNumbers DEF SpoolTyped
  <2>3. /\ \A q \in Pagers : pager[q].op \in {"none", "page", "export", "token", "download"}
        /\ \A x \in Exports : export[x].token \in {"none", "live", "consumed"}
                              /\ export[x].deadline \in 0..2
    BY DEF Tokens, PagerSet, ExportSet
  <2> QED
    BY <2>1, <2>2, <2>3 DEF PagedTypeOK
<1>4. PagesAreAPrefix
  <2> SUFFICES ASSUME Undisturbed
               PROVE  pages.rows = SubSeq(Answer, 1, Len(pages.rows))
    BY DEF PagesAreAPrefix
  <2>1. Len(pages.rows) <= Size /\ pages.rows = RowsFrom(query.skip, Len(pages.rows))
    BY <1>1 DEF Laid
  <2>2. PICK l \in Nat : l = Len(pages.rows)
    BY <1>1 DEF SpoolTyped
  <2>3. Size \in Nat /\ query.skip \in Int
    BY QueryNumbers
  <2>4. l \in 0..Size
    BY <2>1, <2>2, <2>3
  <2>5. SubSeq(RowsFrom(query.skip, Size), 1, l) = RowsFrom(query.skip, l)
    BY <2>3, <2>4, RowsPrefix
  <2> QED
    BY <1>2, <2>1, <2>2, <2>5
<1>5. TotalIsExact
  BY <1>1, <1>2 DEF TotalIsExact, Shown
<1>6. NothingSilentlyMissing
  <2> SUFFICES ASSUME pages.present, ~pages.more, Undisturbed,
                      \/ puller.pc \in {"catalog", "success"}
                      \/ Pulling("idle") /\ pageJob[0].st = "success"
               PROVE  pages.rows = Answer
    BY DEF NothingSilentlyMissing
  <2>1. Len(pages.rows) = Size
    BY <1>1 DEF Whole, Settled
  <2> QED
    BY <1>1, <1>2, <2>1 DEF Laid
<1>7. TokenServesOnce
  BY DEF Tokens, ExportSet, TokenServesOnce
<1> QED
  BY <1>3, <1>4, <1>5, <1>6, <1>7 DEF PagedInv

\* What a reader of a paged query is promised, for every size of table, page and
\* spool and however many requests, evictions and collections are under way: as long
\* as no page job is executed twice and no spool goes from under one, the spool is a
\* prefix of the query's answer, a total that is shown is its size, and a settled
\* result that offers no further page is the whole answer or says it was cut; and a
\* download token serves one file once (request_job_page, _execute_sql_query,
\* append_spool, set_spool_pagination, _evict_console_resultsets, gc_expired,
\* download_export).
THEOREM PagedIsSafe == PagedSpec => []PagedInv
<1> QED
  BY PagedBegin, PagedKept, PagedSafe, PTL DEF PagedSpec

----------------------------------------------------------------------------
(* The triggers of a workflow: the inductive invariant.                      *)

RowRecs == [st : {"live"}, enabled : BOOLEAN, scheduled : BOOLEAN, period : Periods,
            fired : Int, sensing : BOOLEAN, checked : Int, triggered : Int, owned : BOOLEAN]
CheckSet == [at : {"pending", "met", "done"}, now : Int, for : Int]
RunSet == [trigger : {"schedule", "sensor", "manual"}, point : Int,
           allowed : BOOLEAN, wanted : BOOLEAN]

TriggersTyped ==
    /\ wf \in RowRecs \union {NoWorkflow} /\ time \in Nat \ {0}
    /\ checks \in Seq(CheckSet) /\ Len(checks) <= MaxChecks
    /\ wfRuns \in Seq(RunSet)
    /\ tick = [s \in Schedulers |-> tick[s]]

\* What a tick carries is not ahead of the clock: a point that has passed, and a
\* check of an anchor that is older than the tick.
TickIs(t, clock) ==
    /\ t.at \in {"idle", "cron", "claim", "sensor", "check"}
    /\ t.at # "idle" => t.now \in 1..clock
    /\ t.at = "claim" => t.point \in 0..(t.now - 1)
    /\ t.at = "check" => t.seen \in Int /\ t.seen < t.now

Ticking == \A s \in Schedulers : TickIs(tick[s], time)

Checking == \A c \in DOMAIN checks : checks[c].at = "met" => checks[c].now \in 1..time

\* The anchors of the row are not ahead of the clock either, and nothing was
\* started or dispatched beyond them.
Anchored ==
    WorkflowExists =>
       /\ wf.fired \in Null..(time - 1)
       /\ {wf.checked, wf.triggered} \subseteq Null..time
       /\ \A i \in RunsBy("schedule") : wfRuns[i].point <= wf.fired
       /\ \A i \in RunsBy("sensor") : wf.triggered # Null /\ wfRuns[i].point <= wf.triggered
       /\ \A c \in DOMAIN checks : checks[c].for < wf.checked

Started == FirePointsGrow /\ CooldownHolds /\ OffMeansOff /\ OneCheckPerReading

TriggersIInv == TriggersTyped /\ Ticking /\ Checking /\ Anchored /\ Started

\* The point a cron tick asks for has passed.
LEMMA FireHasPassed ==
  ASSUME NEW p \in Nat \ {0}, NEW n \in Nat \ {0}
  PROVE  MostRecentFire(p, n) \in 0..(n - 1)
<1> DEFINE q == (n - 1) \div p
           r == (n - 1) % p
<1>1. q \in Nat /\ r \in 0..(p - 1) /\ n - 1 = p * q + r
  OBVIOUS
<1>2. p * q \in Nat
  BY <1>1
<1> HIDE DEF q, r
<1>3. p * q \in 0..(n - 1)
  BY <1>1, <1>2
<1> QED
  BY <1>3 DEF MostRecentFire, q

LEMMA WorkflowIs ==
  ASSUME TriggersTyped
  PROVE  /\ WorkflowExists <=> wf \in RowRecs
         /\ WorkflowExists => /\ wf.fired \in Int /\ wf.checked \in Int /\ wf.triggered \in Int
                              /\ wf.period \in Nat \ {0}
         /\ Null = -1 /\ Interval \in Nat \ {0} /\ Cooldown \in Nat /\ MaxChecks \in Nat
         /\ time \in Nat \ {0}
<1>1. NoWorkflow \notin RowRecs
  <2>1. NoWorkflow.st = "none"
    BY DEF NoWorkflow
  <2> QED
    BY <2>1 DEF RowRecs
<1>2. MaxChecks \in Nat /\ Periods \subseteq Nat \ {0} /\ Interval \in Nat \ {0} /\ Cooldown \in Nat
  BY TriggerBounds
<1>3. WorkflowExists <=> wf \in RowRecs
  BY <1>1 DEF TriggersTyped, WorkflowExists
<1> QED
  BY <1>2, <1>3 DEF TriggersTyped, RowRecs, Null

\* A scheduler moves on in its tick.
LEMMA TickMoves ==
  ASSUME TriggersTyped, Ticking, NEW s \in Schedulers, NEW t,
         tick' = [tick EXCEPT ![s] = t], TickIs(t, time), time' = time
  PROVE  tick' = [u \in Schedulers |-> tick'[u]] /\ Ticking'
<1>1. tick' = [u \in Schedulers |-> IF u = s THEN t ELSE tick[u]]
  BY DEF TriggersTyped
<1>2. \A u \in Schedulers : tick'[u] = IF u = s THEN t ELSE tick[u]
  BY <1>1
<1>3. tick' = [u \in Schedulers |-> tick'[u]]
  BY <1>1, <1>2
<1> QED
  BY <1>2, <1>3 DEF Ticking

\* A run is started: its point is beyond the anchor it was claimed against.
LEMMA RunStarts ==
  ASSUME TriggersTyped, Anchored, Started, NEW r \in RunSet, wfRuns' = Append(wfRuns, r),
         r.allowed, r.wanted,
         r.trigger = "schedule" => WorkflowExists /\ wf.fired < r.point,
         r.trigger = "sensor" => /\ WorkflowExists
                                 /\ wf.triggered = Null \/ wf.triggered < r.point - Cooldown
  PROVE  /\ wfRuns' \in Seq(RunSet)
         /\ FirePointsGrow' /\ CooldownHolds' /\ OffMeansOff'
         /\ \A i \in DOMAIN wfRuns' : \/ i \in DOMAIN wfRuns /\ wfRuns'[i] = wfRuns[i]
                                      \/ wfRuns'[i] = r
<1>1. PICK l \in Nat : l = Len(wfRuns)
  BY DEF TriggersTyped
<1>2. /\ wfRuns \in Seq(RunSet) /\ DOMAIN wfRuns = 1..l
      /\ \A i \in 1..l : wfRuns[i] \in RunSet
  BY <1>1 DEF TriggersTyped
<1>3. /\ wfRuns' \in Seq(RunSet) /\ DOMAIN wfRuns' = 1..(l + 1)
      /\ \A i \in 1..l : wfRuns'[i] = wfRuns[i]
      /\ wfRuns'[l + 1] = r
  BY <1>1, <1>2
<1>4. \A i \in 1..(l + 1) : i \in 1..l \/ i = l + 1
  OBVIOUS
<1>5. \A i \in 1..l : wfRuns[i].point \in Int
  BY <1>2 DEF RunSet
<1>6. r.point \in Int /\ Cooldown \in Nat
  BY WorkflowIs DEF RunSet
<1>7. FirePointsGrow'
  <2> SUFFICES ASSUME NEW i \in 1..(l + 1), NEW j \in 1..(l + 1), i < j,
                      wfRuns'[i].trigger = "schedule", wfRuns'[j].trigger = "schedule"
               PROVE  wfRuns'[i].point < wfRuns'[j].point
    BY <1>3 DEF FirePointsGrow, RunsBy
  <2>1. i \in 1..l /\ wfRuns'[i] = wfRuns[i] /\ i \in RunsBy("schedule")
    <3>1. i \in 1..l
      OBVIOUS
    <3> QED
      BY <1>2, <1>3, <3>1 DEF RunsBy
  <2>2. CASE j = l + 1
    <3>1. r.trigger = "schedule" /\ wfRuns'[j] = r
      BY <1>3, <2>2
    <3>2. wfRuns[i].point <= wf.fired /\ wf.fired < r.point /\ wf.fired \in Int
      BY <2>1, <3>1, WorkflowIs DEF Anchored
    <3> QED
      BY <1>5, <1>6, <2>1, <3>1, <3>2
  <2>3. CASE j \in 1..l
    <3>1. j \in RunsBy("schedule") /\ wfRuns'[j] = wfRuns[j]
      BY <1>2, <1>3, <2>3 DEF RunsBy
    <3> QED
      BY <2>1, <3>1 DEF Started, FirePointsGrow
  <2> QED
    BY <1>4, <2>2, <2>3
<1>8. ASSUME NEW i \in 1..l, wfRuns[i].trigger = "sensor", r.trigger = "sensor"
      PROVE  r.point - wfRuns[i].point > Cooldown
  <2>1. i \in RunsBy("sensor")
    BY <1>2, <1>8 DEF RunsBy
  <2>2. WorkflowExists /\ wf.triggered # Null /\ wfRuns[i].point <= wf.triggered
    BY <1>8, <2>1 DEF Anchored
  <2>3. wf.triggered < r.point - Cooldown /\ wf.triggered \in Int
    BY <1>8, <2>2, WorkflowIs
  <2> QED
    BY <1>5, <1>6, <2>2, <2>3
<1>9. CooldownHolds'
  <2> SUFFICES ASSUME NEW i \in 1..(l + 1), NEW j \in 1..(l + 1), i # j,
                      wfRuns'[i].trigger = "sensor", wfRuns'[j].trigger = "sensor"
               PROVE  wfRuns'[i].point - wfRuns'[j].point \notin (-Cooldown)..Cooldown
    BY <1>3 DEF CooldownHolds, RunsBy
  <2>1. CASE j = l + 1
    <3>1. i \in 1..l
      BY <1>4, <2>1
    <3>2. wfRuns'[j] = r /\ wfRuns'[i] = wfRuns[i]
      BY <1>3, <2>1, <3>1
    <3>3. r.point - wfRuns[i].point > Cooldown
      BY <1>8, <3>1, <3>2
    <3> QED
      BY <1>5, <1>6, <3>1, <3>2, <3>3, SMTT(30)
  <2>2. CASE i = l + 1
    <3>1. j \in 1..l
      BY <1>4, <2>2
    <3>2. wfRuns'[i] = r /\ wfRuns'[j] = wfRuns[j]
      BY <1>3, <2>2, <3>1
    <3>3. r.point - wfRuns[j].point > Cooldown
      BY <1>8, <3>1, <3>2
    <3> QED
      BY <1>5, <1>6, <3>1, <3>2, <3>3, SMTT(30)
  <2>3. CASE i \in 1..l /\ j \in 1..l
    <3>1. /\ i \in RunsBy("sensor") /\ wfRuns'[i] = wfRuns[i]
          /\ j \in RunsBy("sensor") /\ wfRuns'[j] = wfRuns[j]
      BY <1>2, <1>3, <2>3 DEF RunsBy
    <3> QED
      BY <3>1 DEF Started, CooldownHolds
  <2> QED
    BY <1>4, <2>1, <2>2, <2>3
<1>10. OffMeansOff'
  <2> SUFFICES ASSUME NEW i \in 1..(l + 1) PROVE wfRuns'[i].allowed /\ wfRuns'[i].wanted
    BY <1>3 DEF OffMeansOff
  <2>1. CASE i = l + 1
    BY <1>3, <2>1, Zenon
  <2>2. CASE i \in 1..l
    <3>1. wfRuns'[i] = wfRuns[i] /\ i \in DOMAIN wfRuns
      BY <1>2, <1>3, <2>2
    <3> QED
      BY <3>1, Zenon DEF Started, OffMeansOff
  <2> QED
    BY <1>4, <2>1, <2>2
<1>11. \A i \in DOMAIN wfRuns' : \/ i \in DOMAIN wfRuns /\ wfRuns'[i] = wfRuns[i]
                                 \/ wfRuns'[i] = r
  BY <1>2, <1>3, <1>4
<1> QED
  BY <1>3, <1>7, <1>9, <1>10, <1>11

\* The job that a trigger enqueues.
LEMMA EnqueuedIs ==
  ASSUME TriggersTyped, WorkflowExists, wf.enabled,
         NEW k \in {"schedule", "sensor", "manual"}, NEW p \in Int,
         k = "schedule" => wf.scheduled, k = "sensor" => wf.sensing,
         wfRuns' = Enqueued(k, p)
  PROVE  \E r \in RunSet : /\ wfRuns' = Append(wfRuns, r)
                           /\ r.trigger = k /\ r.point = p /\ r.allowed /\ r.wanted
<1>1. /\ wf.enabled \in BOOLEAN /\ wf.scheduled \in BOOLEAN /\ wf.sensing \in BOOLEAN
  BY WorkflowIs DEF RowRecs
<1>2. /\ wf.enabled = TRUE /\ (k = "schedule" => wf.scheduled = TRUE)
      /\ (k = "sensor" => wf.sensing = TRUE)
  BY <1>1
<1> DEFINE w == CASE k = "schedule" -> wf.scheduled
                  [] k = "sensor"   -> wf.sensing
                  [] OTHER          -> TRUE
           r == [trigger |-> k, point |-> p, allowed |-> wf.enabled, wanted |-> w]
<1>3. w = TRUE
  BY <1>2
<1>4. wfRuns' = Append(wfRuns, r)
  BY DEF Enqueued
<1> HIDE DEF w
<1>5. r \in RunSet
  BY <1>2, <1>3 DEF RunSet
<1>6. r.trigger = k /\ r.point = p /\ r.allowed = TRUE /\ r.wanted = TRUE
  BY <1>2, <1>3
<1> HIDE DEF r
<1>7. r.allowed /\ r.wanted
  BY <1>6
<1> QED
  BY <1>4, <1>5, <1>6, <1>7

\* Steps of a tick that only read.
LEMMA TickReads ==
  ASSUME TriggersIInv, NEW s \in Schedulers, NEW t, tick' = [tick EXCEPT ![s] = t],
         TickIs(t, time), UNCHANGED <<wf, checks, wfRuns, time>>
  PROVE  TriggersIInv'
<1>1. TriggersTyped /\ Ticking /\ Checking /\ Anchored /\ Started
  BY DEF TriggersIInv
<1>2. tick' = [u \in Schedulers |-> tick'[u]] /\ Ticking'
  BY <1>1, TickMoves
<1>3. TriggersTyped'
  BY <1>1, <1>2 DEF TriggersTyped
<1>4. Checking' /\ Anchored'
  BY <1>1 DEF Checking, Anchored, WorkflowExists, RunsBy
<1>5. Started'
  BY <1>1 DEF Started, FirePointsGrow, CooldownHolds, OffMeansOff, OneCheckPerReading, RunsBy
<1> QED
  BY <1>2, <1>3, <1>4, <1>5 DEF TriggersIInv

LEMMA TickStepsKeep ==
  ASSUME TriggersIInv, NEW s \in Schedulers,
         TickStarts(s) \/ TickReadsCron(s) \/ TickReadsSensor(s) \/ SchedulerRestarts(s)
  PROVE  TriggersIInv'
<1>1. TriggersTyped /\ Ticking /\ time \in Nat \ {0} /\ TickIs(tick[s], time)
  BY DEF TriggersIInv, TriggersTyped, Ticking
<1>2. CASE TickStarts(s)
  <2> DEFINE t == [at |-> "cron", now |-> time]
  <2>1. TickIs(t, time)
    BY <1>1 DEF TickIs
  <2>2. tick' = [tick EXCEPT ![s] = t] /\ UNCHANGED <<wf, checks, wfRuns, time>>
    BY <1>2 DEF TickStarts
  <2> QED
    BY <2>1, <2>2, TickReads
<1>3. CASE TickReadsCron(s)
  <2>1. tick[s].at = "cron" /\ tick[s].now \in 1..time
    BY <1>1, <1>3 DEF TickReadsCron, TickIs
  <2>2. CASE Candidate /\ EvaluateSchedule(wf, tick[s].now) # "skip"
    <3> DEFINE t == [at |-> "claim", now |-> tick[s].now,
                     decision |-> EvaluateSchedule(wf, tick[s].now),
                     point |-> MostRecentFire(wf.period, tick[s].now)]
    <3>1. MostRecentFire(wf.period, tick[s].now) \in 0..(tick[s].now - 1)
      <4>1. wf.period \in Nat \ {0} /\ tick[s].now \in Nat \ {0}
        BY <1>1, <2>1, <2>2, WorkflowIs DEF Candidate
      <4> QED
        BY <4>1, FireHasPassed
    <3>2. TickIs(t, time)
      BY <2>1, <3>1 DEF TickIs
    <3>3. tick' = [tick EXCEPT ![s] = t] /\ UNCHANGED <<wf, checks, wfRuns, time>>
      BY <1>3, <2>2 DEF TickReadsCron
    <3> QED
      BY <3>2, <3>3, TickReads
  <2>3. CASE ~(Candidate /\ EvaluateSchedule(wf, tick[s].now) # "skip")
    <3> DEFINE t == [at |-> "sensor", now |-> tick[s].now]
    <3>1. TickIs(t, time)
      BY <2>1 DEF TickIs
    <3>2. tick' = [tick EXCEPT ![s] = t] /\ UNCHANGED <<wf, checks, wfRuns, time>>
      BY <1>3, <2>3 DEF TickReadsCron
    <3> QED
      BY <3>1, <3>2, TickReads
  <2> QED
    BY <2>2, <2>3
<1>4. CASE TickReadsSensor(s)
  <2>1. tick[s].at = "sensor" /\ tick[s].now \in 1..time
    BY <1>1, <1>4 DEF TickReadsSensor, TickIs
  <2>2. CASE WorkflowExists /\ EvaluateSensor(wf, tick[s].now)
    <3> DEFINE t == [at |-> "check", now |-> tick[s].now, seen |-> wf.checked]
    <3>1. wf.checked \in Int /\ wf.checked < tick[s].now
      <4>1. /\ wf.checked \in Int /\ Interval \in Nat \ {0} /\ Null = -1
            /\ wf.checked = Null \/ ~(tick[s].now - wf.checked < Interval)
        BY <1>1, <2>2, WorkflowIs DEF EvaluateSensor
      <4> QED
        BY <2>1, <4>1
    <3>2. TickIs(t, time)
      BY <2>1, <3>1 DEF TickIs
    <3>3. tick' = [tick EXCEPT ![s] = t] /\ UNCHANGED <<wf, checks, wfRuns, time>>
      BY <1>4, <2>2 DEF TickReadsSensor
    <3> QED
      BY <3>2, <3>3, TickReads
  <2>3. CASE ~(WorkflowExists /\ EvaluateSensor(wf, tick[s].now))
    <3>1. TickIs(Resting, time)
      BY DEF TickIs, Resting
    <3>2. tick' = [tick EXCEPT ![s] = Resting] /\ UNCHANGED <<wf, checks, wfRuns, time>>
      BY <1>4, <2>3 DEF TickReadsSensor
    <3> QED
      BY <3>1, <3>2, TickReads
  <2> QED
    BY <2>2, <2>3
<1>5. CASE SchedulerRestarts(s)
  <2>1. TickIs(Resting, time)
    BY DEF TickIs, Resting
  <2>2. tick' = [tick EXCEPT ![s] = Resting] /\ UNCHANGED <<wf, checks, wfRuns, time>>
    BY <1>5 DEF SchedulerRestarts
  <2> QED
    BY <2>1, <2>2, TickReads
<1> QED
  BY <1>2, <1>3, <1>4, <1>5

\* Steps of a user that leave the anchors alone, and the clock's.
LEMMA RowEdited ==
  ASSUME TriggersIInv, UNCHANGED <<tick, checks, wfRuns>>,
         \/ UNCHANGED wf /\ time' = time + 1
         \/ /\ UNCHANGED time /\ WorkflowExists /\ wf' \in RowRecs
            /\ wf'.fired = wf.fired /\ wf'.checked = wf.checked /\ wf'.triggered = wf.triggered
         \/ UNCHANGED time /\ wf' = NoWorkflow
  PROVE  TriggersIInv'
<1>1. TriggersTyped /\ Ticking /\ Checking /\ Anchored /\ Started
  BY DEF TriggersIInv
<1>2. time \in Nat \ {0} /\ time' \in Nat \ {0} /\ time <= time'
  BY <1>1 DEF TriggersTyped
<1>3. TriggersTyped'
  BY <1>1, <1>2 DEF TriggersTyped
<1>4. Ticking'
  <2> SUFFICES ASSUME NEW s \in Schedulers PROVE TickIs(tick[s], time')
    BY DEF Ticking
  <2>1. TickIs(tick[s], time)
    BY <1>1 DEF Ticking
  <2> QED
    BY <1>2, <2>1 DEF TickIs
<1>5. Checking'
  BY <1>1, <1>2 DEF Checking
<1>6. Anchored'
  <2>1. CASE wf' = NoWorkflow
    BY <2>1 DEF Anchored, WorkflowExists
  <2>2. CASE wf' # NoWorkflow
    <3>1. /\ WorkflowExists
          /\ wf'.fired = wf.fired /\ wf'.checked = wf.checked /\ wf'.triggered = wf.triggered
      BY <2>2 DEF WorkflowExists
    <3>2. /\ wf.fired \in Null..(time - 1)
          /\ {wf.checked, wf.triggered} \subseteq Null..time
          /\ \A i \in RunsBy("schedule") : wfRuns[i].point <= wf.fired
          /\ \A i \in RunsBy("sensor") : wf.triggered # Null /\ wfRuns[i].point <= wf.triggered
          /\ \A c \in DOMAIN checks : checks[c].for < wf.checked
      BY <1>1, <3>1 DEF Anchored
    <3>3. /\ wf.fired \in Null..(time' - 1)
          /\ {wf.checked, wf.triggered} \subseteq Null..time'
      BY <1>2, <3>2 DEF Null
    <3> QED
      BY <3>1, <3>2, <3>3 DEF Anchored, RunsBy
  <2> QED
    BY <2>1, <2>2
<1>7. Started'
  BY <1>1 DEF Started, FirePointsGrow, CooldownHolds, OffMeansOff, OneCheckPerReading, RunsBy
<1> QED
  BY <1>3, <1>4, <1>5, <1>6, <1>7 DEF TriggersIInv

LEMMA EditsKeep ==
  ASSUME TriggersIInv, ClockTicks \/ UpdateWorkflow \/ DeleteWorkflow \/ OwnerDeleted
  PROVE  TriggersIInv'
<1>1. TriggersTyped
  BY DEF TriggersIInv
<1>2. CASE ClockTicks
  BY <1>2, RowEdited DEF ClockTicks
<1>3. CASE UpdateWorkflow
  <2>1. /\ WorkflowExists /\ wf \in RowRecs
        /\ UNCHANGED <<tick, checks, wfRuns, time>>
    BY <1>1, <1>3, WorkflowIs DEF UpdateWorkflow
  <2>2. PICK p \in Periods, sch \in BOOLEAN, sen \in BOOLEAN, en \in BOOLEAN :
          wf' = [wf EXCEPT !.period = p, !.scheduled = sch, !.sensing = sen, !.enabled = en]
    BY <1>3 DEF UpdateWorkflow
  <2>3. wf' \in RowRecs
    BY <2>1, <2>2 DEF RowRecs
  <2>4. wf'.fired = wf.fired /\ wf'.checked = wf.checked /\ wf'.triggered = wf.triggered
    BY <2>1, <2>2 DEF RowRecs
  <2> QED
    BY <2>1, <2>3, <2>4, RowEdited
<1>4. CASE DeleteWorkflow
  BY <1>4, RowEdited DEF DeleteWorkflow
<1>5. CASE OwnerDeleted
  <2>1. /\ WorkflowExists /\ wf \in RowRecs /\ wf' = [wf EXCEPT !.owned = FALSE]
        /\ UNCHANGED <<tick, checks, wfRuns, time>>
    BY <1>1, <1>5, WorkflowIs DEF OwnerDeleted
  <2>2. wf' \in RowRecs
    BY <2>1 DEF RowRecs
  <2>3. wf'.fired = wf.fired /\ wf'.checked = wf.checked /\ wf'.triggered = wf.triggered
    BY <2>1 DEF RowRecs
  <2> QED
    BY <2>1, <2>2, <2>3, RowEdited
<1> QED
  BY <1>2, <1>3, <1>4, <1>5

\* trigger_workflow_run.
LEMMA TriggerRunKeeps ==
  ASSUME TriggersIInv, TriggerRun
  PROVE  TriggersIInv'
<1>1. TriggersTyped /\ Ticking /\ Checking /\ Anchored /\ Started
  BY DEF TriggersIInv
<1>2. /\ WorkflowExists /\ wf.enabled /\ wfRuns' = Enqueued("manual", Null)
      /\ UNCHANGED <<wf, tick, checks, time>>
  BY DEF TriggerRun
<1>3. PICK r \in RunSet : /\ wfRuns' = Append(wfRuns, r)
                          /\ r.trigger = "manual" /\ r.allowed /\ r.wanted
  BY <1>1, <1>2, EnqueuedIs DEF Null
<1>4. /\ wfRuns' \in Seq(RunSet) /\ FirePointsGrow' /\ CooldownHolds' /\ OffMeansOff'
      /\ \A i \in DOMAIN wfRuns' : \/ i \in DOMAIN wfRuns /\ wfRuns'[i] = wfRuns[i]
                                   \/ wfRuns'[i] = r
  BY <1>1, <1>3, RunStarts
<1>5. TriggersTyped' /\ Ticking' /\ Checking'
  BY <1>1, <1>2, <1>4 DEF TriggersTyped, Ticking, Checking
<1>6. \A i \in DOMAIN wfRuns' : wfRuns'[i].trigger # "manual" =>
         i \in DOMAIN wfRuns /\ wfRuns'[i] = wfRuns[i]
  BY <1>3, <1>4
<1>7. Anchored'
  BY <1>1, <1>2, <1>6 DEF Anchored, WorkflowExists, RunsBy
<1>8. OneCheckPerReading'
  BY <1>1, <1>2 DEF Started, OneCheckPerReading
<1> QED
  BY <1>4, <1>5, <1>7, <1>8 DEF TriggersIInv, Started

\* Nothing but the tick moves on, when a claim finds the row changed.
LEMMA ClaimsCronKeeps ==
  ASSUME TriggersIInv, NEW s \in Schedulers, TickClaimsCron(s)
  PROVE  TriggersIInv'
<1>1. TriggersTyped /\ Ticking /\ Checking /\ Anchored /\ Started
  BY DEF TriggersIInv
<1>2. /\ tick[s].at = "claim" /\ TickIs(tick[s], time)
      /\ tick[s].now \in 1..time /\ tick[s].point \in 0..(tick[s].now - 1)
  BY <1>1 DEF TickClaimsCron, Ticking, TickIs
<1> DEFINE t == [at |-> "sensor", now |-> tick[s].now]
<1>3. tick' = [tick EXCEPT ![s] = t] /\ UNCHANGED <<checks, time>> /\ TickIs(t, time)
  BY <1>2 DEF TickClaimsCron, TickIs
<1> HIDE DEF t
<1>4. CASE ~ClaimsFire(tick[s].point)
  <2>1. wf' = wf /\ wfRuns' = wfRuns
    BY <1>4 DEF TickClaimsCron
  <2> QED
    BY <1>3, <2>1, TickReads
<1>5. CASE ClaimsFire(tick[s].point)
  <2>1. /\ WorkflowExists /\ wf.enabled /\ wf.scheduled /\ wf.fired < tick[s].point
        /\ wf \in RowRecs
    BY <1>1, <1>5, WorkflowIs DEF ClaimsFire
  <2>2. PICK p \in Int : p = tick[s].point
    BY <1>2
  <2>3. wf' = [wf EXCEPT !.fired = p]
    BY <1>5, <2>2 DEF TickClaimsCron
  <2>4. wf' \in RowRecs
    BY <2>1, <2>3 DEF RowRecs
  <2>5. wf'.fired = p /\ wf'.checked = wf.checked /\ wf'.triggered = wf.triggered
    BY <2>1, <2>3 DEF RowRecs
  <2>6. wf' # NoWorkflow
    <3>1. NoWorkflow.st = "none" /\ wf'.st = "live"
      BY <2>4 DEF NoWorkflow, RowRecs
    <3> QED
      BY <3>1
  <2>7. /\ wfRuns' \in Seq(RunSet) /\ FirePointsGrow' /\ CooldownHolds' /\ OffMeansOff'
        /\ \A i \in DOMAIN wfRuns' :
              \/ i \in DOMAIN wfRuns /\ wfRuns'[i] = wfRuns[i]
              \/ wfRuns'[i].trigger = "schedule" /\ wfRuns'[i].point = p
    <3>1. CASE wfRuns' = wfRuns
      BY <1>1, <3>1 DEF TriggersTyped, Started, FirePointsGrow, CooldownHolds, OffMeansOff, RunsBy
    <3>2. CASE wfRuns' = Enqueued("schedule", p)
      <4>1. PICK r \in RunSet : /\ wfRuns' = Append(wfRuns, r) /\ r.trigger = "schedule"
                                /\ r.point = p /\ r.allowed /\ r.wanted
        BY <1>1, <2>1, <3>2, EnqueuedIs
      <4>2. /\ wfRuns' \in Seq(RunSet) /\ FirePointsGrow' /\ CooldownHolds' /\ OffMeansOff'
            /\ \A i \in DOMAIN wfRuns' : \/ i \in DOMAIN wfRuns /\ wfRuns'[i] = wfRuns[i]
                                         \/ wfRuns'[i] = r
        BY <1>1, <2>1, <2>2, <4>1, RunStarts
      <4> QED
        BY <4>1, <4>2
    <3>3. wfRuns' = wfRuns \/ wfRuns' = Enqueued("schedule", p)
      BY <2>2 DEF TickClaimsCron
    <3> QED
      BY <3>1, <3>2, <3>3
  <2>8. tick' = [u \in Schedulers |-> tick'[u]] /\ Ticking'
    BY <1>1, <1>3, TickMoves
  <2>9. TriggersTyped' /\ Checking'
    BY <1>1, <1>3, <2>4, <2>7, <2>8 DEF TriggersTyped, Checking
  <2>10. Anchored'
    <3>1. /\ wf.fired \in Null..(time - 1)
          /\ {wf.checked, wf.triggered} \subseteq Null..time
          /\ \A i \in RunsBy("schedule") : wfRuns[i].point <= wf.fired
          /\ \A i \in RunsBy("sensor") : wf.triggered # Null /\ wfRuns[i].point <= wf.triggered
          /\ \A c \in DOMAIN checks : checks[c].for < wf.checked
      BY <1>1, <2>1 DEF Anchored
    <3>2. p \in Null..(time - 1)
      BY <1>1, <1>2, <2>2, WorkflowIs
    <3>3. ASSUME NEW i \in DOMAIN wfRuns', wfRuns'[i].trigger = "schedule"
          PROVE  wfRuns'[i].point <= p
      <4>1. CASE i \in DOMAIN wfRuns /\ wfRuns'[i] = wfRuns[i]
        <5>1. wfRuns[i].point <= wf.fired
          BY <3>1, <3>3, <4>1 DEF RunsBy
        <5>2. wf.fired \in Int
          BY <1>1, <2>1, WorkflowIs
        <5>3. wfRuns[i] \in RunSet
          BY <1>1, <4>1 DEF TriggersTyped
        <5>4. wfRuns[i].point \in Int
          BY <5>3 DEF RunSet
        <5> QED
          BY <2>1, <2>2, <4>1, <5>1, <5>2, <5>4
      <4>2. CASE wfRuns'[i].point = p
        BY <4>2
      <4> QED
        BY <2>7, <4>1, <4>2
    <3>4. ASSUME NEW i \in DOMAIN wfRuns', wfRuns'[i].trigger = "sensor"
          PROVE  wf.triggered # Null /\ wfRuns'[i].point <= wf.triggered
      BY <2>7, <3>1, <3>4 DEF RunsBy
    <3> QED
      BY <1>3, <2>5, <3>1, <3>2, <3>3, <3>4 DEF Anchored, RunsBy
  <2>11. OneCheckPerReading'
    BY <1>1, <1>3 DEF Started, OneCheckPerReading
  <2> QED
    BY <2>7, <2>8, <2>9, <2>10, <2>11 DEF TriggersIInv, Started
<1> QED
  BY <1>4, <1>5

\* A check is dispatched, for a reading of the anchor that is replaced with it.
LEMMA ClaimsSensorKeeps ==
  ASSUME TriggersIInv, NEW s \in Schedulers, TickClaimsSensor(s)
  PROVE  TriggersIInv'
<1>1. TriggersTyped /\ Ticking /\ Checking /\ Anchored /\ Started
  BY DEF TriggersIInv
<1>2. /\ tick[s].at = "check" /\ tick[s].now \in 1..time
      /\ tick[s].seen \in Int /\ tick[s].seen < tick[s].now
  BY <1>1 DEF TickClaimsSensor, Ticking, TickIs
<1>3. /\ tick' = [tick EXCEPT ![s] = Resting] /\ TickIs(Resting, time)
      /\ UNCHANGED <<wfRuns, time>>
  BY DEF TickClaimsSensor, TickIs, Resting
<1>4. CASE ~ClaimsCheck(tick[s].seen)
  <2>1. wf' = wf /\ checks' = checks
    BY <1>4 DEF TickClaimsSensor
  <2> QED
    BY <1>3, <2>1, TickReads
<1>5. CASE ClaimsCheck(tick[s].seen)
  <2>1. PICK n \in Int, o \in Int : n = tick[s].now /\ o = tick[s].seen
    BY <1>2
  <2>2. WorkflowExists /\ wf.checked = o /\ wf \in RowRecs /\ o < n /\ n \in 1..time
    BY <1>1, <1>2, <1>5, <2>1, WorkflowIs DEF ClaimsCheck
  <2>3. wf' = [wf EXCEPT !.checked = n]
    BY <1>5, <2>1 DEF TickClaimsSensor
  <2>4. wf' \in RowRecs
    BY <2>2, <2>3 DEF RowRecs
  <2>5. wf'.checked = n /\ wf'.fired = wf.fired /\ wf'.triggered = wf.triggered
    BY <2>2, <2>3 DEF RowRecs
  <2>6. PICK l \in Nat : l = Len(checks) /\ DOMAIN checks = 1..l /\ l < MaxChecks
    <3>1. Len(checks) < MaxChecks
      BY DEF TickClaimsSensor
    <3> QED
      BY <1>1, <3>1 DEF TriggersTyped
  <2>7. \A c \in 1..l : checks[c] \in CheckSet /\ checks[c].for \in Int
    <3>1. \A c \in 1..l : checks[c] \in CheckSet
      BY <1>1, <2>6 DEF TriggersTyped
    <3> QED
      BY <3>1 DEF CheckSet
  <2> DEFINE e == [at |-> "pending", now |-> Null, for |-> o]
  <2>8. e \in CheckSet /\ e.at = "pending" /\ e.for = o
    BY DEF CheckSet, Null
  <2>9. checks' = checks \/ checks' = Append(checks, e)
    BY <1>5, <2>1 DEF TickClaimsSensor
  <2> HIDE DEF e
  <2>10. /\ checks' \in Seq(CheckSet) /\ Len(checks') <= MaxChecks
         /\ \A c \in DOMAIN checks' : \/ c \in 1..l /\ checks'[c] = checks[c]
                                      \/ c = l + 1 /\ checks'[c] = e
    <3>1. CASE checks' = checks
      BY <1>1, <2>6, <3>1 DEF TriggersTyped
    <3>2. CASE checks' = Append(checks, e)
      <4>1. /\ checks' \in Seq(CheckSet) /\ Len(checks') = l + 1 /\ DOMAIN checks' = 1..(l + 1)
            /\ \A c \in 1..l : checks'[c] = checks[c]
            /\ checks'[l + 1] = e
        BY <1>1, <2>6, <2>8, <3>2 DEF TriggersTyped
      <4>2. l + 1 <= MaxChecks
        BY <1>1, <2>6, WorkflowIs
      <4> QED
        BY <4>1, <4>2
    <3> QED
      BY <2>9, <3>1, <3>2
  <2>11. tick' = [u \in Schedulers |-> tick'[u]] /\ Ticking'
    BY <1>1, <1>3, TickMoves
  <2>12. TriggersTyped'
    BY <1>1, <1>3, <2>4, <2>10, <2>11 DEF TriggersTyped
  <2>13. Checking'
    BY <1>1, <1>3, <2>6, <2>8, <2>10 DEF Checking
  <2>14. \A c \in 1..l : checks[c].for < o
    BY <1>1, <2>2, <2>6 DEF Anchored
  <2>15. OneCheckPerReading'
    <3> SUFFICES ASSUME NEW c \in DOMAIN checks', NEW d \in DOMAIN checks', c # d
                 PROVE  checks'[c].for # checks'[d].for
      BY DEF OneCheckPerReading
    <3>1. CASE c = l + 1
      <4>1. d \in 1..l /\ checks'[d] = checks[d] /\ checks'[c] = e
        BY <2>10, <3>1
      <4> QED
        BY <2>7, <2>8, <2>14, <4>1
    <3>2. CASE d = l + 1
      <4>1. c \in 1..l /\ checks'[c] = checks[c] /\ checks'[d] = e
        BY <2>10, <3>2
      <4> QED
        BY <2>7, <2>8, <2>14, <4>1
    <3>3. CASE c # l + 1 /\ d # l + 1
      <4>1. c \in 1..l /\ checks'[c] = checks[c] /\ d \in 1..l /\ checks'[d] = checks[d]
        BY <2>10, <3>3
      <4> QED
        BY <1>1, <2>6, <4>1 DEF Started, OneCheckPerReading
    <3> QED
      BY <3>1, <3>2, <3>3
  <2>16. Anchored'
    <3>1. /\ wf.fired \in Null..(time - 1)
          /\ {wf.checked, wf.triggered} \subseteq Null..time
          /\ \A i \in RunsBy("schedule") : wfRuns[i].point <= wf.fired
          /\ \A i \in RunsBy("sensor") : wf.triggered # Null /\ wfRuns[i].point <= wf.triggered
      BY <1>1, <2>2 DEF Anchored
    <3>2. n \in Null..time
      BY <1>1, <2>2, WorkflowIs
    <3>3. \A c \in DOMAIN checks' : checks'[c].for < n
      BY <2>2, <2>7, <2>8, <2>10, <2>14
    <3> QED
      BY <1>3, <2>5, <3>1, <3>2, <3>3 DEF Anchored, RunsBy
  <2>17. FirePointsGrow' /\ CooldownHolds' /\ OffMeansOff'
    BY <1>1, <1>3 DEF Started, FirePointsGrow, CooldownHolds, OffMeansOff, RunsBy
  <2> QED
    BY <2>11, <2>12, <2>13, <2>15, <2>16, <2>17 DEF TriggersIInv, Started
<1> QED
  BY <1>4, <1>5

\* A check moves on: what it was dispatched for stays.
LEMMA CheckMoves ==
  ASSUME TriggersTyped, NEW c \in DOMAIN checks, NEW a \in {"met", "done"}, NEW n \in Int,
         checks' = [checks EXCEPT ![c].at = a, ![c].now = n]
  PROVE  /\ checks' \in Seq(CheckSet) /\ Len(checks') = Len(checks)
         /\ DOMAIN checks' = DOMAIN checks
         /\ \A d \in DOMAIN checks : /\ checks'[d].for = checks[d].for
                                     /\ d # c => checks'[d] = checks[d]
         /\ checks'[c].at = a /\ checks'[c].now = n
<1>1. checks \in Seq(CheckSet) /\ checks[c] \in CheckSet
  BY DEF TriggersTyped
<1> DEFINE e == [checks[c] EXCEPT !.at = a, !.now = n]
<1>2. e \in CheckSet /\ e.at = a /\ e.now = n /\ e.for = checks[c].for
  BY <1>1 DEF CheckSet
<1>3. checks' = [checks EXCEPT ![c] = e]
  BY <1>1
<1> HIDE DEF e
<1>4. /\ checks' \in Seq(CheckSet) /\ Len(checks') = Len(checks) /\ DOMAIN checks' = DOMAIN checks
      /\ checks'[c] = e /\ \A d \in DOMAIN checks : d # c => checks'[d] = checks[d]
  <2>1. c \in 1..Len(checks) /\ DOMAIN checks = 1..Len(checks)
    BY <1>1
  <2> DEFINE f == [checks EXCEPT ![c] = e]
  <2>2. /\ f \in Seq(CheckSet) /\ Len(f) = Len(checks)
        /\ \A d \in 1..Len(checks) : f[d] = IF d = c THEN e ELSE checks[d]
    BY <1>1, <1>2, <2>1, ExceptSeq
  <2>3. DOMAIN f = 1..Len(f)
    BY <2>2
  <2>4. checks' = f
    BY <1>3
  <2> HIDE DEF f
  <2> QED
    BY <2>1, <2>2, <2>3, <2>4
<1> QED
  BY <1>2, <1>4

LEMMA CheckEvaluatesKeeps ==
  ASSUME TriggersIInv, NEW c \in DOMAIN checks, CheckEvaluates(c)
  PROVE  TriggersIInv'
<1>1. TriggersTyped /\ Ticking /\ Checking /\ Anchored /\ Started
  BY DEF TriggersIInv
<1>2. UNCHANGED <<wf, tick, wfRuns, time>> /\ time \in Nat \ {0}
  BY <1>1 DEF CheckEvaluates, TriggersTyped
<1>3. PICK a \in {"met", "done"}, n \in Int :
        /\ checks' = [checks EXCEPT ![c].at = a, ![c].now = n]
        /\ a = "met" => n = time
  <2>1. PICK truthy \in BOOLEAN :
          checks' = [checks EXCEPT ![c].at = IF truthy THEN "met" ELSE "done",
                                   ![c].now = IF truthy THEN time ELSE Null]
    BY DEF CheckEvaluates
  <2>2. CASE truthy
    <3>1. checks' = [checks EXCEPT ![c].at = "met", ![c].now = time] /\ time \in Int
      BY <1>2, <2>1, <2>2
    <3> QED
      BY <3>1, Zenon
  <2>3. CASE ~truthy
    <3>1. checks' = [checks EXCEPT ![c].at = "done", ![c].now = Null] /\ Null \in Int
      BY <2>1, <2>3 DEF Null
    <3> QED
      BY <3>1, Zenon
  <2> QED
    BY <2>2, <2>3
<1>4. /\ checks' \in Seq(CheckSet) /\ Len(checks') = Len(checks) /\ DOMAIN checks' = DOMAIN checks
      /\ \A d \in DOMAIN checks : /\ checks'[d].for = checks[d].for
                                  /\ d # c => checks'[d] = checks[d]
      /\ checks'[c].at = a /\ checks'[c].now = n
  BY <1>1, <1>3, CheckMoves
<1>5. TriggersTyped' /\ Ticking'
  BY <1>1, <1>2, <1>4 DEF TriggersTyped, Ticking
<1>6. Checking'
  BY <1>1, <1>2, <1>3, <1>4 DEF Checking
<1>7. Anchored'
  BY <1>1, <1>2, <1>4 DEF Anchored, WorkflowExists, RunsBy
<1>8. Started'
  BY <1>1, <1>2, <1>4 DEF Started, FirePointsGrow, CooldownHolds, OffMeansOff, OneCheckPerReading,
     RunsBy
<1> QED
  BY <1>5, <1>6, <1>7, <1>8 DEF TriggersIInv

\* claim_trigger_and_enqueue.
LEMMA CheckClaimsKeeps ==
  ASSUME TriggersIInv, NEW c \in DOMAIN checks, CheckClaims(c)
  PROVE  TriggersIInv'
<1>1. TriggersTyped /\ Ticking /\ Checking /\ Anchored /\ Started
  BY DEF TriggersIInv
<1>2. /\ UNCHANGED <<tick, time>> /\ checks[c].at = "met"
      /\ checks' = [checks EXCEPT ![c].at = "done", ![c].now = Null]
  BY DEF CheckClaims
<1>3. Null \in Int /\ "done" \in {"met", "done"}
  BY DEF Null
<1>4. /\ checks' \in Seq(CheckSet) /\ Len(checks') = Len(checks) /\ DOMAIN checks' = DOMAIN checks
      /\ \A d \in DOMAIN checks : /\ checks'[d].for = checks[d].for
                                  /\ d # c => checks'[d] = checks[d]
      /\ checks'[c].at = "done"
  BY <1>1, <1>2, <1>3, CheckMoves
<1>5. Checking' /\ Ticking' /\ OneCheckPerReading'
  BY <1>1, <1>2, <1>4 DEF Checking, Ticking, Started, OneCheckPerReading
<1>6. PICK n \in Int : n = checks[c].now /\ n \in 1..time
  BY <1>1, <1>2 DEF Checking
<1>7. CASE ~ClaimsTrigger(n)
  <2>1. wf' = wf /\ wfRuns' = wfRuns
    BY <1>6, <1>7 DEF CheckClaims
  <2>2. TriggersTyped'
    BY <1>1, <1>2, <1>4, <2>1 DEF TriggersTyped
  <2>3. Anchored'
    BY <1>1, <1>2, <1>4, <2>1 DEF Anchored, WorkflowExists, RunsBy
  <2>4. FirePointsGrow' /\ CooldownHolds' /\ OffMeansOff'
    BY <1>1, <2>1 DEF Started, FirePointsGrow, CooldownHolds, OffMeansOff, RunsBy
  <2> QED
    BY <1>5, <2>2, <2>3, <2>4 DEF TriggersIInv, Started
<1>8. CASE ClaimsTrigger(n)
  <2>1. /\ WorkflowExists /\ wf.enabled /\ wf.sensing /\ wf \in RowRecs
        /\ wf.triggered = Null \/ wf.triggered < n - Cooldown
    BY <1>1, <1>8, WorkflowIs DEF ClaimsTrigger
  <2>2. wf' = [wf EXCEPT !.triggered = n] /\ wfRuns' = Enqueued("sensor", n)
    BY <1>6, <1>8 DEF CheckClaims
  <2>3. wf' \in RowRecs
    BY <2>1, <2>2 DEF RowRecs
  <2>4. wf'.triggered = n /\ wf'.fired = wf.fired /\ wf'.checked = wf.checked
    BY <2>1, <2>2 DEF RowRecs
  <2>5. PICK r \in RunSet : /\ wfRuns' = Append(wfRuns, r) /\ r.trigger = "sensor"
                            /\ r.point = n /\ r.allowed /\ r.wanted
    BY <1>1, <2>1, <2>2, EnqueuedIs
  <2>6. /\ wfRuns' \in Seq(RunSet) /\ FirePointsGrow' /\ CooldownHolds' /\ OffMeansOff'
        /\ \A i \in DOMAIN wfRuns' : \/ i \in DOMAIN wfRuns /\ wfRuns'[i] = wfRuns[i]
                                     \/ wfRuns'[i] = r
    BY <1>1, <2>1, <2>5, RunStarts
  <2>7. TriggersTyped'
    BY <1>1, <1>2, <1>4, <2>3, <2>6 DEF TriggersTyped
  <2>8. Anchored'
    <3>1. /\ wf.fired \in Null..(time - 1)
          /\ {wf.checked, wf.triggered} \subseteq Null..time
          /\ \A i \in RunsBy("schedule") : wfRuns[i].point <= wf.fired
          /\ \A i \in RunsBy("sensor") : wf.triggered # Null /\ wfRuns[i].point <= wf.triggered
          /\ \A d \in DOMAIN checks : checks[d].for < wf.checked
      BY <1>1, <2>1 DEF Anchored
    <3>2. n \in Null..time /\ n # Null
      BY <1>1, <1>6, WorkflowIs
    <3>3. ASSUME NEW i \in DOMAIN wfRuns', wfRuns'[i].trigger = "schedule"
          PROVE  wfRuns'[i].point <= wf.fired
      BY <2>5, <2>6, <3>1, <3>3 DEF RunsBy
    <3>4. ASSUME NEW i \in DOMAIN wfRuns', wfRuns'[i].trigger = "sensor"
          PROVE  wfRuns'[i].point <= n
      <4>1. CASE i \in DOMAIN wfRuns /\ wfRuns'[i] = wfRuns[i]
        <5>1. wf.triggered # Null /\ wfRuns[i].point <= wf.triggered
          BY <3>1, <3>4, <4>1 DEF RunsBy
        <5>2. wf.triggered \in Int /\ Cooldown \in Nat
          BY <1>1, <2>1, WorkflowIs
        <5>3. wfRuns[i] \in RunSet
          BY <1>1, <4>1 DEF TriggersTyped
        <5>4. wfRuns[i].point \in Int
          BY <5>3 DEF RunSet
        <5> QED
          BY <2>1, <4>1, <5>1, <5>2, <5>4
      <4>2. CASE wfRuns'[i] = r
        BY <2>5, <4>2
      <4> QED
        BY <2>6, <4>1, <4>2
    <3>5. \A d \in DOMAIN checks' : checks'[d].for < wf.checked
      BY <1>4, <3>1
    <3> QED
      BY <1>2, <2>4, <3>1, <3>2, <3>3, <3>4, <3>5 DEF Anchored, RunsBy
  <2> QED
    BY <1>5, <2>6, <2>7, <2>8 DEF TriggersIInv, Started
<1> QED
  BY <1>7, <1>8

LEMMA TriggersKept == TriggersIInv /\ [TriggersNext]_triggerVars => TriggersIInv'
<1> SUFFICES ASSUME TriggersIInv, [TriggersNext]_triggerVars PROVE TriggersIInv'
  OBVIOUS
<1>1. CASE UNCHANGED triggerVars
  <2>1. /\ wf' = wf /\ tick' = tick /\ checks' = checks /\ wfRuns' = wfRuns /\ time' = time
    BY <1>1 DEF triggerVars
  <2>2. TriggersTyped' /\ Ticking' /\ Checking' /\ Anchored'
    BY <2>1 DEF TriggersIInv, TriggersTyped, Ticking, Checking, Anchored, WorkflowExists, RunsBy
  <2>3. Started'
    BY <2>1 DEF TriggersIInv, Started, FirePointsGrow, CooldownHolds, OffMeansOff,
       OneCheckPerReading, RunsBy
  <2> QED
    BY <2>2, <2>3 DEF TriggersIInv
<1>2. CASE ClockTicks \/ UpdateWorkflow \/ DeleteWorkflow \/ OwnerDeleted
  BY <1>2, EditsKeep
<1>3. CASE TriggerRun
  BY <1>3, TriggerRunKeeps
<1>4. ASSUME NEW s \in Schedulers,
             TickStarts(s) \/ TickReadsCron(s) \/ TickReadsSensor(s) \/ SchedulerRestarts(s)
      PROVE  TriggersIInv'
  BY <1>4, TickStepsKeep
<1>5. ASSUME NEW s \in Schedulers, TickClaimsCron(s) \/ TickClaimsSensor(s)
      PROVE  TriggersIInv'
  BY <1>5, ClaimsCronKeeps, ClaimsSensorKeeps
<1>6. ASSUME NEW c \in DOMAIN checks, CheckEvaluates(c) \/ CheckClaims(c)
      PROVE  TriggersIInv'
  BY <1>6, CheckEvaluatesKeeps, CheckClaimsKeeps
<1> QED
  BY <1>1, <1>2, <1>3, <1>4, <1>5, <1>6 DEF TriggersNext

LEMMA TriggersBegin == TriggersInit => TriggersIInv
<1> SUFFICES ASSUME TriggersInit PROVE TriggersIInv
  OBVIOUS
<1>1. PICK p \in Periods, sch \in BOOLEAN, sen \in BOOLEAN : wf = NewRow(TRUE, sch, sen, p, TRUE)
  BY DEF TriggersInit
<1>2. /\ tick = [s \in Schedulers |-> Resting] /\ checks = << >> /\ wfRuns = << >> /\ time = 1
  BY DEF TriggersInit
<1>3. /\ wf \in RowRecs /\ wf.fired = Null /\ wf.checked = Null /\ wf.triggered = Null
  BY <1>1 DEF NewRow, RowRecs, Null
<1>4. TriggersTyped
  BY <1>2, <1>3, TriggerBounds DEF TriggersTyped
<1>5. Ticking
  BY <1>2 DEF Ticking, TickIs, Resting
<1>6. Checking /\ Started
  BY <1>2 DEF Checking, Started, FirePointsGrow, CooldownHolds, OffMeansOff, OneCheckPerReading,
     RunsBy
<1>7. Anchored
  BY <1>2, <1>3 DEF Anchored, RunsBy, Null
<1> QED
  BY <1>4, <1>5, <1>6, <1>7 DEF TriggersIInv

LEMMA TriggersSafe == TriggersIInv => TriggersInv
<1> SUFFICES ASSUME TriggersTyped, Ticking, Anchored, Started PROVE TriggersInv
  BY DEF TriggersIInv
<1>1. WorkflowExists => /\ wf.period \in Periods
                        /\ {wf.enabled, wf.scheduled, wf.sensing, wf.owned} \subseteq BOOLEAN
  BY WorkflowIs DEF RowRecs
<1>2. WorkflowExists => /\ wf.fired \in Null..(time - 1)
                        /\ {wf.checked, wf.triggered} \subseteq Null..time
  BY DEF Anchored
<1>3. \A s \in Schedulers : tick[s].at \in {"idle", "cron", "claim", "sensor", "check"}
  BY DEF Ticking, TickIs
<1>4. /\ Len(checks) <= MaxChecks
      /\ \A c \in DOMAIN checks : checks[c].at \in {"pending", "met", "done"}
  <2>1. \A c \in DOMAIN checks : checks[c] \in CheckSet
    BY DEF TriggersTyped
  <2> QED
    BY <2>1 DEF TriggersTyped, CheckSet
<1>5. TriggersTypeOK
  BY <1>1, <1>2, <1>3, <1>4 DEF TriggersTypeOK
<1> QED
  BY <1>5 DEF TriggersInv, Started

\* What starts a workflow, for any number of schedulers, edits, checks and restarts
\* and any cron, interval and cooldown: the points a schedule fires for only grow, two
\* runs by the sensor are more than its cooldown apart, no run starts by a switch that
\* is off when it starts, and a reading of the check anchor dispatches one check
\* (WorkflowScheduler.tick, claim_trigger_and_enqueue, trigger_workflow_run).
THEOREM TriggersAreSafe == TriggersSpec => []TriggersInv
<1> QED
  BY TriggersBegin, TriggersKept, TriggersSafe, PTL DEF TriggersSpec

----------------------------------------------------------------------------
(* The stored lineage: the inductive invariant.                              *)

KeySet  == [script : Scripts, columns : SUBSET Relations]
EdgeSet == [kind : {"table", "column"}, script : Scripts,
            status : {"confirmed", "inferred", "rejected"}]
RunRecs == [exists : {TRUE}, key : KeySet, by : 0..MaxRuns, edges : SUBSET EdgeSet]

\* The rows of lineage_runs are numbered as they come.
Filed ==
    /\ runs \in [RunIds -> RunRecs \union {NoLineageRun}] /\ known \subseteq Relations
    /\ \E k \in 0..MaxRuns : Existing = 1..k

\* Every key that has a run has an active one, and no second.
ActiveOnce ==
    /\ \A r \in Existing : \E s \in Existing : runs[s].key = runs[r].key /\ runs[s].by = 0
    /\ \A r, s \in Existing :
          runs[r].key = runs[s].key /\ runs[r].by = 0 /\ runs[s].by = 0 => r = s

\* While the model is asked about a run, the run has the parser's edges only, and
\* nobody else works on it.
Analysing ==
    /\ analysis = [a \in Analyses |-> analysis[a]]
    /\ \A a \in Analyses : analysis[a].stage = "write" => analysis[a].key \in KeySet
    /\ \A a \in Analyses : analysis[a].stage = "model" =>
          /\ analysis[a].run \in Existing /\ analysis[a].key \in KeySet
          /\ \A e \in runs[analysis[a].run].edges : e.status = "confirmed"
          /\ \A b \in Analyses : b # a /\ analysis[b].stage = "model" =>
                                 analysis[b].run # analysis[a].run
          /\ \A v \in Reviewers : review[v].stage = "write" => review[v].run # analysis[a].run

\* A review that is alone with its edge finds it as it read it.
Reviewing ==
    /\ review = [v \in Reviewers |-> review[v]]
    /\ \A v \in Reviewers : review[v].stage = "write" =>
          /\ review[v].run \in Existing /\ review[v].edge \in EdgeSet
          /\ review[v].edge.status = "inferred" /\ review[v].verdict \in {"confirmed", "rejected"}
          /\ \/ <<review[v].run, review[v].edge.kind>> \in contested
             \/ /\ review[v].edge \in runs[review[v].run].edges
                /\ \A w \in Reviewers : w # v /\ review[w].stage = "write" =>
                      review[w].run # review[v].run \/ review[w].edge # review[v].edge

Jobbing ==
    /\ ljob = [j \in LineageJobs |-> ljob[j]]
    /\ \A j \in LineageJobs :
          /\ ljob[j].stage \in {"file", "insert"} => ljob[j].columns \subseteq Relations
          /\ ljob[j].stage = "insert" => ljob[j].script \in Scripts

SyncRecs == [stage : {"tables"}, scope : SUBSET Relations, left : SUBSET Relations,
             synced : Nat, failed : Nat]

\* A synchronisation without failures has cached the tables it has passed.
Syncing ==
    /\ sync.stage = "tables" =>
          /\ sync \in SyncRecs
          /\ sync.failed = 0 => sync.scope \ sync.left \subseteq known
    /\ SyncReportHonest

LineageIInv ==
    /\ Filed /\ ActiveOnce /\ HistoryIsAChain /\ NoEdgeTwice
    /\ Analysing /\ Reviewing /\ Jobbing /\ Syncing

\* What a step may not do to a reviewed edge: VerdictIsFinal.
VerdictsStand ==
    \A r \in Existing : \A e \in runs[r].edges :
       e.status # "inferred" /\ <<r, e.kind>> \notin contested => e \in runs'[r].edges

LEMMA LinedUp ==
  ASSUME Filed
  PROVE  /\ \A r \in RunIds : r \in Existing <=> runs[r] \in RunRecs
         /\ \A r \in Existing : /\ r \in RunIds /\ runs[r] \in RunRecs /\ runs[r].key \in KeySet
                                /\ runs[r].by \in 0..MaxRuns /\ runs[r].edges \subseteq EdgeSet
         /\ \A r \in RunIds : r \notin Existing => runs[r] = NoLineageRun
         /\ MaxRuns \in Nat \ {0}
<1>1. NoLineageRun.exists = FALSE
  BY DEF NoLineageRun
<1>2. \A x \in RunRecs : x.exists = TRUE
  BY DEF RunRecs
<1>3. \A r \in RunIds : runs[r] \in RunRecs \/ runs[r] = NoLineageRun
  BY DEF Filed
<1>4. \A r \in RunIds : r \in Existing <=> runs[r] \in RunRecs
  BY <1>1, <1>2, <1>3 DEF Existing
<1>5. \A x \in RunRecs : x.key \in KeySet /\ x.by \in 0..MaxRuns /\ x.edges \subseteq EdgeSet
  BY DEF RunRecs
<1>6. \A r \in Existing : r \in RunIds
  BY DEF Existing
<1> QED
  BY <1>3, <1>4, <1>5, <1>6, LineageBounds

LEMMA NextIs ==
  ASSUME Filed
  PROVE  \E k \in 0..MaxRuns : Existing = 1..k /\ NextRun = k + 1
<1>1. PICK k \in 0..MaxRuns : Existing = 1..k
  BY DEF Filed
<1>2. k \in Nat
  BY LineageBounds
<1>3. Cardinality(1..k) = k
  <2>1. Cardinality(1..k) = IF 1 > k THEN 0 ELSE k - 1 + 1
    BY <1>2, FS_Interval
  <2> QED
    BY <1>2, <2>1
<1> QED
  BY <1>1, <1>3 DEF NextRun

\* A superseded run keeps its key and its edges.
LEMMA Retired ==
  ASSUME NEW q \in RunRecs, NEW n \in 0..MaxRuns, NEW p, p = [q EXCEPT !.by = n]
  PROVE  p \in RunRecs /\ p.by = n /\ p.key = q.key /\ p.edges = q.edges
  BY DEF RunRecs

\* A run is inserted, and what was active of its key is superseded by it.
LEMMA RunInserted ==
  ASSUME Filed, ActiveOnce, HistoryIsAChain, NoEdgeTwice, NextRun \in RunIds,
         NEW key \in KeySet, NEW edges \in SUBSET EdgeSet,
         \A e, f \in edges : e.kind = f.kind /\ e.script = f.script => e = f,
         runs' = [Superseded(key, NextRun) EXCEPT ![NextRun] = Inserted(NextRun, key, edges)],
         known' = known
  PROVE  /\ Filed' /\ ActiveOnce' /\ HistoryIsAChain' /\ NoEdgeTwice'
         /\ NextRun \notin Existing /\ Existing' = Existing \union {NextRun}
         /\ runs'[NextRun].edges = edges
         /\ \A r \in Existing : runs'[r].edges = runs[r].edges
<1>1. PICK k \in 0..MaxRuns : Existing = 1..k /\ NextRun = k + 1
  BY NextIs
<1>2. PICK n \in RunIds : n = NextRun /\ n = k + 1 /\ n \notin Existing
  BY <1>1, LineageBounds
<1> DEFINE new == Inserted(n, key, edges)
<1>3. /\ new \in RunRecs /\ new.key = key /\ new.by = 0 /\ new.edges = edges
  BY LineageBounds DEF Inserted, RunRecs
<1>4. \A r \in RunIds : runs'[r] = IF r = n THEN new
                                   ELSE IF r \in ActiveRuns(key) THEN [runs[r] EXCEPT !.by = n]
                                   ELSE runs[r]
  BY <1>2 DEF Superseded
<1> HIDE DEF new
<1>5. \A r \in ActiveRuns(key) : r \in Existing /\ runs[r].key = key /\ runs[r].by = 0
  BY DEF ActiveRuns, Rows
<1>6. \A r \in Existing : /\ r \in RunIds /\ r # n /\ runs[r] \in RunRecs
                          /\ r \in ActiveRuns(key) <=> runs[r].key = key /\ runs[r].by = 0
  BY <1>2, LinedUp DEF ActiveRuns, Rows
<1>7. ASSUME NEW r \in Existing
      PROVE  /\ runs'[r] \in RunRecs
             /\ runs'[r].key = runs[r].key /\ runs'[r].edges = runs[r].edges
             /\ runs'[r].by = IF runs[r].key = key /\ runs[r].by = 0 THEN n ELSE runs[r].by
  <2>1. CASE r \in ActiveRuns(key)
    <3>1. r \in RunIds /\ r # n
      BY <1>6
    <3>2. runs'[r] = [runs[r] EXCEPT !.by = n]
      BY <1>4, <2>1, <3>1
    <3>3. n \in 0..MaxRuns
      BY <1>2, LineageBounds DEF RunIds
    <3>4. PICK q \in RunRecs : q = runs[r]
      BY <1>6
    <3>5. PICK p : p = runs'[r] /\ p = [q EXCEPT !.by = n]
      BY <3>2, <3>4
    <3>6. p \in RunRecs /\ p.by = n /\ p.key = q.key /\ p.edges = q.edges
      BY <3>3, <3>5, Retired
    <3> QED
      BY <1>5, <2>1, <3>4, <3>5, <3>6
  <2>2. CASE r \notin ActiveRuns(key)
    <3>1. runs'[r] = runs[r] /\ ~(runs[r].key = key /\ runs[r].by = 0)
      BY <1>4, <1>6, <2>2
    <3> QED
      BY <1>6, <3>1
  <2> QED
    BY <2>1, <2>2
<1>8. runs'[n] = new
  BY <1>2, <1>4
<1>9. ASSUME NEW r \in RunIds, r # n, r \notin Existing PROVE runs'[r] = NoLineageRun
  BY <1>4, <1>5, <1>9, LinedUp
<1>10. runs' \in [RunIds -> RunRecs \union {NoLineageRun}]
  <2>1. \A r \in RunIds : runs'[r] \in RunRecs \union {NoLineageRun}
    BY <1>3, <1>7, <1>8, <1>9
  <2>2. runs' = [r \in RunIds |-> runs'[r]]
    BY <1>2 DEF Superseded
  <2> QED
    BY <2>1, <2>2
<1>11. Existing' = Existing \union {n}
  <2>1. \A x \in RunRecs : x.exists = TRUE
    BY DEF RunRecs
  <2>2. NoLineageRun.exists = FALSE
    BY DEF NoLineageRun
  <2>3. \A r \in RunIds : runs'[r].exists <=> r \in Existing \/ r = n
    BY <1>3, <1>7, <1>8, <1>9, <2>1, <2>2
  <2>4. Existing' = {r \in RunIds : runs'[r].exists}
    BY DEF Existing, RunIds
  <2> QED
    BY <1>2, <1>6, <2>3, <2>4
<1>12. Filed'
  <2>1. Existing' = 1..(k + 1) /\ k + 1 \in 0..MaxRuns
    BY <1>1, <1>2, <1>11, LineageBounds DEF RunIds
  <2> QED
    BY <1>10, <2>1 DEF Filed, RunIds
<1>13. ActiveOnce'
  <2>1. ASSUME NEW r \in Existing'
        PROVE  \E s \in Existing' : runs'[s].key = runs'[r].key /\ runs'[s].by = 0
    <3>1. CASE runs'[r].key = key
      BY <1>3, <1>8, <1>11, <3>1
    <3>2. CASE runs'[r].key # key
      <4>1. r \in Existing /\ runs[r].key # key
        BY <1>3, <1>7, <1>8, <1>11, <3>2
      <4>2. PICK s \in Existing : runs[s].key = runs[r].key /\ runs[s].by = 0
        BY <4>1 DEF ActiveOnce
      <4> QED
        BY <1>7, <1>11, <4>1, <4>2
    <3> QED
      BY <3>1, <3>2
  <2>2. ASSUME NEW r \in Existing', NEW s \in Existing', runs'[r].key = runs'[s].key,
               runs'[r].by = 0, runs'[s].by = 0
        PROVE  r = s
    <3>1. n # 0
      BY <1>2 DEF RunIds
    <3>2. \A x \in Existing : runs'[x].by = 0 =>
            runs[x].key # key /\ runs[x].by = 0 /\ runs'[x].key = runs[x].key
      BY <1>7, <3>1
    <3>3. r \in Existing <=> s \in Existing
      BY <1>3, <1>8, <1>11, <2>2, <3>2
    <3>4. CASE r \in Existing
      BY <2>2, <3>2, <3>3, <3>4 DEF ActiveOnce
    <3> QED
      BY <1>11, <3>3, <3>4
  <2> QED
    BY <2>1, <2>2 DEF ActiveOnce
<1>14. HistoryIsAChain'
  <2> SUFFICES ASSUME NEW r \in Existing', runs'[r].by # 0
               PROVE  /\ runs'[r].by > r /\ runs'[r].by \in Existing'
                      /\ runs'[runs'[r].by].key = runs'[r].key
    BY DEF HistoryIsAChain, Rows
  <2>1. r \in Existing
    BY <1>3, <1>8, <1>11
  <2>2. CASE runs[r].key = key /\ runs[r].by = 0
    <3>1. runs'[r].by = n /\ runs'[r].key = key
      BY <1>7, <2>1, <2>2
    <3>2. n > r
      BY <1>1, <1>2, <2>1
    <3> QED
      BY <1>3, <1>8, <1>11, <3>1, <3>2
  <2>3. CASE ~(runs[r].key = key /\ runs[r].by = 0)
    <3>1. runs'[r].by = runs[r].by /\ runs'[r].key = runs[r].key
      BY <1>7, <2>1, <2>3
    <3>2. runs[r].by > r /\ runs[r].by \in Existing /\ runs[runs[r].by].key = runs[r].key
      BY <2>1, <3>1 DEF HistoryIsAChain, Rows
    <3> QED
      BY <1>7, <1>11, <3>1, <3>2
  <2> QED
    BY <2>2, <2>3
<1>15. NoEdgeTwice'
  BY <1>3, <1>7, <1>8, <1>11 DEF NoEdgeTwice
<1> QED
  BY <1>2, <1>3, <1>7, <1>8, <1>11, <1>12, <1>13, <1>14, <1>15

\* The edges of a run change.
LEMMA EdgesChange ==
  ASSUME Filed, ActiveOnce, HistoryIsAChain, NoEdgeTwice, NEW r \in Existing,
         NEW edges \in SUBSET EdgeSet,
         \A e, f \in edges : e.kind = f.kind /\ e.script = f.script => e = f,
         runs' = [runs EXCEPT ![r].edges = edges], known' = known
  PROVE  /\ Filed' /\ ActiveOnce' /\ HistoryIsAChain' /\ NoEdgeTwice' /\ Existing' = Existing
         /\ runs'[r].edges = edges /\ \A s \in RunIds : s # r => runs'[s] = runs[s]
<1> DEFINE new == [runs[r] EXCEPT !.edges = edges]
<1>1. r \in RunIds /\ runs[r] \in RunRecs
  BY LinedUp
<1>2. /\ new \in RunRecs /\ new.key = runs[r].key /\ new.by = runs[r].by /\ new.edges = edges
  BY <1>1 DEF RunRecs
<1>3. runs' = [runs EXCEPT ![r] = new]
  BY DEF Filed
<1> HIDE DEF new
<1>4. /\ runs' \in [RunIds -> RunRecs \union {NoLineageRun}]
      /\ runs'[r] = new /\ \A s \in RunIds : s # r => runs'[s] = runs[s]
  BY <1>1, <1>2, <1>3 DEF Filed
<1>5. \A s \in RunIds : (runs'[s].exists <=> runs[s].exists)
  <2>1. \A x \in RunRecs : x.exists = TRUE
    BY DEF RunRecs
  <2> QED
    BY <1>1, <1>2, <1>4, <2>1
<1>6. Existing' = Existing
  <2>1. Existing' = {s \in RunIds : runs'[s].exists}
    BY DEF Existing, RunIds
  <2> QED
    BY <1>5, <2>1 DEF Existing
<1>7. \A s \in Existing : runs'[s].key = runs[s].key /\ runs'[s].by = runs[s].by
  BY <1>2, <1>4 DEF Existing
<1>8. Filed'
  BY <1>4, <1>6 DEF Filed, RunIds
<1>9. ActiveOnce'
  BY <1>6, <1>7 DEF ActiveOnce
<1>10. HistoryIsAChain'
  <2> SUFFICES ASSUME NEW s \in Existing, runs'[s].by # 0
               PROVE  /\ runs'[s].by > s /\ runs'[s].by \in Existing
                      /\ runs'[runs'[s].by].key = runs'[s].key
    BY <1>6 DEF HistoryIsAChain, Rows
  <2>1. runs[s].by > s /\ runs[s].by \in Existing /\ runs[runs[s].by].key = runs[s].key
    BY <1>7 DEF HistoryIsAChain, Rows
  <2> QED
    BY <1>7, <2>1
<1>11. NoEdgeTwice'
  <2> SUFFICES ASSUME NEW s \in Existing, NEW e \in runs'[s].edges, NEW f \in runs'[s].edges,
                      e.kind = f.kind, e.script = f.script
               PROVE  e = f
    BY <1>6 DEF NoEdgeTwice
  <2>1. CASE s = r
    BY <1>2, <1>4, <2>1
  <2>2. CASE s # r
    BY <1>4, <2>2 DEF NoEdgeTwice, Existing
  <2> QED
    BY <2>1, <2>2
<1> QED
  BY <1>2, <1>4, <1>6, <1>8, <1>9, <1>10, <1>11

\* Nothing is written to the runs.
LEMMA RunsKept ==
  ASSUME Filed, ActiveOnce, HistoryIsAChain, NoEdgeTwice, runs' = runs, known' \subseteq Relations
  PROVE  /\ Filed' /\ ActiveOnce' /\ HistoryIsAChain' /\ NoEdgeTwice' /\ Existing' = Existing
<1>1. Existing' = Existing
  BY DEF Existing, RunIds
<1>2. Filed'
  BY <1>1 DEF Filed, RunIds
<1>3. ActiveOnce' /\ NoEdgeTwice'
  BY <1>1 DEF ActiveOnce, NoEdgeTwice
<1>4. HistoryIsAChain'
  BY <1>1 DEF HistoryIsAChain, Rows
<1> QED
  BY <1>1, <1>2, <1>3, <1>4

\* What the parser finds.
LEMMA ParsedIs ==
  ASSUME NEW s \in Scripts, NEW columns, NEW lenient
  PROVE  /\ Parsed(s, columns, lenient) \in SUBSET EdgeSet
         /\ \A e \in Parsed(s, columns, lenient) : e.status = "confirmed"
         /\ \A e, f \in Parsed(s, columns, lenient) :
               e.kind = f.kind /\ e.script = f.script => e = f
<1> DEFINE t == Edge("table", s, "confirmed")
           c == Edge("column", s, "confirmed")
<1>1. /\ t \in EdgeSet /\ t.status = "confirmed" /\ t.kind = "table"
      /\ c \in EdgeSet /\ c.status = "confirmed" /\ c.kind = "column"
  BY DEF Edge, EdgeSet
<1>2. Parsed(s, columns, lenient) \subseteq {t, c}
  BY DEF Parsed
<1> HIDE DEF t, c
<1> QED
  BY <1>1, <1>2

\* An analysis moves on; a run is only asked about once it is there.
LEMMA AnalysisMoves ==
  ASSUME Analysing, NEW a \in Analyses, NEW q, analysis' = [analysis EXCEPT ![a] = q]
  PROVE  /\ analysis' = [b \in Analyses |-> analysis'[b]]
         /\ \A b \in Analyses : analysis'[b] = IF b = a THEN q ELSE analysis[b]
<1>1. analysis' = [b \in Analyses |-> IF b = a THEN q ELSE analysis[b]]
  BY DEF Analysing
<1>2. \A b \in Analyses : analysis'[b] = IF b = a THEN q ELSE analysis[b]
  BY <1>1
<1> QED
  BY <1>1, <1>2

LEMMA AnalyzeReads ==
  ASSUME LineageIInv, NEW a \in Analyses, NEW q, analysis' = [analysis EXCEPT ![a] = q],
         q.stage = "write" => q.key \in KeySet, q.stage # "model",
         UNCHANGED <<runs, known, ljob, sync, review, contested>>
  PROVE  LineageIInv'
<1>1. /\ Filed' /\ ActiveOnce' /\ HistoryIsAChain' /\ NoEdgeTwice' /\ Existing' = Existing
  BY RunsKept DEF LineageIInv, Filed
<1>2. /\ analysis' = [b \in Analyses |-> analysis'[b]]
      /\ \A b \in Analyses : analysis'[b] = IF b = a THEN q ELSE analysis[b]
  BY AnalysisMoves DEF LineageIInv
<1>3. Analysing'
  BY <1>1, <1>2 DEF LineageIInv, Analysing
<1>4. Reviewing' /\ Jobbing'
  BY <1>1 DEF LineageIInv, Reviewing, Jobbing
<1>5. Syncing'
  BY DEF LineageIInv, Syncing, SyncReportHonest
<1> QED
  BY <1>1, <1>3, <1>4, <1>5 DEF LineageIInv

LEMMA AnalyzeBeginsKeeps ==
  ASSUME LineageIInv, NEW a \in Analyses, NEW s \in Scripts, NEW refresh \in BOOLEAN,
         NEW fallback \in BOOLEAN, AnalyzeBegins(a, s, refresh, fallback)
  PROVE  LineageIInv'
<1> DEFINE w == [stage |-> "write", key |-> Key(s, known), refresh |-> refresh,
                 fallback |-> fallback]
<1>1. Key(s, known) \in KeySet
  BY DEF LineageIInv, Filed, Key, KeySet
<1>2. w.stage = "write" /\ w.key \in KeySet /\ AnswerSent.stage = "done"
  BY <1>1 DEF AnswerSent
<1>3. /\ \E q \in {w, AnswerSent} : analysis' = [analysis EXCEPT ![a] = q]
      /\ UNCHANGED <<runs, known, ljob, sync, review, contested>>
  BY DEF AnalyzeBegins
<1> HIDE DEF w
<1> QED
  BY <1>2, <1>3, AnalyzeReads

LEMMA AnalyzeFailsKeeps ==
  ASSUME LineageIInv, NEW a \in Analyses, AnalyzeFails(a)
  PROVE  LineageIInv'
<1>1. AnswerSent.stage = "done"
  BY DEF AnswerSent
<1> QED
  BY <1>1, AnalyzeReads DEF AnalyzeFails

\* After an insertion the requests in flight find what they know of the older runs.
LEMMA InsertKeeps ==
  ASSUME LineageIInv, NextRun \notin Existing, Existing' = Existing \union {NextRun},
         \A r \in Existing : runs'[r].edges = runs[r].edges,
         UNCHANGED <<known, sync, review, contested>>
  PROVE  /\ Reviewing' /\ Syncing'
         /\ \A a \in Analyses : analysis'[a] = analysis[a] /\ analysis[a].stage = "model" =>
               /\ analysis'[a].run \in Existing' /\ analysis'[a].key \in KeySet
               /\ analysis'[a].run # NextRun
               /\ \A e \in runs'[analysis'[a].run].edges : e.status = "confirmed"
               /\ \A v \in Reviewers : review'[v].stage = "write" =>
                                       review'[v].run # analysis'[a].run
<1>1. Reviewing'
  BY DEF LineageIInv, Reviewing
<1>2. Syncing'
  BY DEF LineageIInv, Syncing, SyncReportHonest
<1>3. \A a \in Analyses : analysis'[a] = analysis[a] /\ analysis[a].stage = "model" =>
               /\ analysis'[a].run \in Existing' /\ analysis'[a].key \in KeySet
               /\ analysis'[a].run # NextRun
               /\ \A e \in runs'[analysis'[a].run].edges : e.status = "confirmed"
               /\ \A v \in Reviewers : review'[v].stage = "write" =>
                                       review'[v].run # analysis'[a].run
  BY DEF LineageIInv, Analysing
<1> QED
  BY <1>1, <1>2, <1>3

LEMMA AnalyzeWritesKeeps ==
  ASSUME LineageIInv, NEW a \in Analyses, AnalyzeWrites(a)
  PROVE  LineageIInv' /\ VerdictsStand
<1>1. /\ Filed /\ ActiveOnce /\ HistoryIsAChain /\ NoEdgeTwice /\ Analysing /\ Reviewing
      /\ Jobbing
  BY DEF LineageIInv
<1>2. /\ analysis[a].stage = "write" /\ NextRun \in RunIds
      /\ IndexAllows(analysis[a].key, analysis[a].refresh)
      /\ UNCHANGED <<known, ljob, sync, review, contested>>
  BY DEF AnalyzeWrites
<1>3. PICK key \in KeySet : key = analysis[a].key
  BY <1>1, <1>2 DEF Analysing
<1>4. PICK edges \in SUBSET EdgeSet :
        /\ edges = Parsed(key.script, key.columns, FALSE)
        /\ \A e \in edges : e.status = "confirmed"
        /\ \A e, f \in edges : e.kind = f.kind /\ e.script = f.script => e = f
  <2>1. key.script \in Scripts
    BY DEF KeySet
  <2> DEFINE p == Parsed(key.script, key.columns, FALSE)
  <2>2. /\ p \in SUBSET EdgeSet /\ \A e \in p : e.status = "confirmed"
        /\ \A e, f \in p : e.kind = f.kind /\ e.script = f.script => e = f
    BY <2>1, ParsedIs
  <2> QED
    BY <2>2, Zenon
<1>5. runs' = [Superseded(key, NextRun) EXCEPT ![NextRun] = Inserted(NextRun, key, edges)]
  <2>1. CASE analysis[a].refresh
    BY <1>3, <1>4, <2>1 DEF AnalyzeWrites
  <2>2. CASE ~analysis[a].refresh
    <3>1. ActiveRuns(key) = {}
      BY <1>2, <1>3, <2>2 DEF IndexAllows
    <3>2. Superseded(key, NextRun) = runs
      BY <1>1, <3>1 DEF Superseded, Filed
    <3>3. runs' = [runs EXCEPT ![NextRun] = Inserted(NextRun, key, edges)]
      BY <1>3, <1>4, <2>2 DEF AnalyzeWrites
    <3> QED
      BY <3>2, <3>3
  <2> QED
    BY <2>1, <2>2
<1>6. /\ Filed' /\ ActiveOnce' /\ HistoryIsAChain' /\ NoEdgeTwice'
      /\ NextRun \notin Existing /\ Existing' = Existing \union {NextRun}
      /\ runs'[NextRun].edges = edges
      /\ \A r \in Existing : runs'[r].edges = runs[r].edges
  BY <1>1, <1>2, <1>4, <1>5, RunInserted
<1> DEFINE m == [stage |-> "model", run |-> NextRun, key |-> analysis[a].key]
<1>7. PICK q \in {m, AnswerSent} : analysis' = [analysis EXCEPT ![a] = q]
  BY DEF AnalyzeWrites
<1>8. /\ m.stage = "model" /\ m.run = NextRun /\ m.key \in KeySet /\ AnswerSent.stage = "done"
  BY <1>3 DEF AnswerSent
<1> HIDE DEF m
<1>9. /\ analysis' = [b \in Analyses |-> analysis'[b]]
      /\ \A b \in Analyses : analysis'[b] = IF b = a THEN q ELSE analysis[b]
  BY <1>1, <1>7, AnalysisMoves
<1>10. Reviewing' /\ Syncing' /\ Jobbing'
  BY <1>1, <1>2, <1>6, InsertKeeps DEF Jobbing
<1>11. Analysing'
  <2>1. \A b \in Analyses : analysis'[b].stage = "write" => analysis'[b].key \in KeySet
    BY <1>1, <1>7, <1>8, <1>9 DEF Analysing
  <2>2. \A v \in Reviewers : review'[v].stage = "write" => review'[v].run # NextRun
    BY <1>1, <1>2, <1>6 DEF Reviewing
  <2>3. ASSUME NEW b \in Analyses, analysis'[b].stage = "model", b # a
        PROVE  /\ analysis'[b].run \in Existing' /\ analysis'[b].key \in KeySet
               /\ analysis'[b].run # NextRun /\ analysis'[b] = analysis[b]
               /\ \A e \in runs'[analysis'[b].run].edges : e.status = "confirmed"
               /\ \A v \in Reviewers : review'[v].stage = "write" =>
                                       review'[v].run # analysis'[b].run
    BY <1>2, <1>6, <1>9, <2>3, InsertKeeps
  <2>4. CASE q = m
    <3>1. /\ analysis'[a].run = NextRun /\ analysis'[a].key \in KeySet /\ NextRun \in Existing'
          /\ \A e \in runs'[NextRun].edges : e.status = "confirmed"
      BY <1>4, <1>6, <1>8, <1>9, <2>4
    <3>2. \A b, c \in Analyses : b # c /\ analysis'[b].stage = "model"
                                 /\ analysis'[c].stage = "model" =>
                                    analysis'[c].run # analysis'[b].run
      BY <1>1, <2>3, <3>1 DEF Analysing
    <3> QED
      BY <1>9, <2>1, <2>2, <2>3, <3>1, <3>2 DEF Analysing
  <2>5. CASE q = AnswerSent
    <3>1. analysis'[a].stage # "model"
      BY <1>8, <1>9, <2>5
    <3>2. \A b, c \in Analyses : b # c /\ analysis'[b].stage = "model"
                                 /\ analysis'[c].stage = "model" =>
                                    analysis'[c].run # analysis'[b].run
      BY <1>1, <2>3, <3>1 DEF Analysing
    <3> QED
      BY <1>9, <2>1, <2>3, <3>1, <3>2 DEF Analysing
  <2> QED
    BY <1>7, <2>4, <2>5
<1>12. VerdictsStand
  BY <1>6 DEF VerdictsStand
<1> QED
  BY <1>6, <1>10, <1>11, <1>12 DEF LineageIInv

LEMMA ModelAnswersKeeps ==
  ASSUME LineageIInv, NEW a \in Analyses, NEW kinds \in SUBSET {"table", "column"},
         ModelAnswers(a, kinds)
  PROVE  LineageIInv' /\ VerdictsStand
<1>1. /\ Filed /\ ActiveOnce /\ HistoryIsAChain /\ NoEdgeTwice /\ Analysing /\ Reviewing
      /\ Jobbing /\ Syncing
  BY DEF LineageIInv
<1>2. analysis[a].stage = "model" /\ UNCHANGED <<known, ljob, sync, review, contested>>
  BY DEF ModelAnswers
<1>3. PICK r \in Existing, key \in KeySet :
        /\ r = analysis[a].run /\ key = analysis[a].key
        /\ \A e \in runs[r].edges : e.status = "confirmed"
  BY <1>1, <1>2 DEF Analysing
<1> DEFINE proposed == {Edge(k, key.script, "inferred") : k \in kinds}
           added == Inferred(r, proposed)
           edges == runs[r].edges \union added
<1>4. ASSUME NEW e \in proposed
      PROVE  e \in EdgeSet /\ e.status = "inferred" /\ e.script = key.script
  BY DEF Edge, EdgeSet, KeySet
<1>5. /\ runs' = [runs EXCEPT ![r].edges = edges]
      /\ analysis' = [analysis EXCEPT ![a] = AnswerSent]
  BY <1>3 DEF ModelAnswers
<1> HIDE DEF proposed
<1>6. \A e \in added : /\ e \in EdgeSet /\ e.status = "inferred"
                       /\ Edge(e.kind, e.script, "confirmed") \notin runs[r].edges
  BY <1>4 DEF Inferred
<1> HIDE DEF added
<1>7. runs[r].edges \subseteq EdgeSet
  BY <1>1, LinedUp
<1>8. edges \in SUBSET EdgeSet
  BY <1>6, <1>7
<1>9. \A e, f \in EdgeSet : e.kind = f.kind /\ e.script = f.script /\ e.status = f.status => e = f
  BY DEF EdgeSet
<1>10. \A e \in EdgeSet : e.status = "confirmed" => Edge(e.kind, e.script, "confirmed") = e
  BY DEF EdgeSet, Edge
<1>11. ASSUME NEW e \in edges, NEW f \in edges, e.kind = f.kind, e.script = f.script
       PROVE  e = f
  <2>1. CASE e \in added /\ f \in added
    BY <1>6, <1>9, <1>11, <2>1
  <2>2. CASE e \in runs[r].edges /\ f \in runs[r].edges
    BY <1>3, <1>7, <1>9, <1>11, <2>2
  <2>3. CASE e \in added /\ f \in runs[r].edges
    BY <1>3, <1>6, <1>7, <1>10, <1>11, <2>3
  <2>4. CASE e \in runs[r].edges /\ f \in added
    BY <1>3, <1>6, <1>7, <1>10, <1>11, <2>4
  <2> QED
    BY <1>11, <2>1, <2>2, <2>3, <2>4
<1>12. /\ Filed' /\ ActiveOnce' /\ HistoryIsAChain' /\ NoEdgeTwice' /\ Existing' = Existing
       /\ runs'[r].edges = edges /\ \A s \in RunIds : s # r => runs'[s] = runs[s]
  <2>1. /\ runs' = [runs EXCEPT ![r].edges = edges] /\ known' = known
        /\ \A e, f \in edges : e.kind = f.kind /\ e.script = f.script => e = f
    BY <1>2, <1>5, <1>11
  <2> HIDE DEF edges
  <2> QED
    BY <1>1, <1>8, <2>1, EdgesChange, ZenonT(60)
<1>13. /\ analysis' = [b \in Analyses |-> analysis'[b]]
       /\ \A b \in Analyses : analysis'[b] = IF b = a THEN AnswerSent ELSE analysis[b]
  BY <1>1, <1>5, AnalysisMoves
<1>14. AnswerSent.stage = "done" /\ \A s \in Existing : s \in RunIds
  BY DEF AnswerSent, Existing
<1>15. Analysing'
  <2>1. ASSUME NEW b \in Analyses, analysis'[b].stage = "model"
        PROVE  /\ b # a /\ analysis'[b] = analysis[b] /\ analysis[b].run # r
               /\ analysis[b].run \in Existing /\ runs'[analysis[b].run] = runs[analysis[b].run]
    BY <1>1, <1>2, <1>3, <1>12, <1>13, <1>14, <2>1 DEF Analysing
  <2>2. \A b \in Analyses : analysis'[b].stage = "write" => analysis'[b].key \in KeySet
    BY <1>1, <1>13, <1>14 DEF Analysing
  <2> QED
    BY <1>1, <1>2, <1>12, <1>13, <2>1, <2>2 DEF Analysing
<1>16. Reviewing'
  <2>1. \A v \in Reviewers : review[v].stage = "write" =>
           /\ review[v].run \in Existing /\ review[v].run # r
           /\ runs'[review[v].run] = runs[review[v].run]
    <3>1. \A v \in Reviewers : review[v].stage = "write" =>
             review[v].run \in Existing /\ review[v].run # r
      BY <1>1, <1>2, <1>3 DEF Analysing, Reviewing
    <3> QED
      BY <1>12, <1>14, <3>1
  <2> QED
    BY <1>1, <1>2, <1>12, <2>1 DEF Reviewing
<1>17. Jobbing' /\ Syncing'
  BY <1>1, <1>2 DEF Jobbing, Syncing, SyncReportHonest
<1>18. VerdictsStand
  BY <1>12, <1>14 DEF VerdictsStand
<1> QED
  BY <1>12, <1>15, <1>16, <1>17, <1>18 DEF LineageIInv

\* A review moves on.
LEMMA ReviewMoves ==
  ASSUME Reviewing, NEW v \in Reviewers, NEW q, review' = [review EXCEPT ![v] = q]
  PROVE  /\ review' = [w \in Reviewers |-> review'[w]]
         /\ \A w \in Reviewers : review'[w] = IF w = v THEN q ELSE review[w]
<1>1. review' = [w \in Reviewers |-> IF w = v THEN q ELSE review[w]]
  BY DEF Reviewing
<1>2. \A w \in Reviewers : review'[w] = IF w = v THEN q ELSE review[w]
  BY <1>1
<1> QED
  BY <1>1, <1>2

LEMMA ReviewBeginsKeeps ==
  ASSUME LineageIInv, NEW v \in Reviewers, NEW r \in Existing, NEW e \in runs[r].edges,
         NEW verdict \in {"confirmed", "rejected"}, ReviewBegins(v, r, e, verdict)
  PROVE  LineageIInv'
<1>1. /\ Filed /\ ActiveOnce /\ HistoryIsAChain /\ NoEdgeTwice /\ Analysing /\ Reviewing
      /\ Jobbing /\ Syncing
  BY DEF LineageIInv
<1> DEFINE q == [stage |-> "write", run |-> r, edge |-> e, verdict |-> verdict]
           taken == \E o \in Reviewers : review[o].stage = "write"
                                         /\ review[o].run = r /\ review[o].edge = e
<1>2. /\ review[v].stage = "idle" /\ e.status = "inferred"
      /\ UNCHANGED <<runs, known, analysis, ljob, sync>>
      /\ review' = [review EXCEPT ![v] = q]
      /\ contested' = IF taken THEN contested \union {<<r, e.kind>>} ELSE contested
  BY DEF ReviewBegins
<1>3. e \in EdgeSet
  BY <1>1, LinedUp
<1>4. /\ q.stage = "write" /\ q.run = r /\ q.edge = e /\ q.verdict = verdict
  OBVIOUS
<1> HIDE DEF q, taken
<1>5. /\ Filed' /\ ActiveOnce' /\ HistoryIsAChain' /\ NoEdgeTwice' /\ Existing' = Existing
  BY <1>1, <1>2, RunsKept DEF Filed
<1>6. /\ review' = [w \in Reviewers |-> review'[w]]
      /\ \A w \in Reviewers : review'[w] = IF w = v THEN q ELSE review[w]
  BY <1>1, <1>2, ReviewMoves
<1>7. contested \subseteq contested' /\ (taken => <<r, e.kind>> \in contested')
  BY <1>2
<1>8. Analysing'
  <2>1. \A a \in Analyses : analysis[a].stage = "model" => analysis[a].run # r
    BY <1>1, <1>2 DEF Analysing
  <2> QED
    BY <1>1, <1>2, <1>4, <1>5, <1>6, <2>1 DEF Analysing
<1>9. Reviewing'
  <2> SUFFICES ASSUME NEW u \in Reviewers, review'[u].stage = "write"
               PROVE  /\ review'[u].run \in Existing /\ review'[u].edge \in EdgeSet
                      /\ review'[u].edge.status = "inferred"
                      /\ review'[u].verdict \in {"confirmed", "rejected"}
                      /\ \/ <<review'[u].run, review'[u].edge.kind>> \in contested'
                         \/ /\ review'[u].edge \in runs[review'[u].run].edges
                            /\ \A w \in Reviewers : w # u /\ review'[w].stage = "write" =>
                                  \/ review'[w].run # review'[u].run
                                  \/ review'[w].edge # review'[u].edge
    BY <1>2, <1>5, <1>6 DEF Reviewing
  <2>1. CASE u = v
    <3>1. review'[u] = q
      BY <1>6, <2>1
    <3>2. CASE taken
      BY <1>2, <1>3, <1>4, <1>7, <3>1, <3>2
    <3>3. CASE ~taken
      <4>1. \A w \in Reviewers : w # v /\ review'[w].stage = "write" =>
               review'[w].run # r \/ review'[w].edge # e
        BY <1>6, <3>3 DEF taken
      <4> QED
        BY <1>2, <1>3, <1>4, <2>1, <3>1, <4>1
    <3> QED
      BY <3>2, <3>3
  <2>2. CASE u # v
    <3>1. review'[u] = review[u] /\ review[u].stage = "write"
      BY <1>6, <2>2
    <3>2. /\ review[u].run \in Existing /\ review[u].edge \in EdgeSet
          /\ review[u].edge.status = "inferred" /\ review[u].verdict \in {"confirmed", "rejected"}
          /\ \/ <<review[u].run, review[u].edge.kind>> \in contested
             \/ /\ review[u].edge \in runs[review[u].run].edges
                /\ \A w \in Reviewers : w # u /\ review[w].stage = "write" =>
                      review[w].run # review[u].run \/ review[w].edge # review[u].edge
      BY <1>1, <3>1 DEF Reviewing
    <3>3. CASE review[u].run = r /\ review[u].edge = e
      <4>1. taken
        BY <3>1, <3>3 DEF taken
      <4> QED
        BY <1>7, <3>1, <3>2, <3>3, <4>1
    <3>4. CASE ~(review[u].run = r /\ review[u].edge = e)
      <4>1. \A w \in Reviewers : w = v \/ review'[w] = review[w]
        BY <1>6
      <4>2. review'[v].run = r /\ review'[v].edge = e
        BY <1>4, <1>6
      <4> QED
        BY <1>7, <3>1, <3>2, <3>4, <4>1, <4>2
    <3> QED
      BY <3>3, <3>4
  <2> QED
    BY <2>1, <2>2
<1>10. Jobbing' /\ Syncing'
  BY <1>1, <1>2 DEF Jobbing, Syncing, SyncReportHonest
<1> QED
  BY <1>5, <1>8, <1>9, <1>10 DEF LineageIInv

LEMMA ReviewWritesKeeps ==
  ASSUME LineageIInv, NEW v \in Reviewers, ReviewWrites(v)
  PROVE  LineageIInv' /\ VerdictsStand
<1>1. /\ Filed /\ ActiveOnce /\ HistoryIsAChain /\ NoEdgeTwice /\ Analysing /\ Reviewing
      /\ Jobbing /\ Syncing
  BY DEF LineageIInv
<1>2. review[v].stage = "write" /\ UNCHANGED <<known, analysis, ljob, sync, contested>>
  BY DEF ReviewWrites
<1>3. PICK r \in Existing, g \in EdgeSet, verdict \in {"confirmed", "rejected"} :
        /\ r = review[v].run /\ g = review[v].edge /\ verdict = review[v].verdict
        /\ g.status = "inferred"
        /\ \/ <<r, g.kind>> \in contested
           \/ /\ g \in runs[r].edges
              /\ \A w \in Reviewers : w # v /\ review[w].stage = "write" =>
                    review[w].run # r \/ review[w].edge # g
  <2>1. /\ review[v].run \in Existing /\ review[v].edge \in EdgeSet
        /\ review[v].edge.status = "inferred" /\ review[v].verdict \in {"confirmed", "rejected"}
        /\ \/ <<review[v].run, review[v].edge.kind>> \in contested
           \/ /\ review[v].edge \in runs[review[v].run].edges
              /\ \A w \in Reviewers : w # v /\ review[w].stage = "write" =>
                    review[w].run # review[v].run \/ review[w].edge # review[v].edge
    BY <1>1, <1>2 DEF Reviewing
  <2> QED
    BY <2>1, Zenon
<1> DEFINE Judged(e) == IF SameEdge(e, g) THEN [e EXCEPT !.status = verdict] ELSE e
           edges == {Judged(e) : e \in runs[r].edges}
<1>4. /\ runs' = [runs EXCEPT ![r].edges = edges]
      /\ review' = [review EXCEPT ![v] = AnswerSent]
  BY <1>3 DEF ReviewWrites
<1>5. runs[r].edges \subseteq EdgeSet
  BY <1>1, LinedUp
<1>6. ASSUME NEW e \in EdgeSet
      PROVE  Judged(e) \in EdgeSet /\ Judged(e).kind = e.kind /\ Judged(e).script = e.script
  <2>1. CASE SameEdge(e, g)
    <3>1. Judged(e) = [e EXCEPT !.status = verdict]
      BY <2>1
    <3> QED
      BY <3>1 DEF EdgeSet
  <2>2. CASE ~SameEdge(e, g)
    BY <2>2
  <2> QED
    BY <2>1, <2>2
<1>7. \A e \in EdgeSet : ~SameEdge(e, g) => Judged(e) = e
  OBVIOUS
<1> HIDE DEF Judged
<1>8. edges \in SUBSET EdgeSet
  BY <1>5, <1>6
<1>9. \A e, f \in edges : e.kind = f.kind /\ e.script = f.script => e = f
  BY <1>1, <1>5, <1>6 DEF NoEdgeTwice
<1>10. \A e \in runs[r].edges : ~SameEdge(e, g) => e \in edges
  BY <1>5, <1>7
<1> HIDE DEF edges
<1>11. /\ Filed' /\ ActiveOnce' /\ HistoryIsAChain' /\ NoEdgeTwice' /\ Existing' = Existing
       /\ runs'[r].edges = edges /\ \A s \in RunIds : s # r => runs'[s] = runs[s]
  <2>1. runs' = [runs EXCEPT ![r].edges = edges] /\ known' = known
    BY <1>2, <1>4
  <2> QED
    BY <1>1, <1>8, <1>9, <2>1, EdgesChange
<1>12. /\ review' = [w \in Reviewers |-> review'[w]]
       /\ \A w \in Reviewers : review'[w] = IF w = v THEN AnswerSent ELSE review[w]
  BY <1>1, <1>4, ReviewMoves
<1>13. AnswerSent.stage = "done" /\ \A s \in Existing : s \in RunIds
  BY DEF AnswerSent, Existing
<1>14. Analysing'
  <2>1. \A a \in Analyses : analysis[a].stage = "model" =>
           /\ analysis[a].run # r /\ analysis[a].run \in Existing
           /\ runs'[analysis[a].run] = runs[analysis[a].run]
    BY <1>1, <1>2, <1>3, <1>11, <1>13 DEF Analysing
  <2>2. \A w \in Reviewers : review'[w].stage = "write" =>
           review'[w] = review[w] /\ review[w].stage = "write"
    BY <1>12, <1>13
  <2> QED
    BY <1>1, <1>2, <1>11, <2>1, <2>2 DEF Analysing
<1>15. \A e, f \in EdgeSet : SameEdge(e, f) /\ e.status = f.status => e = f
  BY DEF SameEdge, EdgeSet
<1>16. Reviewing'
  <2> SUFFICES ASSUME NEW u \in Reviewers, review'[u].stage = "write"
               PROVE  /\ review'[u].run \in Existing /\ review'[u].edge \in EdgeSet
                      /\ review'[u].edge.status = "inferred"
                      /\ review'[u].verdict \in {"confirmed", "rejected"}
                      /\ \/ <<review'[u].run, review'[u].edge.kind>> \in contested
                         \/ /\ review'[u].edge \in runs'[review'[u].run].edges
                            /\ \A w \in Reviewers : w # u /\ review'[w].stage = "write" =>
                                  \/ review'[w].run # review'[u].run
                                  \/ review'[w].edge # review'[u].edge
    BY <1>2, <1>11, <1>12 DEF Reviewing
  <2>1. u # v /\ review'[u] = review[u] /\ review[u].stage = "write"
    BY <1>12, <1>13
  <2>2. \A w \in Reviewers : review'[w].stage = "write" =>
           review'[w] = review[w] /\ review[w].stage = "write"
    BY <1>12, <1>13
  <2>3. /\ review[u].run \in Existing /\ review[u].edge \in EdgeSet
        /\ review[u].edge.status = "inferred" /\ review[u].verdict \in {"confirmed", "rejected"}
        /\ \/ <<review[u].run, review[u].edge.kind>> \in contested
           \/ /\ review[u].edge \in runs[review[u].run].edges
              /\ \A w \in Reviewers : w # u /\ review[w].stage = "write" =>
                    review[w].run # review[u].run \/ review[w].edge # review[u].edge
    BY <1>1, <2>1 DEF Reviewing
  <2>4. CASE <<review[u].run, review[u].edge.kind>> \in contested
    BY <2>1, <2>3, <2>4
  <2>5. CASE <<review[u].run, review[u].edge.kind>> \notin contested
    <3>1. /\ review[u].edge \in runs[review[u].run].edges
          /\ \A w \in Reviewers : w # u /\ review[w].stage = "write" =>
                review[w].run # review[u].run \/ review[w].edge # review[u].edge
      BY <2>3, <2>5
    <3>2. review[u].edge \in runs'[review[u].run].edges
      <4>1. CASE review[u].run = r
        <5>1. review[u].edge # g
          BY <1>2, <1>3, <2>1, <3>1, <4>1
        <5>2. ~SameEdge(review[u].edge, g)
          BY <1>3, <1>15, <2>3, <5>1
        <5> QED
          BY <1>10, <1>11, <3>1, <4>1, <5>2
      <4>2. CASE review[u].run # r
        BY <1>11, <1>13, <2>3, <3>1, <4>2
      <4> QED
        BY <4>1, <4>2
    <3> QED
      BY <2>1, <2>2, <2>3, <3>1, <3>2
  <2> QED
    BY <2>4, <2>5
<1>17. Jobbing' /\ Syncing'
  BY <1>1, <1>2 DEF Jobbing, Syncing, SyncReportHonest
<1>18. VerdictsStand
  <2> SUFFICES ASSUME NEW s \in Existing, NEW e \in runs[s].edges, e.status # "inferred",
                      <<s, e.kind>> \notin contested
               PROVE  e \in runs'[s].edges
    BY DEF VerdictsStand
  <2>1. CASE s = r
    <3>1. ~SameEdge(e, g)
      <4> SUFFICES ASSUME SameEdge(e, g) PROVE FALSE
        OBVIOUS
      <4>1. e.kind = g.kind /\ e.script = g.script
        BY DEF SameEdge
      <4>2. g \in runs[r].edges
        BY <1>3, <2>1, <4>1
      <4>3. e = g
        BY <1>1, <2>1, <4>1, <4>2 DEF NoEdgeTwice
      <4> QED
        BY <1>3, <4>3
    <3> QED
      BY <1>10, <1>11, <2>1, <3>1
  <2>2. CASE s # r
    BY <1>11, <1>13, <2>2
  <2> QED
    BY <2>1, <2>2
<1> QED
  BY <1>11, <1>14, <1>16, <1>17, <1>18 DEF LineageIInv

\* A worker's job moves on.
LEMMA JobMoves ==
  ASSUME LineageIInv, NEW j \in LineageJobs, NEW q, ljob' = [ljob EXCEPT ![j] = q],
         q.stage \in {"file", "insert"} => q.columns \subseteq Relations,
         q.stage = "insert" => q.script \in Scripts
  PROVE  Jobbing'
<1>1. ljob' = [i \in LineageJobs |-> IF i = j THEN q ELSE ljob[i]]
  BY DEF LineageIInv, Jobbing
<1>2. \A i \in LineageJobs : ljob'[i] = IF i = j THEN q ELSE ljob[i]
  BY <1>1
<1>3. ljob' = [i \in LineageJobs |-> ljob'[i]]
  BY <1>1, <1>2
<1> QED
  BY <1>2, <1>3 DEF LineageIInv, Jobbing

LEMMA JobReads ==
  ASSUME LineageIInv, NEW j \in LineageJobs, NEW q, ljob' = [ljob EXCEPT ![j] = q],
         q.stage \in {"file", "insert"} => q.columns \subseteq Relations,
         q.stage = "insert" => q.script \in Scripts,
         UNCHANGED <<runs, known, analysis, sync, review, contested>>
  PROVE  LineageIInv'
<1>1. /\ Filed' /\ ActiveOnce' /\ HistoryIsAChain' /\ NoEdgeTwice' /\ Existing' = Existing
  BY RunsKept DEF LineageIInv, Filed
<1>2. Jobbing'
  BY JobMoves
<1>3. Analysing' /\ Reviewing'
  BY <1>1 DEF LineageIInv, Analysing, Reviewing
<1>4. Syncing'
  BY DEF LineageIInv, Syncing, SyncReportHonest
<1> QED
  BY <1>1, <1>2, <1>3, <1>4 DEF LineageIInv

LEMMA JobStepsKeep ==
  ASSUME LineageIInv, NEW j \in LineageJobs,
         \/ \E scripts \in SUBSET Scripts, lenient \in BOOLEAN : JobBegins(j, scripts, lenient)
         \/ \E s \in Scripts : JobLooksUp(j, s)
         \/ JobEnds(j) \/ JobCancelled(j)
  PROVE  LineageIInv' /\ UNCHANGED runs
<1>1. known \subseteq Relations
  BY DEF LineageIInv, Filed
<1>2. AnswerSent.stage = "done"
  BY DEF AnswerSent
<1>3. ASSUME NEW scripts \in SUBSET Scripts, NEW lenient \in BOOLEAN, JobBegins(j, scripts, lenient)
      PROVE  LineageIInv' /\ UNCHANGED runs
  <2> DEFINE q == [stage |-> "file", left |-> scripts, columns |-> known, lenient |-> lenient]
  <2>1. q.stage = "file" /\ q.columns = known
    OBVIOUS
  <2>2. /\ ljob' = [ljob EXCEPT ![j] = q]
        /\ UNCHANGED <<runs, known, analysis, sync, review, contested>>
    BY <1>3 DEF JobBegins
  <2> HIDE DEF q
  <2> QED
    BY <1>1, <2>1, <2>2, JobReads
<1>4. ASSUME NEW s \in Scripts, JobLooksUp(j, s)
      PROVE  LineageIInv' /\ UNCHANGED runs
  <2>1. ljob[j].stage = "file" /\ UNCHANGED <<runs, known, analysis, sync, review, contested>>
    BY <1>4 DEF JobLooksUp
  <2>2. ljob[j].columns \subseteq Relations
    BY <2>1 DEF LineageIInv, Jobbing
  <2> DEFINE several == [stage |-> "failed", why |-> "several runs"]
             cached == [stage |-> "file", left |-> ljob[j].left \ {s},
                        columns |-> ljob[j].columns, lenient |-> ljob[j].lenient]
             missing == [stage |-> "insert", left |-> ljob[j].left \ {s},
                         columns |-> ljob[j].columns, lenient |-> ljob[j].lenient, script |-> s]
  <2>3. \/ ljob' = [ljob EXCEPT ![j] = several]
        \/ ljob' = [ljob EXCEPT ![j] = cached]
        \/ ljob' = [ljob EXCEPT ![j] = missing]
    BY <1>4 DEF JobLooksUp
  <2>4. /\ several.stage = "failed"
        /\ cached.stage = "file" /\ cached.columns = ljob[j].columns
        /\ missing.stage = "insert" /\ missing.columns = ljob[j].columns /\ missing.script = s
    BY <2>1
  <2> HIDE DEF several, cached, missing
  <2> QED
    BY <2>1, <2>2, <2>3, <2>4, JobReads
<1>5. ASSUME JobEnds(j) PROVE LineageIInv' /\ UNCHANGED runs
  BY <1>2, <1>5, JobReads DEF JobEnds
<1>6. ASSUME JobCancelled(j) PROVE LineageIInv' /\ UNCHANGED runs
  <2> DEFINE q == [stage |-> "failed", why |-> "cancelled"]
  <2>1. q.stage = "failed"
    OBVIOUS
  <2>2. /\ ljob' = [ljob EXCEPT ![j] = q]
        /\ UNCHANGED <<runs, known, analysis, sync, review, contested>>
    BY <1>6 DEF JobCancelled
  <2> HIDE DEF q
  <2> QED
    BY <2>1, <2>2, JobReads
<1> QED
  BY <1>3, <1>4, <1>5, <1>6

LEMMA JobInsertsKeeps ==
  ASSUME LineageIInv, NEW j \in LineageJobs, JobInserts(j)
  PROVE  LineageIInv' /\ VerdictsStand
<1>1. /\ Filed /\ ActiveOnce /\ HistoryIsAChain /\ NoEdgeTwice /\ Analysing /\ Reviewing
      /\ Jobbing
  BY DEF LineageIInv
<1>2. /\ ljob[j].stage = "insert" /\ NextRun \in RunIds
      /\ UNCHANGED <<known, analysis, sync, review, contested>>
  BY DEF JobInserts
<1>3. ljob[j].script \in Scripts /\ ljob[j].columns \subseteq Relations
  BY <1>1, <1>2 DEF Jobbing
<1>4. PICK key \in KeySet : key = Key(ljob[j].script, ljob[j].columns)
  BY <1>3 DEF Key, KeySet
<1>5. CASE ~IndexAllows(key, FALSE)
  <2> DEFINE q == [stage |-> "failed", why |-> "index"]
  <2>1. q.stage = "failed"
    OBVIOUS
  <2>2. ljob' = [ljob EXCEPT ![j] = q] /\ runs' = runs
    BY <1>4, <1>5 DEF JobInserts
  <2> HIDE DEF q
  <2>3. LineageIInv'
    BY <1>2, <2>1, <2>2, JobReads
  <2> QED
    BY <2>2, <2>3 DEF VerdictsStand
<1>6. CASE IndexAllows(key, FALSE)
  <2> DEFINE p == Parsed(ljob[j].script, ljob[j].columns, ljob[j].lenient)
             q == [stage |-> "file", left |-> ljob[j].left, columns |-> ljob[j].columns,
                   lenient |-> ljob[j].lenient]
  <2>1. /\ runs' = [runs EXCEPT ![NextRun] = Inserted(NextRun, key, p)]
        /\ ljob' = [ljob EXCEPT ![j] = q]
    BY <1>4, <1>6 DEF JobInserts
  <2>2. q.stage = "file" /\ q.columns = ljob[j].columns
    OBVIOUS
  <2>3. /\ p \in SUBSET EdgeSet
        /\ \A e, f \in p : e.kind = f.kind /\ e.script = f.script => e = f
    BY <1>3, ParsedIs
  <2> HIDE DEF p, q
  <2>4. runs' = [Superseded(key, NextRun) EXCEPT ![NextRun] = Inserted(NextRun, key, p)]
    <3>1. ActiveRuns(key) = {}
      BY <1>6 DEF IndexAllows
    <3>2. Superseded(key, NextRun) = runs
      BY <1>1, <3>1 DEF Superseded, Filed
    <3> QED
      BY <2>1, <3>2
  <2>5. /\ Filed' /\ ActiveOnce' /\ HistoryIsAChain' /\ NoEdgeTwice'
        /\ NextRun \notin Existing /\ Existing' = Existing \union {NextRun}
        /\ \A r \in Existing : runs'[r].edges = runs[r].edges
    BY <1>1, <1>2, <2>3, <2>4, RunInserted
  <2>6. Jobbing'
    BY <1>3, <2>1, <2>2, JobMoves
  <2>7. Reviewing' /\ Syncing'
    BY <1>2, <2>5, InsertKeeps
  <2>8. Analysing'
    BY <1>1, <1>2, <2>5 DEF Analysing
  <2>9. VerdictsStand
    BY <2>5 DEF VerdictsStand
  <2> QED
    BY <2>5, <2>6, <2>7, <2>8, <2>9 DEF LineageIInv
<1> QED
  BY <1>5, <1>6

\* What the metadata synchronisation does not touch.
LEMMA SyncKeeps ==
  ASSUME LineageIInv, UNCHANGED <<runs, analysis, ljob, review, contested>>,
         known' \subseteq Relations, Syncing'
  PROVE  LineageIInv' /\ UNCHANGED runs
<1>1. /\ Filed' /\ ActiveOnce' /\ HistoryIsAChain' /\ NoEdgeTwice' /\ Existing' = Existing
  BY RunsKept DEF LineageIInv
<1>2. Analysing' /\ Reviewing' /\ Jobbing'
  BY <1>1 DEF LineageIInv, Analysing, Reviewing, Jobbing
<1> QED
  BY <1>1, <1>2 DEF LineageIInv

LEMMA SyncTableKeeps ==
  ASSUME LineageIInv, NEW t \in Relations, NEW ok \in BOOLEAN, SyncTable(t, ok)
  PROVE  LineageIInv' /\ UNCHANGED runs
<1>1. /\ sync.stage = "tables" /\ t \in sync.left
      /\ UNCHANGED <<runs, analysis, ljob, review, contested>>
  BY DEF SyncTable
<1>2. sync \in SyncRecs
  BY <1>1 DEF LineageIInv, Syncing
<1>3. known \subseteq Relations /\ (sync.failed = 0 => sync.scope \ sync.left \subseteq known)
  BY <1>1 DEF LineageIInv, Syncing, Filed
<1>4. /\ sync.scope \subseteq Relations /\ sync.left \subseteq Relations
      /\ sync.synced \in Nat /\ sync.failed \in Nat
  BY <1>2 DEF SyncRecs
<1>5. CASE ok
  <2>1. known' = known \union {t}
    BY <1>5 DEF SyncTable
  <2>2. sync' = [stage |-> "tables", scope |-> sync.scope, left |-> sync.left \ {t},
                 synced |-> sync.synced + 1, failed |-> sync.failed]
    BY <1>2, <1>5 DEF SyncTable, SyncRecs
  <2>3. /\ sync' \in SyncRecs /\ sync'.stage = "tables" /\ sync'.scope = sync.scope
        /\ sync'.failed = sync.failed /\ sync'.left = sync.left \ {t}
    BY <1>4, <2>2 DEF SyncRecs
  <2>4. Syncing'
    BY <1>3, <2>1, <2>3 DEF Syncing, SyncReportHonest
  <2> QED
    BY <1>1, <1>3, <2>1, <2>4, SyncKeeps
<1>6. CASE ~ok
  <2>1. known' = known
    BY <1>6 DEF SyncTable
  <2>2. sync' = [stage |-> "tables", scope |-> sync.scope, left |-> sync.left \ {t},
                 synced |-> sync.synced, failed |-> sync.failed + 1]
    BY <1>2, <1>6 DEF SyncTable, SyncRecs
  <2>3. /\ sync' \in SyncRecs /\ sync'.failed = sync.failed + 1 /\ sync'.stage = "tables"
    BY <1>4, <2>2 DEF SyncRecs
  <2>4. sync'.failed # 0
    BY <1>4, <2>3
  <2>5. Syncing'
    BY <2>3, <2>4 DEF Syncing, SyncReportHonest
  <2> QED
    BY <1>1, <1>3, <2>1, <2>5, SyncKeeps
<1> QED
  BY <1>5, <1>6

LEMMA SyncStepsKeep ==
  ASSUME LineageIInv,
         \/ \E wanted \in SUBSET {SchemaOf[t] : t \in Relations} : SyncBegins(wanted)
         \/ \E t \in Relations : SyncSchemaFails(SchemaOf[t])
         \/ SyncReports \/ SyncCancelled
  PROVE  LineageIInv' /\ UNCHANGED runs
<1>1. known \subseteq Relations
  BY DEF LineageIInv, Filed
<1>2. ASSUME NEW wanted \in SUBSET {SchemaOf[t] : t \in Relations}, SyncBegins(wanted)
      PROVE  LineageIInv' /\ UNCHANGED runs
  <2> DEFINE its == InSchemas(wanted)
  <2>3. its \subseteq Relations
    BY DEF InSchemas
  <2> HIDE DEF its
  <2>1. /\ sync' \in SyncRecs /\ sync'.scope = its /\ sync'.left = its
        /\ sync'.stage = "tables"
    BY <1>2, <2>3 DEF SyncBegins, SyncRecs, its
  <2>2. Syncing'
    BY <2>1 DEF Syncing, SyncReportHonest
  <2> QED
    BY <1>1, <1>2, <2>2, SyncKeeps DEF SyncBegins
<1>5. ASSUME NEW x, SyncSchemaFails(x)
      PROVE  LineageIInv' /\ UNCHANGED runs
  <2> DEFINE its == sync.scope \intersect InSchemas({x})
  <2>1. sync.stage = "tables" /\ sync \in SyncRecs
    BY <1>5 DEF SyncSchemaFails, LineageIInv, Syncing
  <2>2. sync' = [sync EXCEPT !.left = sync.left \ its, !.failed = sync.failed + 1]
    BY <1>5 DEF SyncSchemaFails
  <2> HIDE DEF its
  <2>5. sync.left \ its \in SUBSET Relations /\ sync.failed + 1 \in Nat
    BY <2>1 DEF SyncRecs
  <2>6. sync.failed + 1 # 0
    BY <2>1 DEF SyncRecs
  <2>7. sync' = [stage |-> "tables", scope |-> sync.scope, left |-> sync.left \ its,
                 synced |-> sync.synced, failed |-> sync.failed + 1]
    BY <2>1, <2>2 DEF SyncRecs
  <2>8. sync.scope \in SUBSET Relations /\ sync.synced \in Nat
    BY <2>1 DEF SyncRecs
  <2>3. sync' \in SyncRecs /\ sync'.stage = "tables" /\ sync'.failed # 0
    BY <2>5, <2>6, <2>7, <2>8 DEF SyncRecs
  <2>4. Syncing'
    BY <2>3 DEF Syncing, SyncReportHonest
  <2> QED
    BY <1>1, <1>5, <2>4, SyncKeeps DEF SyncSchemaFails
<1>3. CASE SyncReports
  <2>1. /\ sync.stage = "tables" /\ (sync.left = {} \/ SyncStops)
        /\ sync.failed = 0 => sync.scope \ sync.left \subseteq known
    BY <1>3 DEF SyncReports, LineageIInv, Syncing
  <2> DEFINE told == Truncated
  <2>2. /\ sync'.stage = "done" /\ sync'.failed = sync.failed
        /\ sync'.truncated = told /\ sync'.scope = sync.scope
    BY <1>3 DEF SyncReports
  <2>3. told <=> SyncStops /\ sync.left # {}
    BY DEF Truncated
  <2> HIDE DEF told
  <2>4. SyncReportHonest'
    BY <1>3, <2>1, <2>2, <2>3 DEF SyncReportHonest, SyncReports
  <2>5. Syncing'
    BY <2>2, <2>4 DEF Syncing
  <2> QED
    BY <1>1, <1>3, <2>5, SyncKeeps DEF SyncReports
<1>4. CASE SyncCancelled
  <2>1. sync'.stage = "cancelled"
    BY <1>4 DEF SyncCancelled
  <2>2. Syncing'
    BY <2>1 DEF Syncing, SyncReportHonest
  <2> QED
    BY <1>1, <1>4, <2>2, SyncKeeps DEF SyncCancelled
<1> QED
  BY <1>2, <1>3, <1>4, <1>5

LEMMA LineageKept ==
  ASSUME LineageIInv, [LineageNext]_lineageVars
  PROVE  LineageIInv' /\ VerdictsStand
<1> USE DEF VerdictsStand
<1>1. CASE \E a \in Analyses : \/ \E s \in Scripts, refresh, fallback \in BOOLEAN :
                                     AnalyzeBegins(a, s, refresh, fallback)
                               \/ AnalyzeFails(a)
  <2>1. LineageIInv'
    BY <1>1, AnalyzeBeginsKeeps, AnalyzeFailsKeeps
  <2>2. UNCHANGED runs
    BY <1>1 DEF AnalyzeBegins, AnalyzeFails
  <2> QED
    BY <2>1, <2>2
<1>2. CASE \E a \in Analyses : \/ AnalyzeWrites(a)
                               \/ \E kinds \in SUBSET {"table", "column"} : ModelAnswers(a, kinds)
  BY <1>2, AnalyzeWritesKeeps, ModelAnswersKeeps
<1>3. CASE \E v \in Reviewers, r \in Existing :
              \E e \in runs[r].edges, verdict \in {"confirmed", "rejected"} :
                 ReviewBegins(v, r, e, verdict)
  <2>1. LineageIInv'
    BY <1>3, ReviewBeginsKeeps
  <2>2. UNCHANGED runs
    BY <1>3 DEF ReviewBegins
  <2> QED
    BY <2>1, <2>2
<1>4. CASE \E v \in Reviewers : ReviewWrites(v)
  BY <1>4, ReviewWritesKeeps
<1>5. CASE \E j \in LineageJobs :
              \/ \E scripts \in SUBSET Scripts, lenient \in BOOLEAN : JobBegins(j, scripts, lenient)
              \/ \E s \in Scripts : JobLooksUp(j, s)
              \/ JobEnds(j) \/ JobCancelled(j)
  BY <1>5, JobStepsKeep
<1>6. CASE \E j \in LineageJobs : JobInserts(j)
  BY <1>6, JobInsertsKeeps
<1>7. CASE \/ \E wanted \in SUBSET {SchemaOf[t] : t \in Relations} : SyncBegins(wanted)
           \/ \E t \in Relations : SyncSchemaFails(SchemaOf[t])
           \/ SyncReports \/ SyncCancelled
  BY <1>7, SyncStepsKeep
<1>8. CASE \E t \in Relations, ok \in BOOLEAN : SyncTable(t, ok)
  BY <1>8, SyncTableKeeps
<1>9. CASE UNCHANGED lineageVars
  <2>1. UNCHANGED <<runs, known, analysis, ljob, sync, review, contested>>
    BY <1>9 DEF lineageVars
  <2>2. Syncing' /\ known' \subseteq Relations
    BY <2>1 DEF LineageIInv, Syncing, SyncReportHonest, Filed
  <2> QED
    BY <2>1, <2>2, SyncKeeps
<1> QED
  BY <1>1, <1>2, <1>3, <1>4, <1>5, <1>6, <1>7, <1>8, <1>9 DEF LineageNext

LEMMA LineageBegin == LineageInit => LineageIInv
<1> SUFFICES ASSUME LineageInit PROVE LineageIInv
  OBVIOUS
<1>1. NoLineageRun.exists = FALSE /\ Unasked.stage = "idle"
  BY DEF NoLineageRun, Unasked
<1>2. \A r \in RunIds : runs[r] = NoLineageRun
  BY DEF LineageInit
<1>3. Existing = {}
  BY <1>1, <1>2 DEF Existing
<1>4. Existing = 1..0 /\ 0 \in 0..MaxRuns
  BY <1>3, LineageBounds
<1>5. runs \in [RunIds -> RunRecs \union {NoLineageRun}] /\ known \subseteq Relations
  BY DEF LineageInit
<1>6. Filed
  BY <1>4, <1>5 DEF Filed
<1>7. ActiveOnce /\ HistoryIsAChain /\ NoEdgeTwice
  BY <1>3 DEF ActiveOnce, HistoryIsAChain, NoEdgeTwice
<1>8. Analysing /\ Reviewing /\ Jobbing
  BY <1>1 DEF LineageInit, Analysing, Reviewing, Jobbing
<1>9. sync.stage = "idle"
  BY DEF LineageInit
<1>10. Syncing
  BY <1>9 DEF Syncing, SyncReportHonest
<1> QED
  BY <1>6, <1>7, <1>8, <1>10 DEF LineageIInv

LEMMA LineageSafe == LineageIInv => LineageInv
<1> SUFFICES ASSUME LineageIInv PROVE LineageInv
  OBVIOUS
<1>1. /\ Filed /\ ActiveOnce /\ HistoryIsAChain /\ NoEdgeTwice /\ SyncReportHonest
  BY DEF LineageIInv, Syncing
<1>2. \A r \in Existing : /\ runs[r].key \in KeySet /\ runs[r].edges \subseteq EdgeSet
  BY <1>1, LinedUp
<1>3. \A r \in Existing : runs[r].by \in {0} \union Existing
  BY <1>1 DEF HistoryIsAChain, Rows
<1>4. LineageTypeOK
  <2>1. known \subseteq Relations
    BY <1>1 DEF Filed
  <2>2. \A r \in Existing :
           runs[r].key.script \in Scripts /\ runs[r].key.columns \subseteq Relations
    BY <1>2 DEF KeySet
  <2>3. \A r \in Existing :
           \A e \in runs[r].edges : e.status \in {"confirmed", "inferred", "rejected"}
    BY <1>2 DEF EdgeSet
  <2> QED
    BY <1>3, <2>1, <2>2, <2>3 DEF LineageTypeOK
<1>5. OneActiveRun
  <2> SUFFICES ASSUME NEW key \in Keys PROVE Cardinality(ActiveRuns(key)) = 1
    BY DEF OneActiveRun
  <2>1. PICK r \in Existing : runs[r].key = key
    BY DEF Keys
  <2>2. PICK s \in Existing : runs[s].key = key /\ runs[s].by = 0
    BY <1>1, <2>1 DEF ActiveOnce
  <2>3. ActiveRuns(key) = {s}
    BY <1>1, <2>2 DEF ActiveOnce, ActiveRuns, Rows
  <2> QED
    BY <2>3, FS_Singleton
<1> QED
  BY <1>1, <1>4, <1>5 DEF LineageInv

\* However many refreshes, analyses, worker jobs, model answers, reviews and
\* metadata synchronisations overlap, every statement's stored lineage is one active
\* run at the end of a chain of superseded ones, no model's proposal stands beside the
\* parser's own edge, and a synchronisation that left tables out says so
\* (analyze_project_lineage, _supersede_lineage_cache, _execute_metadata_sync).
THEOREM LineageIsSafe == LineageSpec => []LineageInv
<1>1. LineageInit => LineageIInv
  BY LineageBegin
<1>2. LineageIInv /\ [LineageNext]_lineageVars => LineageIInv'
  BY LineageKept
<1>3. LineageIInv => LineageInv
  BY LineageSafe
<1> QED
  BY <1>1, <1>2, <1>3, PTL DEF LineageSpec

\* No step of an analysis, a worker's job, a model's answer or another review changes or
\* drops an edge that was confirmed or rejected, unless two reviews were open for the
\* edge at once (update_lineage_edge_inference).
THEOREM VerdictsAreFinal == LineageSpec => VerdictIsFinal
<1>1. LineageInit => LineageIInv
  BY LineageBegin
<1>2. LineageIInv /\ [LineageNext]_lineageVars => LineageIInv'
  BY LineageKept
<1>3. LineageIInv /\ [LineageNext]_lineageVars =>
        [\A r \in Existing : \A e \in runs[r].edges :
            e.status # "inferred" /\ <<r, e.kind>> \notin contested =>
               e \in runs'[r].edges]_lineageVars
  BY LineageKept DEF VerdictsStand
<1> QED
  BY <1>1, <1>2, <1>3, PTL DEF LineageSpec, VerdictIsFinal

----------------------------------------------------------------------------
(* The API gate: the inductive invariant.                                    *)

(* The modes a license verdict can have.                                     *)
GateModes == {"trial", "valid", "in_grace", "repair"}

(* What has the shape the code gives it, and what cannot be before the       *)
(* process has started.                                                      *)
GateShape ==
    /\ GateTypeOK
    /\ now \in 0..MaxNow /\ starts \in Nat /\ locked \in BOOLEAN /\ crossed \in BOOLEAN
    /\ upload = [u \in Uploads |-> upload[u]]
    /\ caller = [c \in Callers |-> caller[c]]
    /\ Uploading # {} => starts > 0
    /\ \A c \in Callers : caller[c].stage # "idle" => starts > 0
    /\ starts > 0 => row.mode # "none"
    /\ \A u \in Uploads : upload[u].stage = "row" => upload[u].state.mode \in GateModes

(* An upload has committed the row and not yet dropped the cached mode.      *)
Invalidating == \E u \in Uploads : upload[u].stage = "invalidate"

(* The lock: one reader at a time between the read of the row and the cache, *)
(* and what it read is the row's mode unless an upload is about to drop it.  *)
LockHeld ==
    /\ \A c \in Callers : caller[c].stage = "caching" =>
          /\ locked
          /\ caller[c].began \in 0..now
          /\ caller[c].mode \in GateModes
          /\ caller[c].mode = row.mode \/ Invalidating
    /\ \A c, d \in Callers :
          caller[c].stage = "caching" /\ caller[d].stage = "caching" => c = d

(* As long as no two uploads overlapped there is one at most, its verdict is *)
(* on the file that is on disk, and so is the row's once it is committed.    *)
RowInStep ==
    ~crossed =>
        /\ \A u, v \in Uploading : u = v
        /\ \A u \in Uploads : upload[u].stage = "row" => upload[u].state.of = file
        /\ \A u \in Uploads : upload[u].stage = "invalidate" => row.of = file
        /\ Uploading = {} /\ starts > 0 => row.of = file

(* The limiter's window holds what was admitted in it, each request once.    *)
HitsInStep ==
    /\ IsFiniteSet(hits) /\ IsFiniteSet(admitted) /\ admitted \subseteq Hits
    /\ {h \in admitted : Recent(h)} = Kept
    /\ \A h \in admitted :
          /\ h.at <= now
          /\ h.at = now => h.no <= Cardinality({g \in admitted : g.at = now})

GateIInv == GateShape /\ LockHeld /\ ModeFresh /\ RowInStep /\ HitsInStep

----------------------------------------------------------------------------
LEMMA BoundsAreNat ==
    /\ CacheTtl \in Nat /\ Window \in Nat /\ RateLimit \in Nat /\ MaxNow \in Nat
    /\ 0 \in 0..MaxNow
  BY GateBounds

LEMMA VerdictFacts ==
    ASSUME NEW f
    PROVE  VerifyLicense(f).mode \in GateModes /\ VerifyLicense(f).of = f
  BY DEF VerifyLicense, GateModes

LEMMA SyncedFacts ==
    ASSUME NEW old, NEW f
    PROVE  /\ Synced(old, VerifyLicense(f)).mode \in GateModes
           /\ Synced(old, VerifyLicense(f)).of = f
  BY DEF Synced, VerifyLicense, GateModes

LEMMA CallerMoves ==
    ASSUME GateShape, NEW c \in Callers, NEW r, caller' = [caller EXCEPT ![c] = r]
    PROVE  /\ caller'[c] = r
           /\ \A d \in Callers : d # c => caller'[d] = caller[d]
           /\ caller' = [d \in Callers |-> caller'[d]]
  BY DEF GateShape

LEMMA UploadMoves ==
    ASSUME GateShape, NEW u \in Uploads, NEW r, upload' = [upload EXCEPT ![u] = r]
    PROVE  /\ upload'[u] = r
           /\ \A v \in Uploads : v # u => upload'[v] = upload[v]
           /\ upload' = [v \in Uploads |-> upload'[v]]
  BY DEF GateShape

LEMMA AdmittedAtNow ==
    ASSUME IsFiniteSet(admitted), NEW t
    PROVE  Cardinality({h \in admitted : h.at = t}) \in Nat
  <1>1. IsFiniteSet({h \in admitted : h.at = t})
    BY FS_Subset
  <1> QED  BY <1>1, FS_CardinalityType

LEMMA HitIsNew ==
    ASSUME HitsInStep
    PROVE  ThisHit \notin admitted
  <1> DEFINE n == Cardinality({h \in admitted : h.at = now})
  <1>1. n \in Nat
    BY AdmittedAtNow DEF HitsInStep
  <1>2. ThisHit.at = now /\ ThisHit.no = n + 1
    BY DEF ThisHit
  <1>3. ThisHit \in admitted => ThisHit.no <= n
    BY <1>2 DEF HitsInStep
  <1> QED  BY <1>1, <1>2, <1>3

LEMMA WindowCounts ==
    ASSUME GateShape, HitsInStep
    PROVE  RateHolds
  <1>1. Cardinality(Kept) <= Cardinality(hits) /\ Cardinality(Kept) \in Nat /\ Cardinality(hits) \in Nat
    BY FS_Subset, FS_CardinalityType DEF HitsInStep, Kept
  <1>2. Cardinality(hits) <= RateLimit /\ RateLimit \in Nat
    BY BoundsAreNat DEF GateShape, GateTypeOK
  <1> QED  BY <1>1, <1>2 DEF HitsInStep, RateHolds

----------------------------------------------------------------------------
LEMMA InitGate == GateInit => GateIInv
  <1> SUFFICES ASSUME GateInit PROVE GateIInv
    OBVIOUS
  <1> USE DEF GateInit
  <1>0. hits = {} /\ admitted = {} /\ IsFiniteSet(hits) /\ IsFiniteSet(admitted) /\ Cardinality(hits) = 0
    BY FS_EmptySet
  <1>1. GateShape
    <2>1. GateTypeOK
      BY <1>0, BoundsAreNat DEF GateTypeOK, NoLicenseRow, NoCache
    <2>2. Uploading = {} /\ (\A c \in Callers : caller[c].stage = "idle") /\ \A u \in Uploads : upload[u].stage = "idle"
      BY DEF Uploading, Gone
    <2>3. upload = [u \in Uploads |-> upload[u]] /\ caller = [c \in Callers |-> caller[c]]
      OBVIOUS
    <2>4. now \in 0..MaxNow /\ starts = 0 /\ locked \in BOOLEAN /\ crossed \in BOOLEAN
      BY BoundsAreNat
    <2> HIDE DEF GateInit
    <2> QED  BY <2>1, <2>2, <2>3, <2>4 DEF GateShape
  <1>2. LockHeld
    BY DEF LockHeld, Gone
  <1>3. ModeFresh
    BY DEF ModeFresh, NoCache
  <1>4. RowInStep
    BY DEF RowInStep, Uploading, Gone
  <1>5. HitsInStep
    BY <1>0 DEF HitsInStep, Kept
  <1> QED  BY <1>1, <1>2, <1>3, <1>4, <1>5 DEF GateIInv

(* The limiter: nothing but a decision, a start and the clock moves it.      *)
LEMMA HitsRest ==
    ASSUME HitsInStep, UNCHANGED <<hits, admitted, now>>
    PROVE  HitsInStep'
  BY DEF HitsInStep, Kept, Recent

LEMMA HitsStart ==
    ASSUME HitsInStep, StartApi
    PROVE  HitsInStep'
  <1>1. hits' = {} /\ admitted' = {} /\ IsFiniteSet(hits') /\ IsFiniteSet(admitted')
    BY FS_EmptySet DEF StartApi
  <1> QED  BY <1>1 DEF HitsInStep, Kept

LEMMA HitsClock ==
    ASSUME GateShape, HitsInStep, TimePasses
    PROVE  HitsInStep'
  <1>1. hits' = hits /\ admitted' = admitted /\ now' = now + 1 /\ now \in Nat /\ Window \in Nat
    BY BoundsAreNat DEF TimePasses, GateShape
  <1>2. \A h \in hits \union admitted : h.at \in Nat /\ h.at <= now
    <2>1. hits \subseteq Hits /\ admitted \subseteq Hits /\ \A h \in Hits : h.at \in Nat
      BY BoundsAreNat DEF HitsInStep, Hits, GateShape, GateTypeOK
    <2>2. (\A h \in hits : h.at <= now) /\ \A h \in admitted : h.at <= now
      BY DEF HitsInStep, GateShape, GateTypeOK
    <2> QED  BY <2>1, <2>2
  <1>3. \A h \in hits \union admitted : Recent(h)' => Recent(h)
    BY <1>1, <1>2 DEF Recent
  <1>4. \A h \in hits \union admitted : Recent(h) => (h \in hits <=> h \in admitted)
    BY DEF HitsInStep, Kept
  <1>5. {h \in admitted' : Recent(h)'} = {h \in hits' : Recent(h)'}
    BY <1>1, <1>3, <1>4
  <1>6. \A h \in admitted' : h.at <= now' /\ h.at # now'
    BY <1>1, <1>2
  <1> QED  BY <1>1, <1>5, <1>6 DEF HitsInStep, Kept

LEMMA HitsAdmit ==
    ASSUME GateShape, HitsInStep, NEW c \in Callers, RateAdmits(c)
    PROVE  HitsInStep' /\ hits' \subseteq Hits /\ Cardinality(hits') <= RateLimit /\ \A h \in hits' : h.at <= now
  <1> DEFINE new == ThisHit
             n == Cardinality({h \in admitted : h.at = now})
             past == {h \in admitted : Recent(h)}
  <1>1. hits' = Kept \union {new} /\ admitted' = past \union {new} /\ now' = now /\ Cardinality(Kept) < RateLimit
    BY DEF RateAdmits
  <1>2. n \in Nat /\ now \in 0..MaxNow /\ now \in Nat /\ MaxNow \in Nat /\ RateLimit \in Nat /\ Window \in Nat
    <2>1. n \in Nat
      BY AdmittedAtNow DEF HitsInStep
    <2>2. now \in 0..MaxNow
      BY DEF GateShape
    <2> QED  BY <2>1, <2>2, BoundsAreNat
  <1>3. new = [at |-> now, no |-> n + 1] /\ new \in Hits /\ Recent(new)
    BY <1>2 DEF ThisHit, Hits, Recent
  <1>4. past = Kept /\ past \subseteq admitted /\ Kept \subseteq hits
    BY DEF HitsInStep, Kept
  <1>5. IsFiniteSet(Kept) /\ IsFiniteSet(hits') /\ Cardinality(Kept) \in Nat
        /\ Cardinality(hits') <= Cardinality(Kept) + 1
    BY <1>1, <1>4, FS_Subset, FS_AddElement, FS_CardinalityType DEF HitsInStep
  <1>6. Cardinality(hits') <= RateLimit
    <2>1. Cardinality(hits') \in Nat
      BY <1>5, FS_CardinalityType
    <2> QED  BY <2>1, <1>1, <1>2, <1>5
  <1>7. hits' \subseteq Hits /\ \A h \in hits' : h.at <= now
    BY <1>1, <1>2, <1>3, <1>4 DEF GateShape, GateTypeOK
  <1>8. {h \in admitted' : Recent(h)'} = Kept'
    <2>1. \A h : Recent(h)' <=> Recent(h)
      BY <1>1, <1>2 DEF Recent, RateAdmits
    <2>2. admitted' = hits'
      BY <1>1, <1>4
    <2>3. \A h \in hits' : Recent(h)'
      BY <1>1, <1>3, <2>1 DEF Kept
    <2> QED  BY <2>1, <2>2, <2>3 DEF Kept
  <1>9. {h \in admitted' : h.at = now} = {h \in admitted : h.at = now} \union {new}
    <2>1. \A h \in admitted : h.at = now => Recent(h)
      BY <1>2 DEF Recent
    <2> QED  BY <1>1, <1>3, <2>1
  <1>10. Cardinality({h \in admitted' : h.at = now}) = n + 1
    <2>1. IsFiniteSet({h \in admitted : h.at = now})
      BY FS_Subset DEF HitsInStep
    <2>2. new \notin {h \in admitted : h.at = now}
      BY HitIsNew
    <2> QED  BY <1>9, <2>1, <2>2, FS_AddElement
  <1>11. \A h \in admitted' : h.at <= now' /\ (h.at = now' => h.no <= Cardinality({g \in admitted' : g.at = now'}))
    <2> SUFFICES ASSUME NEW h \in admitted'
                 PROVE  h.at <= now /\ (h.at = now => h.no <= n + 1)
      BY <1>1, <1>10
    <2>1. CASE h = new
      BY <1>2, <1>3, <2>1
    <2>2. CASE h \in admitted
      <3>1. h \in Hits /\ h.no \in Nat
        BY <2>2 DEF HitsInStep, Hits
      <3>2. h.at <= now /\ (h.at = now => h.no <= n)
        BY <2>2 DEF HitsInStep
      <3> QED  BY <3>1, <3>2, <1>2
    <2> QED  BY <1>1, <2>1, <2>2
  <1>12. IsFiniteSet(admitted') /\ admitted' \subseteq Hits
    BY <1>1, <1>4, <1>5, <1>7
  <1> QED  BY <1>5, <1>6, <1>7, <1>8, <1>11, <1>12 DEF HitsInStep

LEMMA HitsRefuse ==
    ASSUME GateShape, HitsInStep, NEW c \in Callers, RateRefuses(c)
    PROVE  HitsInStep' /\ hits' \subseteq Hits /\ Cardinality(hits') <= RateLimit /\ \A h \in hits' : h.at <= now
  <1>1. hits' = Kept /\ admitted' = admitted /\ now' = now /\ Kept \subseteq hits
    BY DEF RateRefuses, Kept
  <1>2. IsFiniteSet(hits') /\ Cardinality(hits') <= Cardinality(hits) /\ Cardinality(hits') \in Nat /\ Cardinality(hits) \in Nat
    BY <1>1, FS_Subset, FS_CardinalityType DEF HitsInStep
  <1>3. Cardinality(hits') <= RateLimit /\ hits' \subseteq Hits /\ \A h \in hits' : h.at <= now
    BY <1>1, <1>2, BoundsAreNat DEF GateShape, GateTypeOK
  <1>4. Kept' = Kept /\ {h \in admitted' : Recent(h)'} = {h \in admitted : Recent(h)}
    BY <1>1 DEF Kept, Recent
  <1> QED  BY <1>1, <1>2, <1>3, <1>4 DEF HitsInStep

----------------------------------------------------------------------------
(* The shape.                                                                *)
LEMMA ShapeStart ==
    ASSUME GateShape, StartApi
    PROVE  GateShape'
  <1> USE DEF StartApi
  <1>1. row'.mode \in GateModes
    BY SyncedFacts
  <1>2. starts' \in Nat /\ starts' > 0
    BY DEF GateShape
  <1>3. \A u \in Uploads : upload'[u].stage \in {"idle", "done"}
    BY DEF Gone
  <1>4. upload' = [u \in Uploads |-> upload'[u]] /\ caller' = [c \in Callers |-> caller'[c]]
    OBVIOUS
  <1>5. hits' = {} /\ Cardinality(hits') = 0
    BY FS_EmptySet
  <1>6. GateTypeOK'
    BY <1>1, <1>2, <1>5, BoundsAreNat DEF GateShape, GateTypeOK, GateModes, NoCache
  <1> QED  BY <1>1, <1>2, <1>3, <1>4, <1>6 DEF GateShape, GateModes

LEMMA ShapeClock ==
    ASSUME GateShape, TimePasses
    PROVE  GateShape'
  <1> USE DEF TimePasses
  <1>1. now' \in 0..MaxNow /\ now' = now + 1 /\ now \in Nat
    BY BoundsAreNat DEF GateShape
  <1>2. \A h \in hits : h.at \in Nat
    BY BoundsAreNat DEF GateShape, GateTypeOK, Hits
  <1>3. \A h \in hits' : h.at <= now'
    BY <1>1, <1>2 DEF GateShape, GateTypeOK
  <1> QED  BY <1>1, <1>3 DEF GateShape, GateTypeOK, Uploading

LEMMA ShapeSettings ==
    ASSUME GateShape, NEW b \in BOOLEAN, PutSystemSettings(b)
    PROVE  GateShape'
  BY DEF GateShape, GateTypeOK, Uploading, PutSystemSettings

(* A step of an upload: it moves one upload, which had begun or begins now.  *)
LEMMA ShapeUpload ==
    ASSUME GateShape, NEW u \in Uploads, NEW r, upload' = [upload EXCEPT ![u] = r],
           UNCHANGED <<now, starts, locked, hits, caller>>, crossed' \in BOOLEAN,
           starts > 0, file' \in {"absent"} \union Files, row'.mode \in GateModes,
           cache' \in {cache, NoCache}, r.stage = "row" => r.state.mode \in GateModes
    PROVE  GateShape'
  <1>1. \A v \in Uploads : upload'[v].stage = "row" => upload'[v].state.mode \in GateModes
    BY UploadMoves DEF GateShape
  <1>2. upload' = [v \in Uploads |-> upload'[v]]
    BY UploadMoves
  <1>3. GateTypeOK'
    BY BoundsAreNat DEF GateShape, GateTypeOK, GateModes, NoCache
  <1> QED  BY <1>1, <1>2, <1>3 DEF GateShape, GateModes

(* A step of a request.                                                      *)
LEMMA ShapeCaller ==
    ASSUME GateShape, NEW c \in Callers, NEW r, caller' = [caller EXCEPT ![c] = r],
           UNCHANGED <<file, row, now, starts, upload, crossed>>, starts > 0,
           locked' \in BOOLEAN,
           cache'.mode \in {"none"} \union GateModes, cache'.until \in 0..(MaxNow + CacheTtl),
           hits' \subseteq Hits, Cardinality(hits') <= RateLimit, \A h \in hits' : h.at <= now
    PROVE  GateShape'
  <1>1. caller' = [d \in Callers |-> caller'[d]]
    BY CallerMoves
  <1>2. GateTypeOK'
    BY DEF GateShape, GateTypeOK, GateModes
  <1> QED  BY <1>1, <1>2 DEF GateShape, Uploading

(* The verdict on the file, step by step.                                    *)
LEMMA RowRests ==
    ASSUME RowInStep, UNCHANGED <<file, row, upload, starts, crossed>>
    PROVE  RowInStep'
  BY DEF RowInStep, Uploading

LEMMA RowStart ==
    ASSUME StartApi
    PROVE  RowInStep'
  <1>1. row'.of = file'
    BY SyncedFacts DEF StartApi
  <1>2. \A u \in Uploads : upload'[u].stage \in {"idle", "done"}
    BY DEF StartApi, Gone
  <1>3. Uploading' = {}
    BY <1>2 DEF Uploading
  <1> QED  BY <1>1, <1>2, <1>3 DEF RowInStep

LEMMA RowUpload ==
    ASSUME GateShape, RowInStep, NEW u \in Uploads, NEW f, UploadFile(u, f)
    PROVE  RowInStep'
  <1> SUFFICES ASSUME ~crossed' PROVE RowInStep'
    BY DEF RowInStep
  <1>1. Uploading = {}
    BY DEF UploadFile
  <1>2. upload'[u].stage = "verify" /\ \A v \in Uploads : v # u => upload'[v] = upload[v]
    BY UploadMoves DEF UploadFile
  <1>3. \A v \in Uploads : v # u => upload'[v].stage \in {"idle", "done"}
    BY <1>1, <1>2 DEF Uploading
  <1>4. Uploading' = {u}
    BY <1>2, <1>3 DEF Uploading
  <1> QED  BY <1>2, <1>3, <1>4 DEF RowInStep

LEMMA RowVerify ==
    ASSUME GateShape, RowInStep, NEW u \in Uploads, UploadVerify(u)
    PROVE  RowInStep'
  <1> SUFFICES ASSUME ~crossed' PROVE RowInStep'
    BY DEF RowInStep
  <1>1. ~crossed /\ file' = file /\ row' = row /\ upload[u].stage = "verify"
    BY DEF UploadVerify
  <1>2. upload'[u] = [stage |-> "row", state |-> VerifyLicense(file)] /\ \A v \in Uploads : v # u => upload'[v] = upload[v]
    BY UploadMoves DEF UploadVerify
  <1>3. upload'[u].stage = "row" /\ upload'[u].state.of = file
    BY <1>2, VerdictFacts
  <1>4. Uploading' = Uploading /\ u \in Uploading
    BY <1>1, <1>2, <1>3 DEF Uploading
  <1> QED  BY <1>1, <1>2, <1>3, <1>4 DEF RowInStep

LEMMA RowCommit ==
    ASSUME GateShape, RowInStep, NEW u \in Uploads, UploadRow(u)
    PROVE  RowInStep'
  <1> SUFFICES ASSUME ~crossed' PROVE RowInStep'
    BY DEF RowInStep
  <1>1. ~crossed /\ file' = file /\ row' = upload[u].state /\ upload[u].stage = "row"
    BY DEF UploadRow
  <1>2. upload'[u] = [stage |-> "invalidate"] /\ \A v \in Uploads : v # u => upload'[v] = upload[v]
    BY UploadMoves DEF UploadRow
  <1>3. Uploading' = Uploading /\ u \in Uploading
    BY <1>1, <1>2 DEF Uploading
  <1>4. row'.of = file
    BY <1>1 DEF RowInStep
  <1>5. \A v \in Uploads : upload'[v].stage # "row"
    BY <1>1, <1>2, <1>3 DEF RowInStep, Uploading
  <1> QED  BY <1>1, <1>2, <1>3, <1>4, <1>5 DEF RowInStep

LEMMA RowDone ==
    ASSUME GateShape, RowInStep, NEW u \in Uploads, UploadInvalidate(u)
    PROVE  RowInStep'
  <1> SUFFICES ASSUME ~crossed' PROVE RowInStep'
    BY DEF RowInStep
  <1>1. ~crossed /\ file' = file /\ row' = row /\ upload[u].stage = "invalidate"
    BY DEF UploadInvalidate
  <1>2. upload'[u].stage = "done" /\ \A v \in Uploads : v # u => upload'[v] = upload[v]
    BY UploadMoves DEF UploadInvalidate
  <1>3. u \in Uploading /\ \A v \in Uploads : v # u => upload[v].stage \in {"idle", "done"}
    BY <1>1 DEF RowInStep, Uploading
  <1>4. Uploading' = {}
    BY <1>2, <1>3 DEF Uploading
  <1>5. row'.of = file' /\ \A v \in Uploads : upload'[v].stage \in {"idle", "done"}
    BY <1>1, <1>2, <1>3 DEF RowInStep
  <1> QED  BY <1>4, <1>5 DEF RowInStep

----------------------------------------------------------------------------
(* The lock and the cached mode.                                             *)
ModeKept == LockHeld /\ ModeFresh

LEMMA ModeRests ==
    ASSUME GateShape, ModeKept, UNCHANGED <<cache, row, locked, caller, upload>>,
           now' \in {now, now + 1}
    PROVE  ModeKept'
  <1>1. now \in Nat /\ now' \in Nat /\ now' >= now
    BY BoundsAreNat DEF GateShape
  <1>2. \A k \in 0..now : k \in 0..now'
    BY <1>1
  <1> QED  BY <1>2 DEF ModeKept, LockHeld, ModeFresh, Invalidating

LEMMA ModeStart ==
    ASSUME StartApi
    PROVE  ModeKept'
  <1>1. cache'.mode = "none" /\ \A c \in Callers : caller'[c].stage = "idle"
    BY DEF StartApi, NoCache, Gone
  <1> QED  BY <1>1 DEF ModeKept, LockHeld, ModeFresh

(* An upload that commits the row, or has not come that far.                 *)
LEMMA ModeUpload ==
    ASSUME GateShape, ModeKept, NEW u \in Uploads, NEW r, upload' = [upload EXCEPT ![u] = r],
           UNCHANGED <<cache, locked, caller, now>>, upload[u].stage # "invalidate",
           row' = row \/ r.stage = "invalidate"
    PROVE  ModeKept'
  <1>1. upload'[u] = r /\ \A v \in Uploads : v # u => upload'[v] = upload[v]
    BY UploadMoves
  <1>2. Invalidating => Invalidating'
    BY <1>1 DEF Invalidating
  <1>3. row' = row \/ Invalidating'
    BY <1>1 DEF Invalidating
  <1> QED  BY <1>2, <1>3 DEF ModeKept, LockHeld, ModeFresh, Invalidating

LEMMA ModeDropped ==
    ASSUME ModeKept, NEW u \in Uploads, UploadInvalidate(u)
    PROVE  ModeKept'
  <1>1. ~locked /\ cache'.mode = "none" /\ caller' = caller
    BY DEF UploadInvalidate, MayInvalidate, NoCache
  <1>2. \A c \in Callers : caller'[c].stage # "caching"
    BY <1>1 DEF ModeKept, LockHeld
  <1> QED  BY <1>1, <1>2 DEF ModeKept, LockHeld, ModeFresh

LEMMA ModeCaller ==
    ASSUME GateShape, ModeKept, NEW c \in Callers, NEW r, caller' = [caller EXCEPT ![c] = r],
           UNCHANGED <<cache, row, locked, upload, now>>,
           caller[c].stage # "caching", r.stage # "caching"
    PROVE  ModeKept'
  <1>1. \A d \in Callers : caller'[d].stage = "caching" => caller'[d] = caller[d]
    BY CallerMoves
  <1> QED  BY <1>1 DEF ModeKept, LockHeld, ModeFresh, Invalidating

LEMMA ModeRead ==
    ASSUME GateShape, ModeKept, NEW c \in Callers, LicenseRead(c)
    PROVE  ModeKept'
  <1>1. ~locked /\ locked' /\ UNCHANGED <<cache, row, upload, now>> /\ caller[c].stage = "license"
    BY DEF LicenseRead
  <1>2. row.mode \in GateModes
    BY <1>1 DEF GateShape, GateTypeOK, GateModes
  <1>3. caller'[c] = [stage |-> "caching", kind |-> caller[c].kind, mode |-> row.mode, began |-> now]
    BY <1>2, CallerMoves DEF LicenseRead, GateModes
  <1>4. \A d \in Callers : d # c => caller'[d].stage # "caching"
    BY <1>1, CallerMoves DEF LicenseRead, ModeKept, LockHeld
  <1>5. now \in 0..now
    BY BoundsAreNat DEF GateShape
  <1> QED  BY <1>1, <1>2, <1>3, <1>4, <1>5 DEF ModeKept, LockHeld, ModeFresh, Invalidating

LEMMA ModeStored ==
    ASSUME GateShape, ModeKept, NEW c \in Callers, LicenseStore(c)
    PROVE  ModeKept'
  <1>1. UNCHANGED <<row, upload, now>> /\ caller[c].stage = "caching" /\ cache'.mode = caller[c].mode
    BY DEF LicenseStore
  <1>2. caller[c].mode = row.mode \/ Invalidating
    BY <1>1 DEF ModeKept, LockHeld
  <1>3. caller'[c].stage # "caching"
    BY CallerMoves DEF LicenseStore, Judge, Gone
  <1>4. \A d \in Callers : d # c => caller'[d] = caller[d]
    BY CallerMoves DEF LicenseStore, Judge
  <1>5. \A d \in Callers : caller'[d].stage # "caching"
    BY <1>1, <1>3, <1>4 DEF ModeKept, LockHeld
  <1> QED  BY <1>1, <1>2, <1>5 DEF ModeKept, LockHeld, ModeFresh, Invalidating

----------------------------------------------------------------------------
(* One step of the gate.                                                     *)
LEMMA UploadKeeps ==
    ASSUME GateIInv, NEW u \in Uploads,
           UploadVerify(u) \/ UploadRow(u) \/ UploadInvalidate(u) \/ \E f \in Files : UploadFile(u, f)
    PROVE  GateIInv'
  <1> USE DEF GateIInv
  <1>1. HitsInStep'
    BY HitsRest DEF UploadVerify, UploadRow, UploadInvalidate, UploadFile
  <1>2. upload[u].stage \notin {"idle", "done"} => starts > 0
    BY DEF GateShape, Uploading
  <1>3. starts > 0 => row.mode \in GateModes
    BY DEF GateShape, GateTypeOK, GateModes
  <1>4. file \in {"absent"} \union Files /\ crossed \in BOOLEAN
    BY DEF GateShape, GateTypeOK
  <1>5. CASE UploadVerify(u)
    <2> DEFINE r == [stage |-> "row", state |-> VerifyLicense(file)]
    <2>1. /\ upload[u].stage = "verify" /\ upload' = [upload EXCEPT ![u] = r]
          /\ UNCHANGED <<file, row, cache, locked, hits, caller, now, starts, crossed>>
      BY <1>5 DEF UploadVerify
    <2>2. r.stage = "row" /\ r.state.mode \in GateModes
      BY VerdictFacts
    <2> HIDE DEF r
    <2>3. GateShape'
      BY <1>2, <1>3, <1>4, <2>1, <2>2, ShapeUpload
    <2>4. ModeKept'
      BY <2>1, ModeUpload DEF ModeKept
    <2> QED  BY <1>1, <1>5, <2>3, <2>4, RowVerify DEF ModeKept
  <1>6. CASE UploadRow(u)
    <2> DEFINE r == [stage |-> "invalidate"]
    <2>1. /\ upload[u].stage = "row" /\ upload' = [upload EXCEPT ![u] = r] /\ row' = upload[u].state
          /\ UNCHANGED <<file, cache, locked, hits, caller, now, starts, crossed>>
      BY <1>6 DEF UploadRow
    <2>2. r.stage = "invalidate" /\ row'.mode \in GateModes
      BY <2>1 DEF GateShape
    <2> HIDE DEF r
    <2>3. GateShape'
      BY <1>2, <1>4, <2>1, <2>2, ShapeUpload
    <2>4. ModeKept'
      BY <2>1, <2>2, ModeUpload DEF ModeKept
    <2> QED  BY <1>1, <1>6, <2>3, <2>4, RowCommit DEF ModeKept
  <1>7. CASE UploadInvalidate(u)
    <2> DEFINE r == [stage |-> "done"]
    <2>1. /\ upload[u].stage = "invalidate" /\ upload' = [upload EXCEPT ![u] = r] /\ cache' = NoCache
          /\ UNCHANGED <<file, row, locked, hits, caller, now, starts, crossed>>
      BY <1>7 DEF UploadInvalidate
    <2>2. r.stage = "done"
      OBVIOUS
    <2> HIDE DEF r
    <2>3. GateShape'
      BY <1>2, <1>3, <1>4, <2>1, <2>2, ShapeUpload
    <2>4. ModeKept'
      BY <1>7, ModeDropped DEF ModeKept
    <2> QED  BY <1>1, <1>7, <2>3, <2>4, RowDone DEF ModeKept
  <1>8. ASSUME NEW f \in Files, UploadFile(u, f) PROVE GateIInv'
    <2> DEFINE r == [stage |-> "verify"]
    <2>1. /\ upload[u].stage = "idle" /\ upload' = [upload EXCEPT ![u] = r] /\ starts > 0
          /\ UNCHANGED <<row, cache, locked, hits, caller, now, starts>> /\ file' = f
      BY <1>8 DEF UploadFile
    <2>2. crossed' \in BOOLEAN
      BY <1>8 DEF UploadFile
    <2>3. r.stage = "verify"
      OBVIOUS
    <2> HIDE DEF r
    <2>4. GateShape'
      BY <1>3, <2>1, <2>2, <2>3, ShapeUpload
    <2>5. ModeKept'
      BY <2>1, ModeUpload DEF ModeKept
    <2> QED  BY <1>1, <1>8, <2>4, <2>5, RowUpload DEF ModeKept
  <1> QED  BY <1>5, <1>6, <1>7, <1>8

(* The steps of a request that leave the limiter and the cache alone.        *)
LEMMA CallerPasses ==
    ASSUME GateIInv, NEW c \in Callers, NEW r, caller' = [caller EXCEPT ![c] = r],
           UNCHANGED <<file, row, cache, locked, hits, admitted, upload, now, starts, crossed>>,
           starts > 0, caller[c].stage # "caching", r.stage # "caching"
    PROVE  GateIInv'
  <1> USE DEF GateIInv
  <1>1. GateShape'
    <2>1. /\ locked' \in BOOLEAN /\ cache'.mode \in {"none"} \union GateModes
          /\ cache'.until \in 0..(MaxNow + CacheTtl)
          /\ hits' \subseteq Hits /\ Cardinality(hits') <= RateLimit /\ \A h \in hits' : h.at <= now
      BY DEF GateShape, GateTypeOK, GateModes
    <2> QED  BY <2>1, ShapeCaller
  <1>2. ModeKept'
    BY ModeCaller DEF ModeKept
  <1>3. RowInStep' /\ HitsInStep'
    BY RowRests, HitsRest
  <1> QED  BY <1>1, <1>2, <1>3 DEF ModeKept

LEMMA RequestKeeps ==
    ASSUME GateIInv, NEW c \in Callers,
           \/ \E k \in Kinds : Authenticate(c, k)
           \/ LicenseSkipped(c) \/ LicenseCached(c) \/ LicenseRead(c) \/ LicenseStore(c)
           \/ RateAdmits(c) \/ RateRefuses(c) \/ Handled(c)
    PROVE  GateIInv'
  <1> USE DEF GateIInv
  <1>1. caller[c].stage # "idle" => starts > 0
    BY DEF GateShape
  <1>2. /\ locked \in BOOLEAN /\ cache.mode \in {"none"} \union GateModes
        /\ cache.until \in 0..(MaxNow + CacheTtl)
        /\ hits \subseteq Hits /\ Cardinality(hits) <= RateLimit /\ \A h \in hits : h.at <= now
    BY DEF GateShape, GateTypeOK, GateModes
  <1>3. ASSUME NEW k \in Kinds, Authenticate(c, k) PROVE GateIInv'
    <2> DEFINE r == [stage |-> "license", kind |-> k]
    <2>1. /\ caller' = [caller EXCEPT ![c] = r] /\ starts > 0 /\ caller[c].stage = "idle"
          /\ UNCHANGED <<file, row, cache, locked, hits, admitted, upload, now, starts, crossed>>
      BY <1>3 DEF Authenticate
    <2>2. r.stage # "caching"
      OBVIOUS
    <2> HIDE DEF r
    <2> QED  BY <2>1, <2>2, CallerPasses
  <1>4. CASE LicenseSkipped(c)
    <2> DEFINE r == [stage |-> "rate", kind |-> caller[c].kind]
    <2>1. /\ caller' = [caller EXCEPT ![c] = r] /\ caller[c].stage = "license"
          /\ UNCHANGED <<file, row, cache, locked, hits, admitted, upload, now, starts, crossed>>
      BY <1>4 DEF LicenseSkipped
    <2>2. r.stage # "caching"
      OBVIOUS
    <2> HIDE DEF r
    <2> QED  BY <1>1, <2>1, <2>2, CallerPasses
  <1>5. CASE LicenseCached(c)
    <2> DEFINE r == IF Refuses(cache.mode, caller[c].kind) THEN Gone
                    ELSE [stage |-> "rate", kind |-> caller[c].kind]
    <2>1. /\ caller' = [caller EXCEPT ![c] = r] /\ caller[c].stage = "license"
          /\ UNCHANGED <<file, row, cache, locked, hits, admitted, upload, now, starts, crossed>>
      BY <1>5 DEF LicenseCached, Judge
    <2>2. r.stage # "caching"
      BY DEF Gone
    <2> HIDE DEF r
    <2> QED  BY <1>1, <2>1, <2>2, CallerPasses
  <1>6. CASE LicenseRead(c)
    <2> DEFINE r == [stage |-> "caching", kind |-> caller[c].kind,
                     mode |-> IF row.mode = "none" THEN "trial" ELSE row.mode, began |-> now]
    <2>1. /\ caller' = [caller EXCEPT ![c] = r] /\ caller[c].stage = "license" /\ locked' = TRUE
          /\ UNCHANGED <<file, row, cache, hits, admitted, upload, now, starts, crossed>>
      BY <1>6 DEF LicenseRead
    <2> HIDE DEF r
    <2>2. GateShape'
      BY <1>1, <1>2, <2>1, ShapeCaller
    <2>3. ModeKept'
      BY <1>6, ModeRead DEF ModeKept
    <2> QED  BY <2>1, <2>2, <2>3, RowRests, HitsRest DEF ModeKept
  <1>7. CASE LicenseStore(c)
    <2> DEFINE r == IF Refuses(caller[c].mode, caller[c].kind) THEN Gone
                    ELSE [stage |-> "rate", kind |-> caller[c].kind]
    <2>1. /\ caller' = [caller EXCEPT ![c] = r] /\ caller[c].stage = "caching" /\ locked' = FALSE
          /\ cache' = [mode |-> caller[c].mode, until |-> caller[c].began + CacheTtl]
          /\ UNCHANGED <<file, row, hits, admitted, upload, now, starts, crossed>>
      BY <1>7 DEF LicenseStore, Judge
    <2>2. caller[c].began \in 0..now /\ caller[c].mode \in GateModes
      BY <2>1 DEF LockHeld
    <2>3. cache'.until \in 0..(MaxNow + CacheTtl) /\ cache'.mode \in GateModes
      <3>1. cache'.until = caller[c].began + CacheTtl /\ cache'.mode = caller[c].mode
        BY <2>1
      <3>2. now \in 0..MaxNow
        BY DEF GateShape
      <3> QED  BY <2>2, <3>1, <3>2, BoundsAreNat
    <2> HIDE DEF r
    <2>4. GateShape'
      BY <1>1, <1>2, <2>1, <2>3, ShapeCaller
    <2>5. ModeKept'
      BY <1>7, ModeStored DEF ModeKept
    <2> QED  BY <2>1, <2>4, <2>5, RowRests, HitsRest DEF ModeKept
  <1>8. CASE RateAdmits(c)
    <2> DEFINE r == [stage |-> "handle", kind |-> caller[c].kind]
    <2>1. /\ caller' = [caller EXCEPT ![c] = r] /\ caller[c].stage = "rate"
          /\ UNCHANGED <<file, row, cache, locked, upload, now, starts, crossed>>
      BY <1>8 DEF RateAdmits
    <2>2. r.stage # "caching"
      OBVIOUS
    <2> HIDE DEF r
    <2>3. HitsInStep' /\ hits' \subseteq Hits /\ Cardinality(hits') <= RateLimit /\ \A h \in hits' : h.at <= now
      BY <1>8, HitsAdmit
    <2>4. GateShape'
      BY <1>1, <1>2, <2>1, <2>3, ShapeCaller
    <2>5. ModeKept'
      BY <2>1, <2>2, ModeCaller DEF ModeKept
    <2> QED  BY <2>1, <2>3, <2>4, <2>5, RowRests DEF ModeKept
  <1>9. CASE RateRefuses(c)
    <2>1. /\ caller' = [caller EXCEPT ![c] = Gone] /\ caller[c].stage = "rate"
          /\ UNCHANGED <<file, row, cache, locked, upload, now, starts, crossed>>
      BY <1>9 DEF RateRefuses
    <2>2. Gone.stage # "caching"
      BY DEF Gone
    <2>3. HitsInStep' /\ hits' \subseteq Hits /\ Cardinality(hits') <= RateLimit /\ \A h \in hits' : h.at <= now
      BY <1>9, HitsRefuse
    <2>4. GateShape'
      BY <1>1, <1>2, <2>1, <2>3, ShapeCaller
    <2>5. ModeKept'
      BY <2>1, <2>2, ModeCaller DEF ModeKept
    <2> QED  BY <2>1, <2>3, <2>4, <2>5, RowRests DEF ModeKept
  <1>10. CASE Handled(c)
    <2>1. /\ caller' = [caller EXCEPT ![c] = Gone] /\ caller[c].stage = "handle"
          /\ UNCHANGED <<file, row, cache, locked, hits, admitted, upload, now, starts, crossed>>
      BY <1>10 DEF Handled
    <2>2. Gone.stage # "caching"
      BY DEF Gone
    <2> QED  BY <1>1, <2>1, <2>2, CallerPasses
  <1> QED  BY <1>3, <1>4, <1>5, <1>6, <1>7, <1>8, <1>9, <1>10

LEMMA GateKeeps ==
    ASSUME GateIInv, [GateNext]_gateVars
    PROVE  GateIInv'
  <1>1. CASE StartApi
    <2>1. GateShape' /\ ModeKept' /\ RowInStep' /\ HitsInStep'
      BY <1>1, ShapeStart, ModeStart, RowStart, HitsStart DEF GateIInv
    <2> QED  BY <2>1 DEF GateIInv, ModeKept
  <1>2. CASE TimePasses
    <2>1. GateShape' /\ HitsInStep'
      BY <1>2, ShapeClock, HitsClock DEF GateIInv
    <2>2. ModeKept' /\ RowInStep'
      BY <1>2, ModeRests, RowRests DEF GateIInv, ModeKept, TimePasses
    <2> QED  BY <2>1, <2>2 DEF GateIInv, ModeKept
  <1>3. ASSUME NEW b \in BOOLEAN, PutSystemSettings(b) PROVE GateIInv'
    <2>1. GateShape'
      BY <1>3, ShapeSettings DEF GateIInv
    <2>2. ModeKept' /\ RowInStep' /\ HitsInStep'
      BY <1>3, ModeRests, RowRests, HitsRest DEF GateIInv, ModeKept, PutSystemSettings
    <2> QED  BY <2>1, <2>2 DEF GateIInv, ModeKept
  <1>4. CASE UNCHANGED gateVars
    BY <1>4 DEF gateVars, GateIInv, GateShape, GateTypeOK, Uploading, LockHeld, Invalidating,
       ModeFresh, RowInStep, HitsInStep, Kept, Recent
  <1> QED  BY <1>1, <1>2, <1>3, <1>4, UploadKeeps, RequestKeeps DEF GateNext

LEMMA GateFollows ==
    ASSUME GateIInv
    PROVE  GateInv
  <1>1. RateHolds
    BY WindowCounts DEF GateIInv
  <1>2. RowFollowsFile
    BY DEF GateIInv, RowInStep, RowFollowsFile
  <1> QED  BY <1>1, <1>2 DEF GateIInv, GateInv, GateShape

(* Whatever callers, uploads and bounds there are: the license mode a        *)
(* request is judged by is the row's unless an upload is about to drop it,   *)
(* the row follows the file unless uploads overlapped, and no window of the  *)
(* limiter holds more than the limit (services.py, admin.py).                *)
THEOREM GateIsSafe == GateSpec => []GateInv
  <1>1. GateSpec => []GateIInv
    BY InitGate, GateKeeps, PTL DEF GateSpec
  <1>2. GateIInv => GateInv
    BY GateFollows
  <1> QED  BY <1>1, <1>2, PTL
=============================================================================
