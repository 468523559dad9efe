------------------------------- MODULE AiCalls -------------------------------
(***************************************************************************)
(* The calls to the AI provider: the endpoints that make one, the gateway  *)
(* they all go through (DefaultAiGateway.complete with its egress check    *)
(* and its usage record), and the administrator who changes ai_configs and *)
(* its secret meanwhile.  A context is the set of the egress levels of its *)
(* items.                                                                  *)
(***************************************************************************)
EXTENDS Integers, FiniteSets

CONSTANTS AiRequests,   \* requests to an AI endpoint
          Admins,       \* administrators saving the configuration
          EgressLimits, \* values of max_auto_egress_level, at most 3
          MaxPuts       \* bound: saves of the configuration, and secrets

ASSUME AiBounds == EgressLimits \subseteq 0..3 /\ MaxPuts \in Nat

VARIABLES aiConf,   \* the row of ai_configs
          keyStore, \* the AI keys in the secret store
          put,      \* per administrator: the save under way
          puts,     \* [n, overlap]: saves so far, and whether two overlapped
          aiCall      \* per request

aiVars == <<aiConf, keyStore, put, puts, aiCall>>

Features == {"slow", "generate", "mapping", "trace", "attribution", "impact",
             "enrich", "fallback", "test"}
NoRow   == [on |-> FALSE, infer |-> FALSE, prov |-> "off", level |-> 0,
            l4 |-> TRUE, ref |-> 0]
NoPut   == [at |-> "none", drop |-> 0]
NoCall  == [at |-> "none", f |-> "test", extra |-> FALSE, seen |-> NoRow, attempt |-> 0,
            draft |-> FALSE, sent |-> {}, sends |-> 0, logged |-> 0, last |-> "none",
            audit |-> "none"]

AiInit ==
    /\ aiConf = NoRow /\ keyStore = {}
    /\ put = [a \in Admins |-> NoPut] /\ puts = [n |-> 0, overlap |-> FALSE]
    /\ aiCall = [k \in AiRequests |-> NoCall]

---------------------------------------------------------------------------
(* The administrator: put_admin_ai_config *)

Valid(b) == /\ b.on => b.prov # "off"
            /\ ~(b.key = "new" /\ b.clear)
            /\ b.l4

(* _update_ai_secret_ref: a key there is already is rotated in place.      *)
KeyRef(old, b) == IF b.clear THEN 0
                  ELSE IF b.key = "keep" \/ old # 0 THEN old ELSE puts.n + 1

(* The row is read and the secret written; the row is not locked.          *)
PutBegins(a, b) ==
    /\ put[a].at = "none" /\ puts.n < MaxPuts /\ Valid(b)
    /\ LET ref == KeyRef(aiConf.ref, b) IN
       /\ put' = [put EXCEPT ![a] = [at |-> "write", old |-> aiConf.ref, clear |-> b.clear,
                    row |-> [on |-> b.on, infer |-> b.infer, prov |-> b.prov,
                             level |-> b.level, l4 |-> b.l4, ref |-> ref]]]
       /\ keyStore' = IF b.key = "new" /\ aiConf.ref = 0 THEN keyStore \union {ref} ELSE keyStore
    /\ puts' = [n |-> puts.n + 1, overlap |-> puts.overlap \/ \E o \in Admins : put[o].at # "none"]
    /\ UNCHANGED <<aiConf, aiCall>>

Dropped(p) == IF p.clear /\ p.old # 0 THEN p.old ELSE 0

PutWrites(a) ==
    /\ put[a].at = "write"
    /\ aiConf' = put[a].row
    /\ put' = [put EXCEPT ![a] = IF Dropped(put[a]) = 0 THEN NoPut
                                 ELSE [at |-> "drop", drop |-> Dropped(put[a])]]
    /\ UNCHANGED <<keyStore, puts, aiCall>>

PutDrops(a) ==
    /\ put[a].at = "drop"
    /\ keyStore' = keyStore \ {put[a].drop}
    /\ put' = [put EXCEPT ![a] = NoPut]
    /\ UNCHANGED <<aiConf, puts, aiCall>>

---------------------------------------------------------------------------
(* A request *)

Set(k, c)  == aiCall' = [aiCall EXCEPT ![k] = c] /\ UNCHANGED <<aiConf, keyStore, put, puts>>
CallOver(c, a) == [c EXCEPT !.at = "over", !.audit = a]

(* extra: a plan for slow, a candidate for generate, samples for mapping,  *)
(* archived SQL for trace.                                                 *)
AiBegin(k, f, extra) ==
    /\ aiCall[k].at = "none"
    /\ extra => f \in {"generate", "mapping", "trace"}
    /\ Set(k, [NoCall EXCEPT !.at = "reveal", !.f = f, !.extra = extra, !.seen = aiConf])

Enabled(c) == /\ c.seen.on
              /\ c.f = "test" \/ c.seen.infer
              /\ c.f = "trace" \/ c.seen.prov # "off"

(* _ai_runtime_config: a key that is gone raises; three endpoints audit it.*)
AiRevealFails(k) ==
    /\ aiCall[k].at = "reveal" /\ aiCall[k].seen.ref \notin keyStore \union {0}
    /\ Set(k, CallOver(aiCall[k], IF aiCall[k].f \in {"attribution", "fallback", "impact"}
                            THEN "failed" ELSE "none"))

(* Disabled, or samples asked for without the administrator's consent.     *)
AiReveal(k) ==
    LET c == aiCall[k] IN
    /\ c.at = "reveal" /\ c.seen.ref \in keyStore \union {0}
    /\ IF ~Enabled(c)
       THEN Set(k, CallOver(c, IF c.f \in {"trace", "test"} THEN "none" ELSE "skipped"))
       ELSE IF c.f = "mapping" /\ c.extra /\ c.seen.l4
       THEN Set(k, CallOver(c, "skipped"))
       ELSE Set(k, [c EXCEPT !.at = "send", !.attempt = 1])

(* What an endpoint may find before it calls, and the audit entry it then   *)
(* writes: an ambiguous table name, no column left to map, no lineage for  *)
(* the hop (or a hop that needs no AI), a run without SQL, no statement    *)
(* that failed.                                                            *)
GenerateLocal == "failed"
MappingLocal  == "success"
TraceLocal    == "failed"
EnrichLocal   == "skipped"
FallbackLocal == "skipped"
LocalEnd == [generate |-> GenerateLocal, mapping |-> MappingLocal, trace |-> TraceLocal,
             enrich |-> EnrichLocal, fallback |-> FallbackLocal]

AiEndsLocally(k) ==
    /\ aiCall[k].at = "send" /\ aiCall[k].attempt = 1 /\ aiCall[k].f \in DOMAIN LocalEnd
    /\ Set(k, CallOver(aiCall[k], LocalEnd[aiCall[k].f]))

(* The context of each endpoint.  Masked SQL, table statistics, baseline   *)
(* and plan:                                                               *)
SlowContext == {1, 2, 3}
(* the schema of the confirmed tables, the candidate under revision; the   *)
(* repair takes the rejected answer along:                                 *)
GenerateContext(c) == {2} \union (IF c.extra \/ c.draft THEN {3} ELSE {})
(* the residual columns and the mapping history; sample rows:              *)
MappingContext(c) == {2} \union (IF c.extra THEN {4} ELSE {})
(* the edges of the hop; the archived SQL.  Key values are filled in later *)
TraceContext(c) == {2} \union (IF c.extra THEN {3} ELSE {})
(* aggregate profiles only:                                                *)
AttributionContext == {2}
ImpactContext      == {2}
EnrichContext      == {2}
(* the failed statements with their literals masked:                       *)
FallbackContext    == {2}

Context(c) ==
    CASE c.f = "slow"        -> SlowContext
      [] c.f = "generate"    -> GenerateContext(c)
      [] c.f = "mapping"     -> MappingContext(c)
      [] c.f = "trace"       -> TraceContext(c)
      [] c.f = "attribution" -> AttributionContext
      [] c.f = "impact"      -> ImpactContext
      [] c.f = "enrich"      -> EnrichContext
      [] c.f = "fallback"    -> FallbackContext
      [] c.f = "test"        -> {}

(* LevelEgressChecker.check of one item.                                   *)
Passes(level, conf) ==
    IF level = 5 THEN FALSE
    ELSE IF level = 4 THEN ~conf.l4
    ELSE level <= conf.level

\* Mutant of Cleared: the first item stands for the context.
ClearedFirst(c) == Context(c) = {} \/ Passes(CHOOSE l \in Context(c) : \A m \in Context(c) : l <= m, c.seen)

Cleared(c) == \A level \in Context(c) : Passes(level, c.seen)

(* complete: nothing is sent when one item is blocked.                     *)
AiSend(k) ==
    LET c == aiCall[k] IN
    /\ c.at = "send"
    /\ IF Cleared(c)
       THEN Set(k, [c EXCEPT !.at = "wait", !.sent = @ \union Context(c), !.sends = @ + 1])
       ELSE Set(k, CallOver([c EXCEPT !.last = "blocked"],
                        IF c.f = "test" THEN "success" ELSE "failed"))

(* What comes back.  post_json and _parse_chat_completion: an answer, an    *)
(* invalid response, a refusal (authentication, rate, timeout, network) or *)
(* an exception that is no AiGatewayError (a connection cut while the      *)
(* reply is read).                                                         *)
ProviderUsable  == {"good"}
Errors  == {"invalid", "refused"}
Replies == ProviderUsable \union Errors \union {"broken"}

(* An answer that does not pass: no SQL, unknown tables or columns, or     *)
(* ("write") SQL that is not read-only; a template without its placeholder *)
(* or with unknown identifiers; JSON without edges.                        *)
GenerateUnusable == {"bad", "write"}
TraceUnusable    == {"bad", "write"}
FallbackUnusable == {"bad"}
Unusable(f) == CASE f = "generate" -> GenerateUnusable
                 [] f = "trace"    -> TraceUnusable
                 [] f = "fallback" -> FallbackUnusable
                 [] OTHER          -> {}

ShouldRepair(c, r) == c.f = "generate" /\ c.attempt = 1 /\ r \in {"bad", "invalid"}

(* The audit entry of the end: the test of the configuration writes one    *)
(* entry whatever came.                                                    *)
Verdict(c, r) ==
    IF r = "broken" THEN "none"
    ELSE IF r \in ProviderUsable \/ c.f = "test" THEN "success" ELSE "failed"

AiReply(k, r) ==
    LET c == aiCall[k]
        d == [c EXCEPT !.last = r, !.logged = @ + (IF r \in ProviderUsable \union Unusable(c.f) THEN 1 ELSE 0)]
    IN
    /\ c.at = "wait" /\ r \in Replies \union Unusable(c.f)
    /\ IF ShouldRepair(c, r)
       THEN Set(k, [d EXCEPT !.at = "send", !.attempt = @ + 1, !.draft = @ \/ r = "bad"])
       ELSE Set(k, CallOver(d, Verdict(c, r)))

AiNext ==
    \/ \E a \in Admins : PutWrites(a) \/ PutDrops(a)
    \/ \E a \in Admins, on, infer, l4, clear \in BOOLEAN, prov \in {"off", "openai"},
          level \in EgressLimits, key \in {"keep", "new"} :
          PutBegins(a, [on |-> on, infer |-> infer, prov |-> prov, level |-> level,
                        l4 |-> l4, key |-> key, clear |-> clear])
    \/ \E k \in AiRequests : AiRevealFails(k) \/ AiReveal(k) \/ AiEndsLocally(k) \/ AiSend(k)
    \/ \E k \in AiRequests, f \in Features, extra \in BOOLEAN : AiBegin(k, f, extra)
    \/ \E k \in AiRequests, r \in Replies \union {"bad", "write"} :
          AiReply(k, r)

AiSpec == AiInit /\ [][AiNext]_aiVars

---------------------------------------------------------------------------
(* Properties *)

AiTypeOK ==
    /\ aiConf.level \in 0..3 /\ aiConf.ref \in 0..MaxPuts /\ keyStore \subseteq 1..MaxPuts
    /\ \A a \in Admins : put[a].at \in {"none", "write", "drop"}
    /\ \A k \in AiRequests :
          /\ aiCall[k].at \in {"none", "reveal", "send", "wait", "over"}
          /\ aiCall[k].attempt \in 0..2 /\ aiCall[k].sends \in 0..aiCall[k].attempt
          /\ aiCall[k].audit \in {"none", "success", "failed", "skipped"}

(* Whatever endpoint, attempt and repair: what was sent is allowed by the  *)
(* configuration the request began with.                                   *)
EgressHonored ==
    \A k \in AiRequests : \A level \in aiCall[k].sent : Passes(level, aiCall[k].seen)

(* No sequence of saves by administrators lets sample rows out: the switch *)
(* the 403 of ai-map-suggest asks for cannot be set.                       *)
NoSampleLeaves == \A k \in AiRequests : 4 \notin aiCall[k].sent

(* A request that called the provider ends with one audit entry that tells *)
(* success from failure, also after a repair, unless it broke off.         *)
OutcomeAudited ==
    \A k \in AiRequests :
        (aiCall[k].at = "over" /\ aiCall[k].sends > 0 /\ aiCall[k].f # "test" /\ aiCall[k].last # "broken")
            => aiCall[k].audit = (IF aiCall[k].last = "good" THEN "success" ELSE "failed")

(* Between saves the row's key is in the secret store, unless two saves    *)
(* overlapped: a rotation and a clearing of one key lose it.               *)
AiKeyPresent ==
    (~puts.overlap /\ \A a \in Admins : put[a].at = "none")
        => aiConf.ref \in keyStore \union {0}

(* No AI call leaves with more than the configuration it was made under     *)
(* allows, what it did is in the audit, and the provider's key is in the    *)
(* secret store unless two saves overlapped (put_admin_ai_config, the AI    *)
(* routes).                                                                 *)
AiInv ==
    /\ AiTypeOK
    /\ EgressHonored
    /\ NoSampleLeaves
    /\ OutcomeAudited
    /\ AiKeyPresent
=============================================================================
