---------------------------- MODULE StudioProofs ----------------------------
(* Theorems about services around the statements and the ways into them: the *)
(* calls to the AI provider (AiCalls), the compare tasks (CompareTasks), the *)
(* migration of a 1.x instance (MigrateV1) and the import of compare tasks   *)
(* (DidaImport).                                                             *)
(* AI calls: for any requests, administrators and saves of the configuration *)
(* what a call sends is allowed, its end is audited and the provider's key   *)
(* is there (AiInv).  That the key is there rests on what the saves under    *)
(* way will still write and drop, that the audit is right on how often a     *)
(* request has been sent.                                                    *)
(* Compare tasks: for any tasks, uploads, requests and runs a stored side    *)
(* can be run unless two patches overlapped, an upload a side names is       *)
(* registered, and a clone fails only over a name another request took       *)
(* (TasksInv).  It rests on what each request has read of its task.          *)
(* Migration: however often it is cut off and started again, references hold,*)
(* complete means complete, workflows come together (MigrateInv).  It rests  *)
(* on the first table: a run that gets past it has found the target empty.   *)
(* Import: starting over converges, the workflow runs one task for each table*)
(* (ImportInv).  It rests on what an applier has seen and done being there   *)
(* unless somebody deleted it, and on one that is alone making all that is   *)
(* new.                                                                      *)
EXTENDS AiCalls, CompareTasks, MigrateV1, DidaImport, FiniteSetTheorems, SequenceTheorems,
        WellFoundedInduction, TLAPS

----------------------------------------------------------------------------
(* The calls to the AI provider: the inductive invariant.                    *)
(* What the row of ai_configs and a request can hold; l4 never goes off.     *)
AiConfs == [on : BOOLEAN, infer : BOOLEAN, prov : {"off", "openai"}, level : 0..3,
            l4 : {TRUE}, ref : 0..MaxPuts]
Lasts == Replies \union {"none", "blocked", "bad", "write"}
Audits == {"none", "success", "failed", "skipped"}
AiCallSet == [at : {"none", "reveal", "send", "wait", "over"}, f : Features, extra : BOOLEAN,
              seen : AiConfs, attempt : 0..2, draft : BOOLEAN, sent : SUBSET (0..5),
              sends : 0..2, logged : Int, last : Lasts, audit : Audits]

(* A request has been sent as often as its attempts say at its place, within *)
(* what the configuration it began with allows, and its end is audited.      *)
CallSound(c) ==
    /\ c \in AiCallSet
    /\ c.at \in {"none", "reveal"} => c.sends = 0 /\ c.sent = {}
    /\ c.at = "send" => c.attempt = c.sends + 1
    /\ c.at = "wait" => c.attempt = c.sends
    /\ c.sends <= c.attempt
    /\ \A level \in c.sent : Passes(level, c.seen)
    /\ c.at = "over" /\ c.sends > 0 /\ c.f # "test" /\ c.last # "broken"
          => c.audit = (IF c.last = "good" THEN "success" ELSE "failed")

CallsSound ==
    /\ aiCall = [k \in AiRequests |-> aiCall[k]]
    /\ \A k \in AiRequests : CallSound(aiCall[k])

PutRests(a) == put[a].at = "none"

ConfShape ==
    /\ aiConf \in AiConfs /\ keyStore \subseteq 1..MaxPuts
    /\ puts \in [n : 0..MaxPuts, overlap : BOOLEAN]
    /\ put = [a \in Admins |-> put[a]]
    /\ \A a \in Admins : put[a].at \in {"none", "write", "drop"}
    /\ \A a \in Admins : put[a].at = "write" =>
          /\ put[a].row \in AiConfs /\ put[a].old \in 0..MaxPuts /\ put[a].clear \in BOOLEAN

(* As long as saves did not overlap: one at most is under way, it will write *)
(* a key that is there, and it drops one that the row has let go.            *)
KeyHeld ==
    ~puts.overlap =>
        /\ aiConf.ref \in keyStore \union {0}
        /\ \A a, b \in Admins : ~PutRests(a) /\ ~PutRests(b) => a = b
        /\ \A a \in Admins : put[a].at = "write" =>
              put[a].row.ref \in keyStore \union {0} /\ (put[a].clear => put[a].row.ref = 0)
        /\ \A a \in Admins : put[a].at = "drop" => aiConf.ref = 0

AiIInv == ConfShape /\ KeyHeld /\ CallsSound

----------------------------------------------------------------------------
(* Requests.                                                                 *)
LEMMA SetSound ==
    ASSUME AiIInv, NEW k \in AiRequests, NEW c, CallSound(c), Set(k, c)
    PROVE  AiIInv'
  <1>1. CallsSound'
    BY DEF AiIInv, CallsSound, Set
  <1>2. ConfShape' /\ KeyHeld'
    BY DEF AiIInv, ConfShape, KeyHeld, PutRests, Set
  <1> QED  BY <1>1, <1>2 DEF AiIInv

LEMMA NoRowConf == NoRow \in AiConfs
  BY AiBounds DEF AiConfs, NoRow

LEMMA NoCallSound == CallSound(NoCall) /\ NoCall \in AiCallSet
  <1>1. {} \in SUBSET (0..5) /\ "none" \in Lasts /\ "none" \in Audits /\ "test" \in Features
    BY DEF Lasts, Audits, Features
  <1>2. NoCall \in AiCallSet
    BY <1>1, NoRowConf DEF NoCall, AiCallSet
  <1>3. NoCall.at = "none" /\ NoCall.sends = 0 /\ NoCall.sent = {} /\ NoCall.attempt = 0
    BY DEF NoCall
  <1> QED  BY <1>2, <1>3 DEF CallSound

LEMMA BeginSound ==
    ASSUME NEW f \in Features, NEW extra \in BOOLEAN, NEW conf \in AiConfs
    PROVE  CallSound([NoCall EXCEPT !.at = "reveal", !.f = f, !.extra = extra, !.seen = conf])
  <1> DEFINE d == [NoCall EXCEPT !.at = "reveal", !.f = f, !.extra = extra, !.seen = conf]
  <1>1. d \in AiCallSet
    BY NoCallSound DEF AiCallSet
  <1>2. d.at = "reveal" /\ d.sends = 0 /\ d.sent = {} /\ d.attempt = 0
    BY DEF NoCall
  <1> HIDE DEF d
  <1>3. CallSound(d)
    BY <1>1, <1>2 DEF CallSound
  <1> QED  BY <1>3 DEF d

(* A call that ends without having been sent, or with the audit of its end.  *)
LEMMA OverSound ==
    ASSUME NEW c, CallSound(c), NEW a \in Audits,
           c.sends > 0 /\ c.f # "test" /\ c.last # "broken"
              => a = (IF c.last = "good" THEN "success" ELSE "failed")
    PROVE  CallSound(CallOver(c, a))
  <1> DEFINE d == CallOver(c, a)
  <1>1. /\ d \in AiCallSet /\ d.at = "over" /\ d.audit = a
        /\ d.f = c.f /\ d.seen = c.seen /\ d.attempt = c.attempt /\ d.sent = c.sent
        /\ d.sends = c.sends /\ d.last = c.last
    BY DEF CallSound, CallOver, AiCallSet
  <1> HIDE DEF d
  <1>2. CallSound(d)
    BY <1>1 DEF CallSound
  <1> QED  BY <1>2 DEF d

LEMMA RevealSound ==
    ASSUME NEW c, CallSound(c), c.at = "reveal"
    PROVE  CallSound([c EXCEPT !.at = "send", !.attempt = 1])
  <1> DEFINE d == [c EXCEPT !.at = "send", !.attempt = 1]
  <1>0. c \in AiCallSet /\ 1 \in 0..2
    BY DEF CallSound
  <1>1. /\ d \in AiCallSet /\ d.at = "send" /\ d.attempt = 1
        /\ d.seen = c.seen /\ d.sent = c.sent /\ d.sends = c.sends
    BY <1>0 DEF AiCallSet
  <1> HIDE DEF d
  <1>2. CallSound(d)
    BY <1>1 DEF CallSound
  <1> QED  BY <1>2 DEF d

LEMMA ContextLevels ==
    ASSUME NEW c \in AiCallSet
    PROVE  Context(c) \subseteq 0..5
  <1>1. c.f \in Features
    BY DEF AiCallSet
  <1> QED
    BY <1>1 DEF Context, Features, SlowContext, GenerateContext, MappingContext, TraceContext,
       AttributionContext, ImpactContext, EnrichContext, FallbackContext

LEMMA SentSound ==
    ASSUME NEW c, CallSound(c), c.at = "send", Cleared(c)
    PROVE  CallSound([c EXCEPT !.at = "wait", !.sent = @ \union Context(c), !.sends = @ + 1])
  <1> DEFINE d == [c EXCEPT !.at = "wait", !.sent = @ \union Context(c), !.sends = @ + 1]
             ctx == Context(c)
  <1>1. ctx \subseteq 0..5
    BY ContextLevels DEF CallSound
  <1>2. \A level \in ctx : Passes(level, c.seen)
    BY DEF Cleared
  <1> HIDE DEF ctx
  <1>3. c \in AiCallSet /\ c.attempt = c.sends + 1
    BY DEF CallSound
  <1>4. c.sends + 1 \in 0..2
    BY <1>3 DEF AiCallSet
  <1>5. c.sent \union ctx \in SUBSET (0..5)
    BY <1>1, <1>3 DEF AiCallSet
  <1>6. d = [c EXCEPT !.at = "wait", !.sent = c.sent \union ctx, !.sends = c.sends + 1]
    BY <1>3 DEF AiCallSet, ctx
  <1>7. /\ d \in AiCallSet /\ d.at = "wait" /\ d.sends = c.sends + 1 /\ d.attempt = c.attempt
        /\ d.seen = c.seen /\ d.sent = c.sent \union ctx
    BY <1>3, <1>4, <1>5, <1>6 DEF AiCallSet
  <1> HIDE DEF d
  <1>8. CallSound(d)
    BY <1>2, <1>3, <1>4, <1>7 DEF CallSound
  <1> QED  BY <1>8 DEF d, ctx

LEMMA BlockedSound ==
    ASSUME NEW c, CallSound(c), c.at = "send"
    PROVE  CallSound(CallOver([c EXCEPT !.last = "blocked"], IF c.f = "test" THEN "success" ELSE "failed"))
  <1> DEFINE d == [c EXCEPT !.last = "blocked"]
  <1>1. /\ d \in AiCallSet /\ d.at = "send" /\ d.last = "blocked" /\ d.f = c.f
        /\ d.seen = c.seen /\ d.sent = c.sent /\ d.sends = c.sends /\ d.attempt = c.attempt
    BY DEF CallSound, AiCallSet, Lasts
  <1> HIDE DEF d
  <1>2. CallSound(d)
    BY <1>1 DEF CallSound
  <1>3. CallSound(CallOver(d, IF c.f = "test" THEN "success" ELSE "failed"))
    BY <1>1, <1>2, OverSound DEF Audits
  <1> QED  BY <1>3 DEF d

LEMMA ReplySound ==
    ASSUME AiIInv, NEW k \in AiRequests, NEW r, AiReply(k, r)
    PROVE  \E c : CallSound(c) /\ Set(k, c)
  <1> DEFINE c == aiCall[k]
             more == IF r \in ProviderUsable \union Unusable(c.f) THEN 1 ELSE 0
             lines == c.logged + more
             d == [c EXCEPT !.last = r, !.logged = lines]
  <1>1. CallSound(c) /\ c \in AiCallSet /\ c.at = "wait" /\ c.f \in Features
    BY DEF AiReply, AiIInv, CallsSound, CallSound, AiCallSet
  <1>2. r \in Lasts /\ r # "none" /\ r # "blocked"
    <2>1. r \in Replies \union Unusable(c.f)
      BY DEF AiReply
    <2> QED
      BY <1>1, <2>1 DEF Replies, Lasts, Unusable, GenerateUnusable, TraceUnusable, FallbackUnusable,
         ProviderUsable, Errors, Features
  <1>3. \/ ShouldRepair(c, r) /\ Set(k, [d EXCEPT !.at = "send", !.attempt = @ + 1, !.draft = @ \/ r = "bad"])
        \/ Set(k, CallOver(d, Verdict(c, r)))
    BY <1>1 DEF AiReply, AiCallSet
  <1>4. lines \in Int
    <2>1. more \in Int
      OBVIOUS
    <2> QED  BY <1>1, <2>1 DEF AiCallSet
  <1> HIDE DEF lines
  <1>5. /\ d \in AiCallSet /\ d.at = "wait" /\ d.last = r /\ d.f = c.f /\ d.draft \in BOOLEAN
        /\ d.seen = c.seen /\ d.sent = c.sent /\ d.sends = c.sends /\ d.attempt = c.attempt
    <2> HIDE DEF c
    <2> QED  BY <1>1, <1>2, <1>4 DEF AiCallSet
  <1> HIDE DEF c, d
  <1>6. CallSound(d)
    BY <1>1, <1>5 DEF CallSound
  <1>7. CASE Set(k, CallOver(d, Verdict(c, r)))
    <2>1. Verdict(c, r) \in Audits
      BY DEF Verdict, Audits
    <2>2. d.f # "test" /\ d.last # "broken" => Verdict(c, r) = (IF d.last = "good" THEN "success" ELSE "failed")
      BY <1>5 DEF Verdict, ProviderUsable
    <2> QED  BY <1>6, <1>7, <2>1, <2>2, OverSound
  <1>8. CASE ShouldRepair(c, r) /\ Set(k, [d EXCEPT !.at = "send", !.attempt = @ + 1, !.draft = @ \/ r = "bad"])
    <2> DEFINE b == d.draft \/ r = "bad"
               e == [d EXCEPT !.at = "send", !.attempt = @ + 1, !.draft = @ \/ r = "bad"]
    <2>1. b \in BOOLEAN /\ d.attempt = 1 /\ 2 \in 0..2
      BY <1>5, <1>8 DEF ShouldRepair
    <2> HIDE DEF b
    <2>2. e = [d EXCEPT !.at = "send", !.attempt = 2, !.draft = b]
      BY <1>5, <2>1 DEF b, AiCallSet
    <2>3. /\ e \in AiCallSet /\ e.at = "send" /\ e.attempt = 2
          /\ e.seen = d.seen /\ e.sent = d.sent /\ e.sends = d.sends
      BY <1>5, <2>1, <2>2 DEF AiCallSet
    <2> HIDE DEF e
    <2>4. CallSound(e)
      BY <1>5, <1>6, <2>1, <2>3 DEF CallSound
    <2> QED  BY <1>8, <2>4 DEF e
  <1> QED  BY <1>3, <1>7, <1>8

LEMMA RequestSound ==
    ASSUME AiIInv, NEW k \in AiRequests,
           \/ AiRevealFails(k) \/ AiReveal(k) \/ AiEndsLocally(k) \/ AiSend(k)
           \/ \E f \in Features, extra \in BOOLEAN : AiBegin(k, f, extra)
           \/ \E r \in Replies \union {"bad", "write"} : AiReply(k, r)
    PROVE  AiIInv'
  <1> SUFFICES \E c : CallSound(c) /\ Set(k, c)
    BY SetSound
  <1> DEFINE c == aiCall[k]
  <1>1. CallSound(c) /\ aiConf \in AiConfs /\ c.f \in Features
    BY DEF AiIInv, CallsSound, ConfShape, CallSound, AiCallSet
  <1>2. CASE AiRevealFails(k)
    <2> DEFINE a == IF c.f \in {"attribution", "fallback", "impact"} THEN "failed" ELSE "none"
    <2>1. Set(k, CallOver(c, a)) /\ c.at = "reveal" /\ a \in Audits
      BY <1>2 DEF AiRevealFails, Audits
    <2>2. ~(c.sends > 0)
      BY <1>1, <2>1 DEF CallSound
    <2> HIDE DEF a, c
    <2> QED  BY <1>1, <2>1, <2>2, OverSound
  <1>3. CASE AiReveal(k)
    <2>1. c.at = "reveal" /\ ~(c.sends > 0)
      BY <1>1, <1>3 DEF AiReveal, CallSound
    <2>2. \/ \E a \in Audits : Set(k, CallOver(c, a))
          \/ Set(k, [c EXCEPT !.at = "send", !.attempt = 1])
      BY <1>3 DEF AiReveal, Audits
    <2> HIDE DEF c
    <2> QED  BY <1>1, <2>1, <2>2, OverSound, RevealSound
  <1>4. CASE AiEndsLocally(k)
    <2>1. c.at = "send" /\ c.attempt = 1
      BY <1>4 DEF AiEndsLocally
    <2>2. ~(c.sends > 0)
      BY <1>1, <2>1 DEF CallSound, AiCallSet
    <2>3. \E a \in Audits : Set(k, CallOver(c, a))
      BY <1>4 DEF AiEndsLocally, LocalEnd, Audits, GenerateLocal, MappingLocal, TraceLocal, EnrichLocal, FallbackLocal
    <2> HIDE DEF c
    <2> QED  BY <1>1, <2>2, <2>3, OverSound
  <1>5. CASE AiSend(k)
    <2>1. /\ c.at = "send"
          /\ \/ Cleared(c) /\ Set(k, [c EXCEPT !.at = "wait", !.sent = @ \union Context(c), !.sends = @ + 1])
             \/ Set(k, CallOver([c EXCEPT !.last = "blocked"], IF c.f = "test" THEN "success" ELSE "failed"))
      BY <1>5 DEF AiSend
    <2> HIDE DEF c
    <2> QED  BY <1>1, <2>1, SentSound, BlockedSound
  <1>6. ASSUME NEW f \in Features, NEW extra \in BOOLEAN, AiBegin(k, f, extra)
        PROVE  \E d : CallSound(d) /\ Set(k, d)
    BY <1>1, <1>6, BeginSound DEF AiBegin
  <1>7. ASSUME NEW r, AiReply(k, r)
        PROVE  \E d : CallSound(d) /\ Set(k, d)
    BY <1>7, ReplySound
  <1> QED  BY <1>2, <1>3, <1>4, <1>5, <1>6, <1>7

----------------------------------------------------------------------------
(* Saves of the configuration.                                               *)
LEMMA PutMoves ==
    ASSUME ConfShape, NEW a \in Admins, NEW p, put' = [put EXCEPT ![a] = p]
    PROVE  /\ put'[a] = p
           /\ \A b \in Admins : b # a => put'[b] = put[b]
           /\ put' = [b \in Admins |-> put'[b]]
  BY DEF ConfShape

LEMMA CallsRest ==
    ASSUME CallsSound, aiCall' = aiCall
    PROVE  CallsSound'
  BY DEF CallsSound

LEMMA BeginsSound ==
    ASSUME AiIInv, NEW a \in Admins, NEW b, PutBegins(a, b), b.on \in BOOLEAN, b.infer \in BOOLEAN,
           b.prov \in {"off", "openai"}, b.level \in EgressLimits, b.l4 \in BOOLEAN, b.clear \in BOOLEAN,
           b.key \in {"keep", "new"}
    PROVE  AiIInv'
  <1> USE DEF AiIInv
  <1> DEFINE ref == KeyRef(aiConf.ref, b)
             row == [on |-> b.on, infer |-> b.infer, prov |-> b.prov, level |-> b.level,
                     l4 |-> b.l4, ref |-> ref]
             p == [at |-> "write", old |-> aiConf.ref, clear |-> b.clear, row |-> row]
  <1>1. aiConf.ref \in 0..MaxPuts /\ puts.n \in 0..MaxPuts /\ puts.n < MaxPuts /\ MaxPuts \in Nat
    BY AiBounds DEF ConfShape, AiConfs, PutBegins
  <1>2. ref \in 0..MaxPuts /\ (b.key = "new" /\ aiConf.ref = 0 => ref = puts.n + 1 /\ ref \in 1..MaxPuts)
    BY <1>1 DEF KeyRef, PutBegins, Valid
  <1>3. ref \in {0, aiConf.ref} \/ (b.key = "new" /\ aiConf.ref = 0)
    BY DEF KeyRef
  <1>4. b.clear => ref = 0
    BY DEF KeyRef
  <1> HIDE DEF ref
  <1>5. b.l4 /\ put[a].at = "none"
    BY DEF PutBegins, Valid
  <1>6. row \in AiConfs
    BY <1>2, <1>5, AiBounds DEF AiConfs
  <1>7. put' = [put EXCEPT ![a] = p] /\ aiConf' = aiConf /\ aiCall' = aiCall
    BY DEF PutBegins, ref
  <1>8. keyStore' = IF b.key = "new" /\ aiConf.ref = 0 THEN keyStore \union {ref} ELSE keyStore
    BY DEF PutBegins, ref
  <1>9. puts' = [n |-> puts.n + 1, overlap |-> puts.overlap \/ \E o \in Admins : put[o].at # "none"]
    BY DEF PutBegins
  <1>10. /\ p.at = "write" /\ p.old = aiConf.ref /\ p.clear = b.clear /\ p.row = row /\ p.row.ref = ref
    OBVIOUS
  <1> HIDE DEF p, row
  <1>11. /\ put'[a] = p /\ (\A o \in Admins : o # a => put'[o] = put[o])
         /\ put' = [o \in Admins |-> put'[o]]
    BY <1>7, PutMoves
  <1>12. ConfShape'
    <2>1. puts' \in [n : 0..MaxPuts, overlap : BOOLEAN]
      <3> DEFINE x == puts.overlap \/ \E o \in Admins : put[o].at # "none"
      <3>1. x \in BOOLEAN /\ puts' = [n |-> puts.n + 1, overlap |-> x]
        BY <1>9
      <3> HIDE DEF x
      <3> QED  BY <3>1, <1>1
    <2>2. keyStore' \subseteq 1..MaxPuts
      BY <1>2, <1>8 DEF ConfShape
    <2> QED  BY <1>1, <1>6, <1>7, <1>10, <1>11, <2>1, <2>2 DEF ConfShape
  <1>13. KeyHeld'
    <2> SUFFICES ASSUME ~puts'.overlap PROVE KeyHeld'
      BY DEF KeyHeld
    <2>1. ~puts.overlap /\ \A o \in Admins : put[o].at = "none"
      BY <1>9
    <2>2. aiConf.ref \in keyStore \union {0} /\ keyStore \subseteq keyStore'
      BY <1>8, <2>1 DEF KeyHeld
    <2>3. ref \in keyStore' \union {0}
      BY <1>3, <1>8, <2>2
    <2>4. \A o \in Admins : o # a => put'[o].at = "none"
      BY <1>11, <2>1
    <2> QED  BY <1>4, <1>7, <1>10, <1>11, <2>2, <2>3, <2>4 DEF KeyHeld, PutRests
  <1> QED  BY <1>7, <1>12, <1>13, CallsRest

LEMMA WritesSound ==
    ASSUME AiIInv, NEW a \in Admins, PutWrites(a)
    PROVE  AiIInv'
  <1> USE DEF AiIInv
  <1> DEFINE p == IF Dropped(put[a]) = 0 THEN NoPut ELSE [at |-> "drop", drop |-> Dropped(put[a])]
  <1>1. /\ put[a].at = "write" /\ aiConf' = put[a].row /\ put' = [put EXCEPT ![a] = p]
        /\ UNCHANGED <<keyStore, puts, aiCall>>
    BY DEF PutWrites
  <1>2. p.at \in {"none", "drop"} /\ (p.at = "drop" => put[a].clear)
    BY DEF Dropped, NoPut
  <1> HIDE DEF p
  <1>3. /\ put'[a] = p /\ (\A o \in Admins : o # a => put'[o] = put[o])
        /\ put' = [o \in Admins |-> put'[o]]
    BY <1>1, PutMoves
  <1>4. ConfShape'
    BY <1>1, <1>2, <1>3 DEF ConfShape
  <1>5. KeyHeld'
    <2> SUFFICES ASSUME ~puts.overlap PROVE KeyHeld'
      BY <1>1 DEF KeyHeld
    <2>1. \A o \in Admins : o # a => put[o].at = "none"
      BY <1>1 DEF KeyHeld, PutRests
    <2>2. put[a].row.ref \in keyStore \union {0} /\ (put[a].clear => put[a].row.ref = 0)
      BY <1>1 DEF KeyHeld
    <2> QED  BY <1>1, <1>2, <1>3, <2>1, <2>2 DEF KeyHeld, PutRests
  <1> QED  BY <1>1, <1>4, <1>5, CallsRest

LEMMA DropsSound ==
    ASSUME AiIInv, NEW a \in Admins, PutDrops(a)
    PROVE  AiIInv'
  <1> USE DEF AiIInv
  <1>1. /\ put[a].at = "drop" /\ keyStore' = keyStore \ {put[a].drop} /\ put' = [put EXCEPT ![a] = NoPut]
        /\ UNCHANGED <<aiConf, puts, aiCall>>
    BY DEF PutDrops
  <1>2. /\ put'[a].at = "none" /\ (\A o \in Admins : o # a => put'[o] = put[o])
        /\ put' = [o \in Admins |-> put'[o]]
    BY <1>1, PutMoves DEF NoPut
  <1>3. ConfShape'
    BY <1>1, <1>2 DEF ConfShape
  <1>4. KeyHeld'
    <2> SUFFICES ASSUME ~puts.overlap PROVE KeyHeld'
      BY <1>1 DEF KeyHeld
    <2>1. (\A o \in Admins : o # a => put[o].at = "none") /\ aiConf.ref = 0
      BY <1>1 DEF KeyHeld, PutRests
    <2> QED  BY <1>1, <1>2, <2>1 DEF KeyHeld, PutRests
  <1> QED  BY <1>1, <1>3, <1>4, CallsRest

----------------------------------------------------------------------------
LEMMA AiBegins == AiInit => AiIInv
  <1> SUFFICES ASSUME AiInit PROVE AiIInv
    OBVIOUS
  <1>1. CallsSound
    BY NoCallSound DEF AiInit, CallsSound
  <1>2. ConfShape
    <2>1. aiConf \in AiConfs /\ keyStore = {} /\ puts \in [n : 0..MaxPuts, overlap : BOOLEAN]
      BY NoRowConf, AiBounds DEF AiInit
    <2>2. put = [a \in Admins |-> put[a]] /\ \A a \in Admins : put[a].at = "none"
      BY DEF AiInit, NoPut
    <2> QED  BY <2>1, <2>2 DEF ConfShape
  <1>3. KeyHeld
    BY DEF AiInit, KeyHeld, PutRests, NoRow, NoPut
  <1> QED  BY <1>1, <1>2, <1>3 DEF AiIInv

LEMMA AiKept ==
    ASSUME AiIInv, [AiNext]_aiVars
    PROVE  AiIInv'
  <1>1. CASE UNCHANGED aiVars
    BY <1>1 DEF aiVars, AiIInv, ConfShape, KeyHeld, PutRests, CallsSound
  <1>2. CASE \E a \in Admins, on, infer, l4, clear \in BOOLEAN, prov \in {"off", "openai"},
               level \in EgressLimits, key \in {"keep", "new"} :
               PutBegins(a, [on |-> on, infer |-> infer, prov |-> prov, level |-> level,
                             l4 |-> l4, key |-> key, clear |-> clear])
    <2>1. PICK a \in Admins, on \in BOOLEAN, infer \in BOOLEAN, l4 \in BOOLEAN, clear \in BOOLEAN,
               prov \in {"off", "openai"}, level \in EgressLimits, key \in {"keep", "new"} :
               PutBegins(a, [on |-> on, infer |-> infer, prov |-> prov, level |-> level,
                             l4 |-> l4, key |-> key, clear |-> clear])
      BY <1>2
    <2> DEFINE b == [on |-> on, infer |-> infer, prov |-> prov, level |-> level,
                     l4 |-> l4, key |-> key, clear |-> clear]
    <2>2. /\ b.on \in BOOLEAN /\ b.infer \in BOOLEAN /\ b.prov \in {"off", "openai"} /\ b.level \in EgressLimits
          /\ b.l4 \in BOOLEAN /\ b.clear \in BOOLEAN /\ b.key \in {"keep", "new"}
      OBVIOUS
    <2>3. PutBegins(a, b)
      BY <2>1
    <2> HIDE DEF b
    <2> QED  BY <2>2, <2>3, BeginsSound
  <1>3. CASE \E a \in Admins : PutWrites(a) \/ PutDrops(a)
    BY <1>3, WritesSound, DropsSound
  <1>4. CASE \E k \in AiRequests : AiRevealFails(k) \/ AiReveal(k) \/ AiEndsLocally(k) \/ AiSend(k)
    BY <1>4, RequestSound
  <1>5. CASE \E k \in AiRequests, f \in Features, extra \in BOOLEAN : AiBegin(k, f, extra)
    BY <1>5, RequestSound
  <1>6. CASE \E k \in AiRequests, r \in Replies \union {"bad", "write"} : AiReply(k, r)
    BY <1>6, RequestSound
  <1> QED  BY <1>1, <1>2, <1>3, <1>4, <1>5, <1>6 DEF AiNext

LEMMA AiSafe ==
    ASSUME AiIInv
    PROVE  AiInv
  <1> USE DEF AiIInv
  <1>1. \A k \in AiRequests : CallSound(aiCall[k]) /\ aiCall[k] \in AiCallSet
    BY DEF CallsSound, CallSound
  <1>2. AiTypeOK
    <2>1. \A k \in AiRequests :
             /\ aiCall[k].at \in {"none", "reveal", "send", "wait", "over"}
             /\ aiCall[k].attempt \in 0..2 /\ aiCall[k].sends \in 0..aiCall[k].attempt
             /\ aiCall[k].audit \in {"none", "success", "failed", "skipped"}
      BY <1>1 DEF CallSound, AiCallSet, Audits
    <2> QED  BY <2>1 DEF AiTypeOK, ConfShape, AiConfs
  <1>3. EgressHonored /\ OutcomeAudited
    BY <1>1 DEF EgressHonored, OutcomeAudited, CallSound
  <1>4. NoSampleLeaves
    <2>1. \A k \in AiRequests : aiCall[k].seen.l4
      BY <1>1 DEF AiCallSet, AiConfs
    <2> QED  BY <1>3, <2>1 DEF NoSampleLeaves, EgressHonored, Passes
  <1>5. AiKeyPresent
    BY DEF AiKeyPresent, KeyHeld
  <1> QED  BY <1>2, <1>3, <1>4, <1>5 DEF AiInv

(* Whatever requests, administrators and saves there are: what a call sends  *)
(* is allowed by the configuration it began with and holds no sample rows,   *)
(* its end is audited, and the provider's key is there unless two saves      *)
(* overlapped (put_admin_ai_config, DefaultAiGateway.complete).              *)
THEOREM AiIsSafe == AiSpec => []AiInv
  <1>1. AiSpec => []AiIInv
    BY AiBegins, AiKept, PTL DEF AiSpec
  <1>2. AiIInv => AiInv
    BY AiSafe
  <1> QED  BY <1>1, <1>2, PTL

----------------------------------------------------------------------------
(* Compare tasks: the inductive invariant.                                   *)
Fits(side) == (side.kind = "table" => side.ds) /\ (side.kind = "result_snapshot" => ~side.ds)

(* A side's upload is registered.                                            *)
Backed(side, up) == side.kind = "file" => side.file \in UploadIds /\ up[side.file].row

(* A row, stored or read by a request: its side can be run unless two        *)
(* patches overlapped.                                                       *)
RowSound(row, up, rc) ==
    /\ row \in Task /\ RefIsValid(row.side) /\ Backed(row.side, up)
    /\ rc \/ Fits(row.side)

(* What a request has read and will write.                                   *)
HandlerSound(q, up, rc) ==
    /\ q.at \in {"ready", "over", "upload", "clone_name", "clone_insert", "clone_failed", "update", "run"}
    /\ q.at = "upload" => q.file \in UploadIds /\ up[q.file].file # "none"
    /\ q.at = "clone_name" => RowSound(q.row, up, rc) /\ Len(q.row.name) < MaxCopies
    /\ q.at = "clone_insert" => RowSound(q.row, up, rc) /\ q.name \in Names
    /\ q.at = "update" =>
          /\ q.id \in Tasks /\ RowSound(q.row, up, rc) /\ q.patch \in Patches
          /\ Fits(PatchedSide(q.row, q.patch)) /\ Backed(PatchedSide(q.row, q.patch), up)
    /\ q.at = "run" => q.id \in Tasks /\ RowSound(q.row, up, rc)

RunSound(r, up, rows) ==
    /\ r \in Run /\ Backed(r.side, up) /\ RefIsValid(r.side)
    /\ r.task # NoFile => rows[r.task] # NoTask
    /\ r.status = "failed" => r.side.kind = "file" /\ up[r.side.file].file = "collected"

TasksShape ==
    /\ task = [t \in Tasks |-> task[t]]
    /\ handler = [h \in Handlers |-> handler[h]]
    /\ run = [r \in CompareRuns |-> run[r]]
    /\ taken = [h \in Handlers |-> taken[h]]
    /\ upload \in [UploadIds -> Upload]
    /\ raced \in BOOLEAN

(* An upload that is registered has been stored; a temporary file stays      *)
(* behind for a collected one only.                                          *)
UploadsSound ==
    /\ \A u \in UploadIds : upload[u].row => upload[u].file # "none"
    /\ \A u \in temps : u \in UploadIds /\ upload[u].file = "collected"

(* The name a clone chose is free, or was taken since.                       *)
ClonesSound ==
    \A h \in Handlers :
        /\ handler[h].at = "clone_insert" => handler[h].name \notin UsedNames \/ handler[h].name \in taken[h]
        /\ handler[h].at = "clone_failed" => handler[h].name \in taken[h]

RowsSound == \A t \in Tasks : task[t] # NoTask => RowSound(task[t], upload, raced)
RequestsSound == \A h \in Handlers : HandlerSound(handler[h], upload, raced)
RunsSound == \A r \in CompareRuns : run[r] # NoRun => RunSound(run[r], upload, task)

TasksIInv == TasksShape /\ UploadsSound /\ ClonesSound /\ RowsSound /\ RequestsSound /\ RunsSound

----------------------------------------------------------------------------
(* The names of copies.                                                      *)
CopyNumbers == 1..(Cardinality(Tasks) + 1)

LEMMA LeastOfNat ==
    ASSUME NEW T, T \subseteq Nat, T # {}
    PROVE  \E k \in T : \A j \in T : k <= j
  <1>1. PICK k \in T : \A j \in T : <<j, k>> \notin OpToRel(<, Nat)
    BY NatLessThanWellFounded, WFMin, Zenon
  <1>2. \A j \in T : ~(j < k)
    BY <1>1, Zenon DEF OpToRel
  <1>3. \A j \in T : k <= j
    BY <1>2
  <1> QED  BY <1>3, Zenon

LEMMA TasksCounted == Cardinality(Tasks) \in Nat /\ IsFiniteSet(Tasks)
  BY CompareTasksBounds, FS_CardinalityType

LEMMA NamesAreSeqs ==
    ASSUME NEW name
    PROVE  name \in Names <=> name \in Seq(CopyNumbers) /\ Len(name) <= MaxCopies
  <1>1. MaxCopies \in Nat
    BY CompareTasksBounds
  <1>2. ASSUME name \in Names PROVE name \in Seq(CopyNumbers) /\ Len(name) <= MaxCopies
    <2>1. PICK n \in 0..MaxCopies : name \in [1..n -> CopyNumbers]
      BY <1>2 DEF Names, CopyNumbers
    <2>2. n \in Nat
      BY <1>1
    <2> QED  BY <2>1, <2>2, <1>1
  <1>3. ASSUME name \in Seq(CopyNumbers), Len(name) <= MaxCopies PROVE name \in Names
    <2>1. Len(name) \in 0..MaxCopies /\ name \in [1..Len(name) -> CopyNumbers]
      BY <1>1, <1>3
    <2> QED  BY <2>1 DEF Names, CopyNumbers
  <1> QED  BY <1>2, <1>3

LEMMA PlainName == <<>> \in Names
  <1>1. <<>> \in Seq(CopyNumbers) /\ Len(<<>>) = 0
    BY EmptySeq
  <1>2. 0 <= MaxCopies
    BY CompareTasksBounds
  <1> QED  BY <1>1, <1>2, NamesAreSeqs

LEMMA NoTaskIsNoRow == NoTask \notin Task
  <1>1. SUFFICES ASSUME NoTask \in Task PROVE FALSE
    OBVIOUS
  <1>2. "side" \in DOMAIN NoTask
    BY <1>1 DEF Task
  <1>3. DOMAIN NoTask = {"name"}
    BY DEF NoTask
  <1> QED  BY <1>2, <1>3

(* A clone finds a number: there are fewer rows than numbers.                *)
LEMMA CopyIsFree ==
    ASSUME TasksIInv, NEW base \in Names, Len(base) < MaxCopies
    PROVE  NextCopyName(base, UsedNames) \in Names \ UsedNames
  <1> DEFINE Free == {n \in CopyNumbers : CopyName(base, n) \notin UsedNames}
  <1>0. Cardinality(Tasks) \in Nat /\ IsFiniteSet(Tasks) /\ CopyNumbers \subseteq Nat
    BY TasksCounted DEF CopyNumbers
  <1>1. base \in Seq(CopyNumbers)
    BY NamesAreSeqs
  <1>2. Free # {}
    <2> SUFFICES ASSUME Free = {} PROVE FALSE
      OBVIOUS
    <2>1. \A n \in CopyNumbers : \E t \in Tasks : task[t].name = CopyName(base, n)
      <3> SUFFICES ASSUME NEW n \in CopyNumbers PROVE \E t \in Tasks : task[t].name = CopyName(base, n)
        OBVIOUS
      <3>1. CopyName(base, n) \in UsedNames
        OBVIOUS
      <3> QED  BY <3>1 DEF UsedNames
    <2> DEFINE f == [n \in CopyNumbers |-> CHOOSE t \in Tasks : task[t].name = CopyName(base, n)]
    <2>2. f \in [CopyNumbers -> Tasks] /\ \A n \in CopyNumbers : task[f[n]].name = CopyName(base, n)
      BY <2>1
    <2> HIDE DEF f
    <2>3. IsFiniteSet(CopyNumbers) /\ Cardinality(Tasks) < Cardinality(CopyNumbers)
      <3> DEFINE c == Cardinality(Tasks)
      <3>1. c \in Nat
        BY <1>0
      <3>2. CopyNumbers = 1..(c + 1)
        BY DEF CopyNumbers
      <3> HIDE DEF c
      <3>3. IsFiniteSet(1..(c + 1)) /\ Cardinality(1..(c + 1)) = c + 1
        BY <3>1, FS_Interval
      <3>4. c < c + 1
        BY <3>1
      <3>5. IsFiniteSet(CopyNumbers) /\ c < Cardinality(CopyNumbers)
        BY <3>2, <3>3, <3>4
      <3> QED  BY <3>5 DEF c
    <2>4. PICK x, y \in CopyNumbers : x # y /\ f[x] = f[y]
      BY <1>0, <2>2, <2>3, FS_PigeonHole
    <2>5. CopyName(base, x) = CopyName(base, y)
      BY <2>2, <2>4
    <2>6. Append(base, x) = Append(base, y)
      BY <2>5 DEF CopyName
    <2>7. x = y
      BY <1>1, <2>6, AppendInjective
    <2> QED  BY <2>4, <2>7
  <1>3. PICK n \in Free : \A k \in Free : n <= k
    BY <1>0, <1>2, LeastOfNat
  <1>4. \A k \in 1..(n - 1) : CopyName(base, k) \in UsedNames
    <2> SUFFICES ASSUME NEW k \in 1..(n - 1) PROVE CopyName(base, k) \in UsedNames
      OBVIOUS
    <2>1. k \in CopyNumbers /\ ~(n <= k)
      BY <1>0, <1>3 DEF CopyNumbers
    <2> QED  BY <1>3, <2>1
  <1> DEFINE m == CHOOSE i \in CopyNumbers : /\ CopyName(base, i) \notin UsedNames
                                             /\ \A k \in 1..(i - 1) : CopyName(base, k) \in UsedNames
  <1>5. m \in CopyNumbers /\ CopyName(base, m) \notin UsedNames
    BY <1>3, <1>4
  <1>6. NextCopyName(base, UsedNames) = CopyName(base, m)
    BY DEF NextCopyName, CopyNumbers
  <1> HIDE DEF m
  <1>7. CopyName(base, m) \in Names
    <2>1. Append(base, m) \in Seq(CopyNumbers) /\ Len(Append(base, m)) = Len(base) + 1
      BY <1>1, <1>5, AppendProperties
    <2>2. Len(base) + 1 <= MaxCopies
      BY <1>1, CompareTasksBounds
    <2> QED  BY <2>1, <2>2, NamesAreSeqs DEF CopyName
  <1> QED  BY <1>5, <1>6, <1>7

----------------------------------------------------------------------------
(* What a step leaves alone stays sound: uploads only go forward, and        *)
(* patches that overlapped are not forgotten.                                *)
Forward(a, b) ==
    \A u \in UploadIds :
        /\ a[u].row => b[u].row
        /\ a[u].file # "none" => b[u].file # "none"
        /\ a[u].file = "collected" => b[u].file = "collected"

LEMMA RowKept ==
    ASSUME NEW row, NEW a, NEW b, NEW p, NEW q, Forward(a, b), p => q, RowSound(row, a, p)
    PROVE  RowSound(row, b, q)
  BY DEF RowSound, Backed, Forward

LEMMA HandlerKept ==
    ASSUME NEW c, NEW a, NEW b, NEW p, NEW q, Forward(a, b), p => q, HandlerSound(c, a, p)
    PROVE  HandlerSound(c, b, q)
  <1>1. c.at \in {"clone_name", "clone_insert", "update", "run"} => RowSound(c.row, b, q)
    BY RowKept DEF HandlerSound
  <1>2. c.at = "update" => Backed(PatchedSide(c.row, c.patch), b)
    BY DEF HandlerSound, Backed, Forward
  <1>3. c.at = "upload" => b[c.file].file # "none"
    BY DEF HandlerSound, Forward
  <1> QED  BY <1>1, <1>2, <1>3 DEF HandlerSound

LEMMA RunKept ==
    ASSUME NEW r, NEW a, NEW b, NEW m, NEW n, Forward(a, b), RunSound(r, a, m),
           \A t \in Tasks : m[t] # NoTask => n[t] # NoTask
    PROVE  RunSound(r, b, n)
  <1>1. r.status = "failed" => b[r.side.file].file = "collected"
    BY DEF RunSound, Forward, Backed
  <1>2. r.task # NoFile => r.task \in Tasks
    BY DEF RunSound, Run
  <1> QED  BY <1>1, <1>2 DEF RunSound, Backed, Forward

LEMMA HandlerMoves ==
    ASSUME TasksShape, NEW h \in Handlers, NEW q, handler' = [handler EXCEPT ![h] = q]
    PROVE  /\ handler'[h] = q
           /\ \A k \in Handlers : k # h => handler'[k] = handler[k]
           /\ handler' = [k \in Handlers |-> handler'[k]]
  BY DEF TasksShape

LEMMA TaskMoves ==
    ASSUME TasksShape, NEW t \in Tasks, NEW row, task' = [task EXCEPT ![t] = row]
    PROVE  /\ task'[t] = row
           /\ \A k \in Tasks : k # t => task'[k] = task[k]
           /\ task' = [k \in Tasks |-> task'[k]]
  BY DEF TasksShape

(* A step that moves no row.                                                 *)
LEMMA RowsRest ==
    ASSUME RowsSound, Forward(upload, upload'), raced => raced', task' = task
    PROVE  RowsSound'
  BY RowKept DEF RowsSound

LEMMA RequestsMove ==
    ASSUME TasksShape, RequestsSound, Forward(upload, upload'), raced => raced',
           NEW h \in Handlers, NEW q, handler' = [handler EXCEPT ![h] = q],
           HandlerSound(q, upload', raced')
    PROVE  RequestsSound'
  BY HandlerMoves, HandlerKept DEF RequestsSound

LEMMA RequestsRest ==
    ASSUME RequestsSound, Forward(upload, upload'), raced => raced', handler' = handler
    PROVE  RequestsSound'
  BY HandlerKept DEF RequestsSound

LEMMA RunsRest ==
    ASSUME RunsSound, Forward(upload, upload'), run' = run,
           \A t \in Tasks : task[t] # NoTask => task'[t] # NoTask
    PROVE  RunsSound'
  BY RunKept DEF RunsSound

LEMMA ClonesRest ==
    ASSUME ClonesSound, task' = task, taken' = taken, handler' = handler
    PROVE  ClonesSound'
  BY DEF ClonesSound, UsedNames, Stored

LEMMA ClonesMove ==
    ASSUME TasksShape, ClonesSound, task' = task, taken' = taken,
           NEW h \in Handlers, NEW q, handler' = [handler EXCEPT ![h] = q],
           q.at \notin {"clone_insert", "clone_failed"}
    PROVE  ClonesSound'
  <1>1. \A k \in Handlers : handler'[k].at \in {"clone_insert", "clone_failed"} => handler'[k] = handler[k]
    BY HandlerMoves
  <1>2. UsedNames' = UsedNames
    BY DEF UsedNames, Stored
  <1> QED  BY <1>1, <1>2 DEF ClonesSound

(* A name that is written is noted by every clone that has chosen one.       *)
LEMMA ClonesNote ==
    ASSUME TasksShape, ClonesSound, NEW name, UsedNames' \subseteq UsedNames \union {name},
           \A k \in Handlers : taken'[k] = Noted(name)[k] \/ handler'[k].at = "over",
           \A k \in Handlers : handler'[k] = handler[k] \/ handler'[k].at = "over"
    PROVE  ClonesSound'
  <1> SUFFICES ASSUME NEW k \in Handlers
               PROVE  /\ handler'[k].at = "clone_insert" => handler'[k].name \notin UsedNames' \/ handler'[k].name \in taken'[k]
                      /\ handler'[k].at = "clone_failed" => handler'[k].name \in taken'[k]
    BY DEF ClonesSound
  <1>1. CASE handler'[k].at = "over"
    BY <1>1
  <1>2. CASE handler'[k].at # "over"
    <2>1. handler'[k] = handler[k] /\ taken'[k] = Noted(name)[k]
      BY <1>2
    <2>2. taken'[k] = IF handler[k].at = "clone_insert" THEN taken[k] \union {name} ELSE taken[k]
      BY <2>1 DEF Noted
    <2> QED  BY <2>1, <2>2 DEF ClonesSound
  <1> QED  BY <1>1, <1>2

LEMMA UploadsRest ==
    ASSUME UploadsSound, upload' = upload, temps' = temps
    PROVE  UploadsSound'
  BY DEF UploadsSound

LEMMA StaysForward ==
    ASSUME upload' = upload
    PROVE  Forward(upload, upload')
  BY DEF Forward

----------------------------------------------------------------------------
(* Uploads.                                                                  *)
LEMMA CreateUploadSound ==
    ASSUME TasksIInv, NEW u \in UploadIds, NEW h \in Handlers,
           NEW p \in {"lineage_batch", "compare_source"}, CreateUpload(u, h, p)
    PROVE  TasksIInv'
  <1> USE DEF TasksIInv
  <1> DEFINE q == [at |-> "upload", file |-> u]
  <1>1. /\ upload[u].file = "none" /\ ~upload[u].row /\ handler' = [handler EXCEPT ![h] = q]
        /\ UNCHANGED <<task, run, temps, raced, taken>>
    BY DEF CreateUpload
  <1>2. upload[u] \in Upload
    BY DEF TasksShape
  <1>3. PICK mid : mid = [upload[u] EXCEPT !.file = "present"]
    OBVIOUS
  <1>4. mid \in Upload /\ mid.file = "present" /\ mid.row = upload[u].row
    BY <1>2, <1>3 DEF Upload
  <1>5. PICK new : new = [mid EXCEPT !.purpose = p]
    OBVIOUS
  <1>6. new \in Upload /\ new.file = "present" /\ new.row = upload[u].row
    BY <1>4, <1>5 DEF Upload
  <1>7. upload' = [upload EXCEPT ![u] = new]
    BY <1>3, <1>5 DEF CreateUpload, PutArtifact
  <1>8. upload' \in [UploadIds -> Upload] /\ upload'[u] = new /\ \A v \in UploadIds : v # u => upload'[v] = upload[v]
    BY <1>6, <1>7 DEF TasksShape
  <1>9. Forward(upload, upload')
    BY <1>1, <1>6, <1>8 DEF Forward
  <1>10. HandlerSound(q, upload', raced')
    BY <1>6, <1>8 DEF HandlerSound
  <1>11. q.at = "upload"
    OBVIOUS
  <1> HIDE DEF q
  <1>12. TasksShape' /\ UploadsSound'
    <2>1. handler' = [k \in Handlers |-> handler'[k]]
      BY <1>1, HandlerMoves
    <2>2. TasksShape'
      BY <1>1, <1>8, <2>1 DEF TasksShape
    <2>3. UploadsSound'
      BY <1>1, <1>6, <1>8 DEF UploadsSound
    <2> QED  BY <2>2, <2>3
  <1>13. RowsSound' /\ RunsSound'
    BY <1>1, <1>9, RowsRest, RunsRest
  <1>14. RequestsSound' /\ ClonesSound'
    BY <1>1, <1>9, <1>10, <1>11, RequestsMove, ClonesMove
  <1> QED  BY <1>12, <1>13, <1>14

LEMMA RegisterUploadSound ==
    ASSUME TasksIInv, NEW h \in Handlers, RegisterUpload(h)
    PROVE  TasksIInv'
  <1> USE DEF TasksIInv
  <1> DEFINE u == handler[h].file
  <1>1. /\ handler[h].at = "upload" /\ upload' = [upload EXCEPT ![u].row = TRUE]
        /\ handler' = [handler EXCEPT ![h] = Over]
        /\ UNCHANGED <<task, run, temps, raced, taken>>
    BY DEF RegisterUpload
  <1>2. u \in UploadIds /\ upload[u].file # "none"
    BY <1>1 DEF RequestsSound, HandlerSound
  <1> HIDE DEF u
  <1>3. /\ upload' \in [UploadIds -> Upload] /\ upload'[u].file = upload[u].file /\ upload'[u].row
        /\ \A v \in UploadIds : v # u => upload'[v] = upload[v]
    BY <1>1, <1>2 DEF TasksShape, Upload
  <1>4. Forward(upload, upload')
    BY <1>3 DEF Forward
  <1>5. HandlerSound(Over, upload', raced') /\ Over.at = "over"
    BY DEF HandlerSound, Over
  <1>6. TasksShape'
    BY <1>1, <1>3, HandlerMoves DEF TasksShape
  <1>7. UploadsSound'
    BY <1>1, <1>2, <1>3 DEF UploadsSound
  <1>8. RowsSound' /\ RunsSound'
    BY <1>1, <1>4, RowsRest, RunsRest
  <1>9. RequestsSound' /\ ClonesSound'
    BY <1>1, <1>4, <1>5, RequestsMove, ClonesMove
  <1> QED  BY <1>6, <1>7, <1>8, <1>9

LEMMA CollectSound ==
    ASSUME TasksIInv, NEW u \in UploadIds, CollectUpload(u)
    PROVE  TasksIInv'
  <1> USE DEF TasksIInv
  <1>1. /\ upload[u].file = "present" /\ upload' = [upload EXCEPT ![u].file = "collected"]
        /\ UNCHANGED <<task, run, handler, temps, raced, taken>>
    BY DEF CollectUpload
  <1>2. /\ upload' \in [UploadIds -> Upload] /\ upload'[u].file = "collected" /\ upload'[u].row = upload[u].row
        /\ \A v \in UploadIds : v # u => upload'[v] = upload[v]
    BY <1>1 DEF TasksShape, Upload
  <1>3. Forward(upload, upload')
    BY <1>2 DEF Forward
  <1>4. TasksShape' /\ UploadsSound'
    BY <1>1, <1>2 DEF TasksShape, UploadsSound
  <1>5. RowsSound' /\ RunsSound' /\ RequestsSound' /\ ClonesSound'
    BY <1>1, <1>3, RowsRest, RunsRest, RequestsRest, ClonesRest
  <1> QED  BY <1>4, <1>5

LEMMA PreviewSound ==
    ASSUME TasksIInv, NEW u \in UploadIds, NEW parsed, PreviewFile(u, parsed)
    PROVE  TasksIInv'
  <1> USE DEF TasksIInv
  <1>1. /\ upload[u].row /\ temps' = (IF upload[u].file = "present" THEN temps ELSE temps \union {u})
        /\ UNCHANGED <<task, upload, run, handler, raced, taken>>
    BY DEF PreviewFile, Unlinked
  <1>2. upload[u].file \in {"present", "collected"}
    BY <1>1 DEF TasksShape, Upload, UploadsSound
  <1>3. TasksShape' /\ UploadsSound'
    BY <1>1, <1>2 DEF TasksShape, UploadsSound
  <1>4. RowsSound' /\ RunsSound' /\ RequestsSound' /\ ClonesSound'
    BY <1>1, StaysForward, RowsRest, RunsRest, RequestsRest, ClonesRest
  <1> QED  BY <1>3, <1>4

----------------------------------------------------------------------------
(* Requests that read: they leave rows and uploads alone.                    *)
LEMMA ReadSound ==
    ASSUME TasksIInv, NEW h \in Handlers, NEW q, handler' = [handler EXCEPT ![h] = q],
           UNCHANGED <<task, upload, run, temps, raced, taken>>,
           HandlerSound(q, upload, raced), q.at \notin {"clone_insert", "clone_failed"}
    PROVE  TasksIInv'
  <1> USE DEF TasksIInv
  <1>1. TasksShape' /\ UploadsSound'
    BY HandlerMoves, UploadsRest DEF TasksShape
  <1>2. RowsSound' /\ RunsSound' /\ RequestsSound' /\ ClonesSound'
    BY StaysForward, RowsRest, RunsRest, RequestsMove, ClonesMove
  <1> QED  BY <1>1, <1>2

LEMMA CloneReadSound ==
    ASSUME TasksIInv, NEW h \in Handlers, NEW t \in Tasks, CloneRead(h, t)
    PROVE  TasksIInv'
  <1> DEFINE q == [at |-> "clone_name", row |-> task[t]]
  <1>1. /\ handler' = [handler EXCEPT ![h] = q] /\ UNCHANGED <<task, upload, run, temps, raced, taken>>
        /\ task[t] # NoTask /\ Len(task[t].name) < MaxCopies
    BY DEF CloneRead, Stored
  <1>2. RowSound(task[t], upload, raced)
    BY <1>1 DEF TasksIInv, RowsSound
  <1>3. HandlerSound(q, upload, raced) /\ q.at = "clone_name"
    BY <1>1, <1>2 DEF HandlerSound
  <1> HIDE DEF q
  <1> QED  BY <1>1, <1>3, ReadSound

LEMMA RunReadSound ==
    ASSUME TasksIInv, NEW h \in Handlers, NEW t \in Tasks, RunRead(h, t)
    PROVE  TasksIInv'
  <1> DEFINE q == [at |-> "run", id |-> t, row |-> task[t]]
  <1>1. /\ handler' = [handler EXCEPT ![h] = q] /\ UNCHANGED <<task, upload, run, temps, raced, taken>>
        /\ task[t] # NoTask
    BY DEF RunRead, Stored
  <1>2. RowSound(task[t], upload, raced)
    BY <1>1 DEF TasksIInv, RowsSound
  <1>3. HandlerSound(q, upload, raced) /\ q.at = "run"
    BY <1>1, <1>2 DEF HandlerSound
  <1> HIDE DEF q
  <1> QED  BY <1>1, <1>3, ReadSound

(* The side a patch asks for, from a sound row.                              *)
LEMMA PatchedFacts ==
    ASSUME NEW row \in Task, RefIsValid(row.side), NEW patch \in Patches
    PROVE  /\ PatchedSide(row, patch) \in Side /\ RefIsValid(PatchedSide(row, patch))
           /\ patch.ref # "unset" => PatchedSide(row, patch).kind = patch.ref /\ PatchedSide(row, patch).file = patch.file
           /\ patch.ref = "unset" => PatchedSide(row, patch).kind = row.side.kind /\ PatchedSide(row, patch).file = row.side.file
  <1>1. /\ patch.ref \in {"unset"} \union RefKinds /\ patch.file \in UploadIds \union {NoFile}
        /\ patch.ds \in {"unset", "given", "null"} /\ ((patch.ref = "file") <=> (patch.file # NoFile))
    BY DEF Patches
  <1>2. row.side \in Side /\ row.side.kind \in RefKinds /\ row.side.file \in UploadIds \union {NoFile} /\ row.side.ds \in BOOLEAN
    BY DEF Task, Side
  <1>3. PatchedDs(row, patch) \in BOOLEAN
    BY <1>2 DEF PatchedDs
  <1> DEFINE ds == PatchedDs(row, patch)
             kind == IF patch.ref = "unset" THEN row.side.kind ELSE patch.ref
             file == IF patch.ref = "unset" THEN row.side.file ELSE patch.file
  <1>4. PatchedSide(row, patch) = [kind |-> kind, file |-> file, ds |-> ds]
    BY DEF PatchedSide
  <1>5. kind \in RefKinds /\ file \in UploadIds \union {NoFile} /\ ((kind = "file") <=> (file # NoFile))
    BY <1>1, <1>2 DEF RefIsValid, RefKinds
  <1>6. /\ patch.ref # "unset" => kind = patch.ref /\ file = patch.file
        /\ patch.ref = "unset" => kind = row.side.kind /\ file = row.side.file
    OBVIOUS
  <1> HIDE DEF ds, kind, file
  <1>7. PatchedSide(row, patch) \in Side
    BY <1>3, <1>4, <1>5 DEF Side, ds
  <1> QED  BY <1>4, <1>5, <1>6, <1>7 DEF RefIsValid

LEMMA UpdateReadSound ==
    ASSUME TasksIInv, NEW h \in Handlers, NEW t \in Tasks, NEW patch \in Patches, UpdateRead(h, t, patch)
    PROVE  TasksIInv'
  <1> DEFINE q == [at |-> "update", id |-> t, row |-> task[t], patch |-> patch]
  <1>1. /\ handler' = [handler EXCEPT ![h] = q] /\ UNCHANGED <<task, upload, run, temps, raced, taken>>
        /\ task[t] # NoTask /\ SideFits(PatchedSide(task[t], patch)) /\ UploadIsUsable(PatchedSide(task[t], patch))
    BY DEF UpdateRead, Stored
  <1>2. RowSound(task[t], upload, raced)
    BY <1>1 DEF TasksIInv, RowsSound
  <1>3. Fits(PatchedSide(task[t], patch))
    BY <1>1 DEF SideFits, Fits
  <1>4. Backed(PatchedSide(task[t], patch), upload)
    <2>1. PatchedSide(task[t], patch) \in Side /\ RefIsValid(PatchedSide(task[t], patch))
      BY <1>2, PatchedFacts DEF RowSound
    <2> QED  BY <1>1, <2>1 DEF Backed, UploadIsUsable, RefIsValid, Side
  <1>5. HandlerSound(q, upload, raced) /\ q.at = "update"
    BY <1>1, <1>2, <1>3, <1>4 DEF HandlerSound
  <1> HIDE DEF q
  <1> QED  BY <1>1, <1>5, ReadSound

----------------------------------------------------------------------------
(* Clones.                                                                   *)
LEMMA CloneNameSound ==
    ASSUME TasksIInv, NEW h \in Handlers, CloneName(h)
    PROVE  TasksIInv'
  <1> USE DEF TasksIInv
  <1> DEFINE name == NextCopyName(handler[h].row.name, UsedNames)
             q == [at |-> "clone_insert", row |-> handler[h].row, name |-> name]
  <1>1. /\ handler[h].at = "clone_name" /\ handler' = [handler EXCEPT ![h] = q]
        /\ taken' = [taken EXCEPT ![h] = {}] /\ UNCHANGED <<task, upload, run, temps, raced>>
    BY DEF CloneName
  <1>2. RowSound(handler[h].row, upload, raced) /\ Len(handler[h].row.name) < MaxCopies
    BY <1>1 DEF RequestsSound, HandlerSound
  <1>3. handler[h].row.name \in Names
    BY <1>2 DEF RowSound, Task
  <1>4. name \in Names \ UsedNames
    BY <1>2, <1>3, CopyIsFree
  <1> HIDE DEF name
  <1>5. HandlerSound(q, upload, raced) /\ q.at = "clone_insert" /\ q.name = name
    BY <1>2, <1>4 DEF HandlerSound
  <1> HIDE DEF q
  <1>6. TasksShape' /\ UploadsSound'
    BY <1>1, HandlerMoves, UploadsRest DEF TasksShape
  <1>7. RowsSound' /\ RunsSound' /\ RequestsSound'
    BY <1>1, <1>5, StaysForward, RowsRest, RunsRest, RequestsMove
  <1>8. ClonesSound'
    <2>1. UsedNames' = UsedNames
      BY <1>1 DEF UsedNames, Stored
    <2>2. \A k \in Handlers : k # h => taken'[k] = taken[k] /\ handler'[k] = handler[k]
      BY <1>1, HandlerMoves DEF TasksShape
    <2>3. handler'[h] = q
      BY <1>1, HandlerMoves
    <2> QED  BY <1>4, <1>5, <2>1, <2>2, <2>3 DEF ClonesSound
  <1> QED  BY <1>6, <1>7, <1>8

LEMMA CloneRefusedSound ==
    ASSUME TasksIInv, NEW h \in Handlers, CloneRefused(h)
    PROVE  TasksIInv'
  <1> USE DEF TasksIInv
  <1> DEFINE q == [at |-> "clone_failed", name |-> handler[h].name]
  <1>1. /\ handler[h].at = "clone_insert" /\ handler[h].name \in UsedNames
        /\ handler' = [handler EXCEPT ![h] = q] /\ UNCHANGED <<task, upload, run, temps, raced, taken>>
    BY DEF CloneRefused, NameIsFree
  <1>2. handler[h].name \in taken[h]
    BY <1>1 DEF ClonesSound
  <1>3. HandlerSound(q, upload, raced) /\ q.at = "clone_failed" /\ q.name = handler[h].name
    BY DEF HandlerSound
  <1> HIDE DEF q
  <1>4. TasksShape' /\ UploadsSound'
    BY <1>1, HandlerMoves, UploadsRest DEF TasksShape
  <1>5. RowsSound' /\ RunsSound' /\ RequestsSound'
    BY <1>1, <1>3, StaysForward, RowsRest, RunsRest, RequestsMove
  <1>6. ClonesSound'
    <2>1. UsedNames' = UsedNames
      BY <1>1 DEF UsedNames, Stored
    <2>2. handler'[h] = q /\ \A k \in Handlers : k # h => handler'[k] = handler[k]
      BY <1>1, HandlerMoves
    <2> QED  BY <1>1, <1>2, <1>3, <2>1, <2>2 DEF ClonesSound
  <1> QED  BY <1>4, <1>5, <1>6

LEMMA CloneReportsSound ==
    ASSUME TasksIInv, NEW h \in Handlers, CloneReports(h)
    PROVE  TasksIInv'
  <1> USE DEF TasksIInv
  <1>1. /\ handler' = [handler EXCEPT ![h] = Over] /\ taken' = [taken EXCEPT ![h] = {}]
        /\ UNCHANGED <<task, upload, run, temps, raced>>
    BY DEF CloneReports
  <1>2. HandlerSound(Over, upload, raced) /\ Over.at = "over"
    BY DEF HandlerSound, Over
  <1>3. TasksShape' /\ UploadsSound'
    BY <1>1, HandlerMoves, UploadsRest DEF TasksShape
  <1>4. RowsSound' /\ RunsSound' /\ RequestsSound'
    BY <1>1, <1>2, StaysForward, RowsRest, RunsRest, RequestsMove
  <1>5. ClonesSound'
    <2>1. UsedNames' = UsedNames
      BY <1>1 DEF UsedNames, Stored
    <2>2. \A k \in Handlers : k # h => taken'[k] = taken[k] /\ handler'[k] = handler[k]
      BY <1>1, HandlerMoves DEF TasksShape
    <2>3. handler'[h] = Over
      BY <1>1, HandlerMoves
    <2> QED  BY <1>2, <2>1, <2>2, <2>3 DEF ClonesSound
  <1> QED  BY <1>3, <1>4, <1>5

(* A row is written: by a create, a clone or a patch.                        *)
LEMMA WriteRows ==
    ASSUME TasksIInv, NEW t \in Tasks, NEW row, task' = [task EXCEPT ![t] = row],
           RowSound(row, upload, raced'), raced => raced', raced' \in BOOLEAN,
           UNCHANGED <<upload, run, temps>>
    PROVE  /\ RowsSound' /\ RunsSound' /\ UploadsSound'
           /\ task' = [k \in Tasks |-> task'[k]]
           /\ UsedNames' \subseteq UsedNames \union {row.name}
  <1> USE DEF TasksIInv
  <1>1. task'[t] = row /\ (\A k \in Tasks : k # t => task'[k] = task[k]) /\ task' = [k \in Tasks |-> task'[k]]
    BY TaskMoves
  <1>2. row # NoTask
    BY NoTaskIsNoRow DEF RowSound
  <1>3. RowsSound'
    BY <1>1, StaysForward, RowKept DEF RowsSound
  <1>4. RunsSound'
    BY <1>1, <1>2, StaysForward, RunsRest
  <1>5. UsedNames' \subseteq UsedNames \union {row.name}
    BY <1>1 DEF UsedNames, Stored
  <1> QED  BY <1>1, <1>3, <1>4, <1>5, UploadsRest

LEMMA NotedIsTotal ==
    ASSUME NEW name
    PROVE  Noted(name) = [h \in Handlers |-> Noted(name)[h]]
  BY DEF Noted

LEMMA CreateTaskSound ==
    ASSUME TasksIInv, NEW t \in Tasks, NEW side \in Bodies, CreateTask(t, side)
    PROVE  TasksIInv'
  <1> USE DEF TasksIInv
  <1> DEFINE row == [name |-> <<>>, side |-> side]
  <1>1. /\ task' = [task EXCEPT ![t] = row] /\ taken' = Noted(<<>>)
        /\ SideFits(side) /\ UploadIsUsable(side) /\ UNCHANGED <<upload, handler, run, temps, raced>>
    BY DEF CreateTask
  <1>2. side \in Side /\ RefIsValid(side)
    BY DEF Bodies
  <1>3. Backed(side, upload)
    BY <1>1, <1>2 DEF Backed, UploadIsUsable, RefIsValid, Side
  <1>4. RowSound(row, upload, raced) /\ row.name = <<>>
    BY <1>1, <1>2, <1>3, PlainName DEF RowSound, Task, SideFits, Fits
  <1> HIDE DEF row
  <1>5. RowsSound' /\ RunsSound' /\ UploadsSound' /\ task' = [k \in Tasks |-> task'[k]]
        /\ UsedNames' \subseteq UsedNames \union {<<>>}
    <2>1. raced \in BOOLEAN
      BY DEF TasksShape
    <2> QED  BY <1>1, <1>4, <2>1, WriteRows
  <1>6. RequestsSound'
    BY <1>1, StaysForward, RequestsRest
  <1>7. ClonesSound'
    BY <1>1, <1>5, ClonesNote
  <1>8. TasksShape'
    BY <1>1, <1>5, NotedIsTotal DEF TasksShape
  <1> QED  BY <1>5, <1>6, <1>7, <1>8

LEMMA CloneInsertSound ==
    ASSUME TasksIInv, NEW h \in Handlers, NEW t \in Tasks, CloneInsert(h, t)
    PROVE  TasksIInv'
  <1> USE DEF TasksIInv
  <1> DEFINE name == handler[h].name
             old == handler[h].row
             row == [old EXCEPT !.name = name]
  <1>1. /\ handler[h].at = "clone_insert" /\ task' = [task EXCEPT ![t] = row]
        /\ taken' = [Noted(name) EXCEPT ![h] = {}] /\ handler' = [handler EXCEPT ![h] = Over]
        /\ UNCHANGED <<upload, run, temps, raced>>
    BY DEF CloneInsert
  <1>2. RowSound(old, upload, raced) /\ name \in Names
    BY <1>1 DEF RequestsSound, HandlerSound
  <1> HIDE DEF name, old
  <1>3. row \in Task /\ row.name = name /\ row.side = old.side
    BY <1>2 DEF RowSound, Task
  <1> HIDE DEF row
  <1>4. RowSound(row, upload, raced)
    BY <1>2, <1>3 DEF RowSound
  <1>5. RowsSound' /\ RunsSound' /\ UploadsSound' /\ task' = [k \in Tasks |-> task'[k]]
        /\ UsedNames' \subseteq UsedNames \union {name}
    <2>1. raced \in BOOLEAN
      BY DEF TasksShape
    <2> QED  BY <1>1, <1>3, <1>4, <2>1, WriteRows
  <1>6. HandlerSound(Over, upload, raced) /\ Over.at = "over"
    BY DEF HandlerSound, Over
  <1>7. RequestsSound'
    BY <1>1, <1>6, StaysForward, RequestsMove
  <1>8. \A k \in Handlers : k # h => taken'[k] = Noted(name)[k]
    BY <1>1, NotedIsTotal
  <1>9. ClonesSound'
    BY <1>1, <1>5, <1>6, <1>8, HandlerMoves, ClonesNote
  <1>10. taken' = [k \in Handlers |-> taken'[k]]
    BY <1>1, NotedIsTotal
  <1>11. TasksShape'
    BY <1>1, <1>5, <1>10, HandlerMoves DEF TasksShape
  <1> QED  BY <1>5, <1>7, <1>9, <1>11

----------------------------------------------------------------------------
(* Patches: what is written is sound when the row is still as it was read,   *)
(* and valid in any case.                                                    *)
LEMMA UpdatedSound ==
    ASSUME NEW now, NEW row, NEW patch \in Patches, NEW up, NEW rc, NEW rd,
           RowSound(now, up, rc), RowSound(row, up, rc),
           Fits(PatchedSide(row, patch)), Backed(PatchedSide(row, patch), up),
           rc \/ now # row => rd
    PROVE  RowSound(UpdatedRow(now, row, patch), up, rd)
  <1> DEFINE side == PatchedSide(row, patch)
             kind == IF patch.ref = "unset" THEN now.side.kind ELSE side.kind
             file == IF patch.ref = "unset" THEN now.side.file ELSE side.file
             ds == IF patch.ds # "unset" \/ side.ds # row.side.ds THEN side.ds ELSE now.side.ds
             name == IF patch.renames THEN <<>> ELSE now.name
             new == [kind |-> kind, file |-> file, ds |-> ds]
  <1>1. UpdatedRow(now, row, patch) = [name |-> name, side |-> new]
    BY DEF UpdatedRow
  <1>2. /\ now \in Task /\ row \in Task /\ RefIsValid(now.side) /\ RefIsValid(row.side)
        /\ Backed(now.side, up)
    BY DEF RowSound
  <1>3. /\ now.side \in Side /\ now.name \in Names
        /\ now.side.kind \in RefKinds /\ now.side.file \in UploadIds \union {NoFile} /\ now.side.ds \in BOOLEAN
    BY <1>2 DEF Task, Side
  <1>4. side \in Side /\ RefIsValid(side)
    BY <1>2, PatchedFacts
  <1>5. side.kind \in RefKinds /\ side.file \in UploadIds \union {NoFile} /\ side.ds \in BOOLEAN
    BY <1>4 DEF Side
  <1>6. name \in Names
    BY <1>3, PlainName
  <1>7. patch.ref = "unset" => side.kind = row.side.kind /\ side.file = row.side.file
    BY <1>2, PatchedFacts
  <1> HIDE DEF side, name
  <1>8. kind \in RefKinds /\ file \in UploadIds \union {NoFile} /\ ds \in BOOLEAN
    BY <1>3, <1>5
  <1>9. /\ (kind = "file") <=> (file # NoFile)
        /\ kind = "file" => file \in UploadIds /\ up[file].row
    BY <1>2, <1>4 DEF RefIsValid, Backed, side
  <1>10. now = row => kind = side.kind /\ file = side.file /\ ds = side.ds
    BY <1>7
  <1> HIDE DEF kind, file, ds
  <1>11. /\ new.kind = kind /\ new.file = file /\ new.ds = ds
         /\ new \in Side
    BY <1>8 DEF Side
  <1>12. rd \/ Fits(new)
    BY <1>10, <1>11 DEF Fits, side
  <1>13. RefIsValid(new) /\ Backed(new, up)
    BY <1>9, <1>11 DEF RefIsValid, Backed
  <1> HIDE DEF new
  <1>14. [name |-> name, side |-> new] \in Task
    BY <1>6, <1>11 DEF Task
  <1> QED  BY <1>1, <1>12, <1>13, <1>14 DEF RowSound

LEMMA UpdateWriteSound ==
    ASSUME TasksIInv, NEW h \in Handlers, UpdateWrite(h)
    PROVE  TasksIInv'
  <1> USE DEF TasksIInv
  <1> DEFINE t == handler[h].id
             row == handler[h].row
             patch == handler[h].patch
             now == UpdatedRow(task[t], row, patch)
  <1>1. /\ handler[h].at = "update" /\ handler' = [handler EXCEPT ![h] = Over]
        /\ UNCHANGED <<upload, run, temps>>
        /\ \/ /\ task[t] # NoTask
              /\ task' = [task EXCEPT ![t] = now]
              /\ raced' = (raced \/ task[t] # row) /\ taken' = Noted(now.name)
           \/ UNCHANGED <<task, raced, taken>>
    BY DEF UpdateWrite, Stored
  <1>2. /\ t \in Tasks /\ RowSound(row, upload, raced) /\ patch \in Patches
        /\ Fits(PatchedSide(row, patch)) /\ Backed(PatchedSide(row, patch), upload)
    BY <1>1 DEF RequestsSound, HandlerSound
  <1> HIDE DEF t, row, patch
  <1>3. HandlerSound(Over, upload, raced') /\ Over.at = "over"
    BY DEF HandlerSound, Over
  <1>4. CASE UNCHANGED <<task, raced, taken>>
    <2>1. TasksShape' /\ UploadsSound'
      BY <1>1, <1>4, HandlerMoves, UploadsRest DEF TasksShape
    <2>2. RowsSound' /\ RunsSound' /\ RequestsSound' /\ ClonesSound'
      BY <1>1, <1>3, <1>4, StaysForward, RowsRest, RunsRest, RequestsMove, ClonesMove
    <2> QED  BY <2>1, <2>2
  <1>5. CASE /\ task[t] # NoTask /\ task' = [task EXCEPT ![t] = now]
             /\ raced' = (raced \/ task[t] # row) /\ taken' = Noted(now.name)
    <2>1. RowSound(task[t], upload, raced)
      BY <1>2, <1>5 DEF RowsSound
    <2>2. raced' \in BOOLEAN /\ (raced => raced') /\ (raced \/ task[t] # row => raced')
      BY <1>5
    <2>3. RowSound(now, upload, raced')
      BY <1>2, <2>1, <2>2, UpdatedSound
    <2> HIDE DEF now
    <2>4. RowsSound' /\ RunsSound' /\ UploadsSound' /\ task' = [k \in Tasks |-> task'[k]]
          /\ UsedNames' \subseteq UsedNames \union {now.name}
      BY <1>1, <1>2, <1>5, <2>2, <2>3, WriteRows
    <2>5. RequestsSound'
      BY <1>1, <1>3, <2>2, StaysForward, RequestsMove
    <2>6. ClonesSound'
      BY <1>1, <1>3, <1>5, <2>4, HandlerMoves, ClonesNote
    <2>7. taken' = [k \in Handlers |-> taken'[k]]
      BY <1>5, NotedIsTotal
    <2>8. handler' = [k \in Handlers |-> handler'[k]]
      BY <1>1, HandlerMoves
    <2>9. TasksShape'
      BY <1>1, <2>2, <2>4, <2>7, <2>8 DEF TasksShape
    <2> QED  BY <2>4, <2>5, <2>6, <2>9
  <1> QED  BY <1>1, <1>4, <1>5

(* A deletion takes the row out of the index of runs.                        *)
LEMMA DeleteTaskSound ==
    ASSUME TasksIInv, NEW t \in Tasks, DeleteTask(t)
    PROVE  TasksIInv'
  <1> USE DEF TasksIInv
  <1>1. task' = [task EXCEPT ![t] = NoTask] /\ run' = DeletedIndex(t) /\ UNCHANGED <<upload, handler, temps, raced, taken>>
    BY DEF DeleteTask
  <1>2. task'[t] = NoTask /\ (\A k \in Tasks : k # t => task'[k] = task[k]) /\ task' = [k \in Tasks |-> task'[k]]
    BY <1>1, TaskMoves
  <1>3. run' = [r \in CompareRuns |-> run'[r]]
    BY <1>1 DEF DeletedIndex
  <1>4. TasksShape' /\ UploadsSound'
    BY <1>1, <1>2, <1>3, UploadsRest DEF TasksShape
  <1>5. RowsSound'
    BY <1>1, <1>2 DEF RowsSound
  <1>6. RequestsSound'
    BY <1>1, StaysForward, RequestsRest
  <1>7. ClonesSound'
    <2>1. UsedNames' \subseteq UsedNames
      BY <1>2 DEF UsedNames, Stored
    <2> QED  BY <1>1, <2>1 DEF ClonesSound
  <1>8. RunsSound'
    <2> SUFFICES ASSUME NEW r \in CompareRuns, run'[r] # NoRun PROVE RunSound(run'[r], upload', task')
      BY DEF RunsSound
    <2>1. CASE run[r] # NoRun /\ run[r].task = t
      <3>1. run'[r] = [run[r] EXCEPT !.task = NoFile]
        BY <1>1, <2>1 DEF DeletedIndex
      <3>2. RunSound(run[r], upload, task) /\ run[r] \in Run
        BY <2>1 DEF RunsSound, RunSound
      <3>3. PICK new : new = [run[r] EXCEPT !.task = NoFile]
        OBVIOUS
      <3>4. new \in Run /\ new.task = NoFile /\ new.side = run[r].side /\ new.status = run[r].status
        BY <3>2, <3>3 DEF Run
      <3> QED  BY <1>1, <3>1, <3>2, <3>3, <3>4 DEF RunSound
    <2>2. CASE ~(run[r] # NoRun /\ run[r].task = t)
      <3>1. run'[r] = run[r]
        BY <1>1, <2>2 DEF DeletedIndex
      <3>2. run[r] # NoRun /\ run[r].task # t /\ RunSound(run[r], upload, task)
        BY <2>2, <3>1 DEF RunsSound
      <3>3. run[r].task # NoFile => run[r].task \in Tasks
        BY <3>2 DEF RunSound, Run
      <3> QED  BY <1>1, <1>2, <3>1, <3>2, <3>3 DEF RunSound
    <2> QED  BY <2>1, <2>2
  <1> QED  BY <1>4, <1>5, <1>6, <1>7, <1>8

----------------------------------------------------------------------------
(* Runs.                                                                     *)
LEMMA RunEnqueueSound ==
    ASSUME TasksIInv, NEW h \in Handlers, NEW r \in CompareRuns, RunEnqueue(h, r)
    PROVE  TasksIInv'
  <1> USE DEF TasksIInv
  <1> DEFINE t == handler[h].id
             new == [task |-> t, side |-> handler[h].row.side, status |-> "pending"]
  <1>1. /\ handler[h].at = "run" /\ handler' = [handler EXCEPT ![h] = Over]
        /\ run' = (IF task[t] # NoTask THEN [run EXCEPT ![r] = new] ELSE run)
        /\ UNCHANGED <<task, upload, temps, raced, taken>>
    BY DEF RunEnqueue, Stored
  <1>2. t \in Tasks /\ RowSound(handler[h].row, upload, raced)
    BY <1>1 DEF RequestsSound, HandlerSound
  <1> DEFINE side == handler[h].row.side
  <1>3. side \in Side /\ Backed(side, upload) /\ RefIsValid(side)
    BY <1>2 DEF RowSound, Task
  <1> HIDE DEF t, side
  <1>4. new.task = t /\ new.side = side /\ new.status = "pending" /\ new \in Run
    BY <1>2, <1>3 DEF Run, side
  <1> HIDE DEF new
  <1>5. task[t] # NoTask => RunSound(new, upload, task)
    BY <1>3, <1>4 DEF RunSound
  <1>6. HandlerSound(Over, upload, raced) /\ Over.at = "over"
    BY DEF HandlerSound, Over
  <1>7. run' = [k \in CompareRuns |-> run'[k]]
        /\ \A k \in CompareRuns : run'[k] = run[k] \/ (task[t] # NoTask /\ run'[k] = new)
    BY <1>1 DEF TasksShape
  <1>8. RunsSound'
    BY <1>1, <1>5, <1>7 DEF RunsSound
  <1>9. TasksShape' /\ UploadsSound'
    BY <1>1, <1>7, HandlerMoves, UploadsRest DEF TasksShape
  <1>10. RowsSound' /\ RequestsSound' /\ ClonesSound'
    BY <1>1, <1>6, StaysForward, RowsRest, RequestsMove, ClonesMove
  <1> QED  BY <1>8, <1>9, <1>10

LEMMA ExecuteSound ==
    ASSUME TasksIInv, NEW r \in CompareRuns, NEW parsed \in BOOLEAN, ExecuteRun(r, parsed)
    PROVE  TasksIInv'
  <1> USE DEF TasksIInv
  <1> DEFINE u == run[r].side.file
             copied == run[r].side.kind = "file" => upload[u].file = "present"
             status == IF ~copied THEN "failed" ELSE IF parsed THEN "success" ELSE "unreadable"
  <1>1. /\ run[r] # NoRun /\ run' = [run EXCEPT ![r].status = status]
        /\ temps' = (IF copied THEN temps ELSE temps \union {u})
        /\ UNCHANGED <<task, upload, handler, raced, taken>>
    BY DEF ExecuteRun, Unlinked
  <1>2. RunSound(run[r], upload, task) /\ run[r] \in Run
    BY <1>1 DEF RunsSound, RunSound
  <1>3. ~copied => u \in UploadIds /\ upload[u].file = "collected" /\ run[r].side.kind = "file"
    BY <1>2 DEF RunSound, Backed, UploadsSound, TasksShape, Upload
  <1>4. status \in {"failed", "success", "unreadable"} /\ (status = "failed" => ~copied)
    OBVIOUS
  <1> HIDE DEF copied, status
  <1>5. PICK new : new = [run[r] EXCEPT !.status = status]
    OBVIOUS
  <1>6. new \in Run /\ new.status = status /\ new.side = run[r].side /\ new.task = run[r].task
    BY <1>2, <1>4, <1>5 DEF Run
  <1>7. RunSound(new, upload, task)
    BY <1>2, <1>3, <1>4, <1>6 DEF RunSound
  <1>8. run' = [k \in CompareRuns |-> run'[k]] /\ run'[r] = new /\ \A k \in CompareRuns : k # r => run'[k] = run[k]
    BY <1>1, <1>5 DEF TasksShape
  <1>9. RunsSound'
    BY <1>1, <1>7, <1>8 DEF RunsSound
  <1>10. TasksShape' /\ UploadsSound'
    BY <1>1, <1>3, <1>8 DEF TasksShape, UploadsSound
  <1>11. RowsSound' /\ RequestsSound' /\ ClonesSound'
    BY <1>1, StaysForward, RowsRest, RequestsRest, ClonesRest
  <1> QED  BY <1>9, <1>10, <1>11

----------------------------------------------------------------------------
LEMMA TasksBegin == TasksInit => TasksIInv
  <1> SUFFICES ASSUME TasksInit PROVE TasksIInv
    OBVIOUS
  <1> USE DEF TasksInit
  <1>1. HandlerSound(Ready, upload, raced) /\ Ready.at = "ready"
    BY DEF HandlerSound, Ready
  <1>2. TasksShape
    BY DEF TasksShape, Upload
  <1>3. UploadsSound
    BY DEF UploadsSound
  <1>4. RowsSound /\ RunsSound
    BY DEF RowsSound, RunsSound
  <1>5. RequestsSound /\ ClonesSound
    BY <1>1 DEF RequestsSound, ClonesSound
  <1> QED  BY <1>2, <1>3, <1>4, <1>5 DEF TasksIInv

LEMMA TasksKept ==
    ASSUME TasksIInv, [TasksNext]_taskVars
    PROVE  TasksIInv'
  <1>1. CASE UNCHANGED taskVars
    BY <1>1 DEF taskVars, TasksIInv, TasksShape, UploadsSound, ClonesSound, UsedNames, Stored,
       RowsSound, RequestsSound, RunsSound
  <1>2. ASSUME NEW u \in UploadIds,
               \/ \E h \in Handlers, p \in {"lineage_batch", "compare_source"} : CreateUpload(u, h, p)
               \/ CollectUpload(u) \/ \E parsed \in BOOLEAN : PreviewFile(u, parsed)
        PROVE  TasksIInv'
    BY <1>2, CreateUploadSound, CollectSound, PreviewSound
  <1>3. ASSUME NEW t \in Tasks, (\E side \in Bodies : CreateTask(t, side)) \/ DeleteTask(t)
        PROVE  TasksIInv'
    BY <1>3, CreateTaskSound, DeleteTaskSound
  <1>4. ASSUME NEW h \in Handlers,
               \/ RegisterUpload(h) \/ CloneName(h) \/ CloneRefused(h) \/ CloneReports(h)
               \/ UpdateWrite(h)
        PROVE  TasksIInv'
    BY <1>4, RegisterUploadSound, CloneNameSound, CloneRefusedSound, CloneReportsSound, UpdateWriteSound
  <1>5. ASSUME NEW h \in Handlers, NEW t \in Tasks,
               \/ CloneRead(h, t) \/ CloneInsert(h, t) \/ RunRead(h, t)
               \/ \E patch \in Patches : UpdateRead(h, t, patch)
        PROVE  TasksIInv'
    BY <1>5, CloneReadSound, CloneInsertSound, RunReadSound, UpdateReadSound
  <1>6. ASSUME NEW h \in Handlers, NEW r \in CompareRuns, RunEnqueue(h, r)
        PROVE  TasksIInv'
    BY <1>6, RunEnqueueSound
  <1>7. ASSUME NEW r \in CompareRuns, NEW parsed \in BOOLEAN, ExecuteRun(r, parsed)
        PROVE  TasksIInv'
    BY <1>7, ExecuteSound
  <1> QED  BY <1>1, <1>2, <1>3, <1>4, <1>5, <1>6, <1>7 DEF TasksNext

LEMMA TasksSafe ==
    ASSUME TasksIInv
    PROVE  TasksInv
  <1> USE DEF TasksIInv
  <1>1. TasksTypeOK
    BY DEF TasksTypeOK, TasksShape, RowsSound, RowSound, RunsSound, RunSound, UploadsSound, Stored
  <1>2. SidesFitUnlessRaced
    BY DEF SidesFitUnlessRaced, RowsSound, RowSound, Fits, Stored
  <1>3. RunsNameStoredTasks /\ MissingFileWasCollected
    BY DEF RunsNameStoredTasks, MissingFileWasCollected, RunsSound, RunSound, Stored
  <1>4. CloneFailsOnlyByRace /\ TempsOnlyOfCollected
    BY DEF CloneFailsOnlyByRace, TempsOnlyOfCollected, ClonesSound, UploadsSound
  <1> QED  BY <1>1, <1>2, <1>3, <1>4 DEF TasksInv

(* Whatever clients create, clone, patch, delete and run, with whatever      *)
(* files collected meanwhile: stored sides can be run unless two patches     *)
(* overlapped, runs name stored tasks, a missing file has been collected and *)
(* a clone is refused only a name that was taken since it looked             *)
(* (the compare task and upload routes).                                     *)
THEOREM TasksAreSafe == TasksSpec => []TasksInv
  <1>1. TasksSpec => []TasksIInv
    BY TasksBegin, TasksKept, PTL DEF TasksSpec
  <1>2. TasksIInv => TasksInv
    BY TasksSafe
  <1> QED  BY <1>1, <1>2, PTL

------------------------------------------------------------------------------
(* The migration of a 1.x instance.                                         *)

Tables == {"users", "projects", "sources", "flows", "jobs"}
V1Instances ==
    [users : UserRows,
     projects : [V1Projects -> [owner : V1Users, members : SUBSET V1Users]],
     sources : [V1Sources -> V1Projects \union {Global}],
     flows : [V1Flows -> [project : V1Projects, fit : BOOLEAN]],
     jobs : [V1Jobs -> [owner : V1Users, project : V1Projects, status : V1States]]]
NewStates == {"pending", "success", "failed", "cancelled"}
NewProjects == V1Projects \union {Global}
Targets == [users : SUBSET V1Users, projects : SUBSET [id : NewProjects, owner : V1Users],
            members : SUBSET (NewProjects \X V1Users),
            sources : SUBSET [id : V1Sources, project : NewProjects],
            flows : SUBSET V1Flows,
            jobs : SUBSET [id : V1Jobs, owner : V1Users, project : V1Projects,
                           status : NewStates]]
V1Rows == V1Users \union V1Projects \union V1Sources \union V1Flows \union V1Jobs

Reports == [migrated : [Tables -> SUBSET V1Rows], skipped : SUBSET V1Rows,
            exit : {"none", "complete", "incomplete", "misconfigured"}]
Knowns == [users : SUBSET V1Users, projects : SUBSET V1Projects, home : NewProjects \union {"none"}]
Late == {"projects", "global", "sources", "flows", "jobs"}

(* The ids of the projects, datasources and jobs stored.                     *)
ProjectIds == {p.id : p \in newDb.projects}
SourceIds == {d.id : d \in newDb.sources}
JobIds == {j.id : j \in newDb.jobs}

MigrateShape ==
    /\ v1 \in V1Instances
    /\ options \in [taking : BOOLEAN, owner : V1Users, name : NewProjects]
    /\ newDb \in Targets
    /\ vault \subseteq V1Users \union V1Sources
    /\ known \in Knowns /\ report \in Reports
    /\ step \in {"off", "users"} \union Late
    /\ ran \in Nat

(* Users come in one go, and nothing is stored before them: an id that is    *)
(* there already ends a later run at its first table.                        *)
UsersFirst ==
    /\ newDb.users \in {{}, KeptUsers}
    /\ newDb.users = {} => newDb = EmptyTarget

(* A run past its first table has found the target empty: what it has not    *)
(* come to is empty still.                                                   *)
ToCome ==
    /\ step = "projects" => newDb.projects = {} /\ newDb.members = {}
    /\ step \in {"projects", "global", "sources"} => newDb.sources = {}
    /\ step \in {"projects", "global", "sources", "flows"} => newDb.flows = {}
    /\ step \in Late => newDb.jobs = {}

(* What the run knows is what is stored.                                     *)
KnownIsStored ==
    /\ step = "users" => known = NothingKnown
    /\ step \in Late =>
          known.users = KeptUsers /\ newDb.users = KeptUsers
    /\ step \in {"global", "sources", "flows", "jobs"} =>
          known.projects = ProjectIds \intersect V1Projects
    /\ known.home # "none" => known.home \in ProjectIds /\ options.owner \in known.users

(* The tables the report accounts for.                                       *)
Accounted(t, all, stored) ==
    report.migrated[t] = stored /\ all \subseteq stored \union report.skipped

ReportSoFar ==
    /\ step # "off" => report.exit = "none"
    /\ step \in Late \/ report.exit = "complete" =>
          Accounted("users", V1Users, newDb.users)
    /\ step \in {"global", "sources", "flows", "jobs"} \/ report.exit = "complete" =>
          V1Projects \subseteq report.migrated["projects"] \union report.skipped
    /\ step \in {"flows", "jobs"} \/ report.exit = "complete" =>
          Accounted("sources", V1Sources, SourceIds)
    /\ step = "jobs" \/ report.exit = "complete" => Accounted("flows", V1Flows, newDb.flows)
    /\ report.exit = "complete" => Accounted("jobs", V1Jobs, JobIds)

MigrateIInv ==
    /\ MigrateShape /\ ReferencesHold /\ FlowsAllOrNone /\ UsersFirst /\ ToCome
    /\ KnownIsStored /\ ReportSoFar /\ NothingBeginsAgain

(* The fields of what the shape describes.                                   *)
LEMMA SourceFields ==
    ASSUME v1 \in V1Instances
    PROVE  /\ v1.users \in UserRows
           /\ \A p \in V1Projects : v1.projects[p].owner \in V1Users
           /\ \A p \in V1Projects : v1.projects[p].members \subseteq V1Users
           /\ \A s \in V1Sources : v1.sources[s] \in NewProjects
           /\ \A w \in V1Flows : v1.flows[w].project \in V1Projects
           /\ \A j \in V1Jobs : /\ v1.jobs[j].owner \in V1Users /\ v1.jobs[j].project \in V1Projects
                                 /\ v1.jobs[j].status \in V1States
  BY DEF V1Instances, NewProjects

LEMMA TargetFields ==
    ASSUME NEW d \in Targets
    PROVE  /\ d = [users |-> d.users, projects |-> d.projects, members |-> d.members,
                   sources |-> d.sources, flows |-> d.flows, jobs |-> d.jobs]
           /\ d.users \subseteq V1Users /\ d.projects \subseteq [id : NewProjects, owner : V1Users]
           /\ d.members \subseteq NewProjects \X V1Users
           /\ d.sources \subseteq [id : V1Sources, project : NewProjects] /\ d.flows \subseteq V1Flows
           /\ d.jobs \subseteq [id : V1Jobs, owner : V1Users, project : V1Projects,
                                 status : NewStates]
  BY DEF Targets

(* A run begins, and the operator mends the source.                          *)
LEMMA StartKeeps == ASSUME MigrateIInv, StartRun PROVE MigrateIInv'
  <1> USE DEF MigrateIInv
  <1>1. UNCHANGED <<v1, options, newDb, vault>> /\ step' = "users" /\ report' = NoReport /\ known' = NothingKnown
    BY DEF StartRun
  <1>2. MigrateShape'
    BY DEF StartRun, MigrateShape, NoReport, NothingKnown, Reports, Knowns, Tables, Late
  <1>3. ReferencesHold' /\ FlowsAllOrNone' /\ NothingBeginsAgain' /\ UsersFirst'
    BY <1>1 DEF ReferencesHold, FlowsAllOrNone, NothingBeginsAgain, UsersFirst, KeptUsers
  <1>4. ToCome' /\ KnownIsStored'
    BY <1>1 DEF ToCome, KnownIsStored, NothingKnown, Late
  <1>5. ReportSoFar'
    BY <1>1 DEF ReportSoFar, NoReport, Late
  <1> QED  BY <1>2, <1>3, <1>4, <1>5

LEMMA CorrectKeeps == ASSUME MigrateIInv, CorrectFlows PROVE MigrateIInv'
  <1> USE DEF MigrateIInv
  <1> DEFINE f == [w \in V1Flows |-> [v1.flows[w] EXCEPT !.fit = TRUE]]
  <1>1. UNCHANGED <<options, newDb, vault, known, report, step, ran>> /\ v1' = [v1 EXCEPT !.flows = f]
    BY DEF CorrectFlows
  <1>2. f \in [V1Flows -> [project : V1Projects, fit : BOOLEAN]]
        /\ \A w \in V1Flows : f[w].project = v1.flows[w].project
    <2>1. \A w \in V1Flows : v1.flows[w] \in [project : V1Projects, fit : BOOLEAN]
      BY DEF MigrateShape, V1Instances
    <2>2. \A w \in V1Flows : /\ [v1.flows[w] EXCEPT !.fit = TRUE] \in [project : V1Projects, fit : BOOLEAN]
                             /\ [v1.flows[w] EXCEPT !.fit = TRUE].project = v1.flows[w].project
      BY <2>1
    <2> QED  BY <2>2
  <1> HIDE DEF f
  <1>3. /\ v1' \in V1Instances /\ v1'.users = v1.users
        /\ \A w \in V1Flows : v1'.flows[w].project = v1.flows[w].project
    BY <1>1, <1>2 DEF MigrateShape, V1Instances
  <1>4. MigrateShape'
    BY <1>1, <1>3 DEF MigrateShape
  <1>5. newDb.flows \subseteq V1Flows
    BY TargetFields DEF MigrateShape
  <1>6. KeptUsers' = KeptUsers
    BY <1>3 DEF KeptUsers
  <1>7. ReferencesHold' /\ FlowsAllOrNone' /\ NothingBeginsAgain'
    BY <1>1, <1>3, <1>5 DEF ReferencesHold, FlowsAllOrNone, NothingBeginsAgain
  <1>8. UsersFirst' /\ ToCome' /\ KnownIsStored' /\ ReportSoFar'
    BY <1>1, <1>6 DEF UsersFirst, ToCome, KnownIsStored, ReportSoFar, Accounted, ProjectIds, SourceIds, JobIds
  <1> QED  BY <1>4, <1>7, <1>8

(* A run that is cut off.                                                    *)
LEMMA SecretsAre ==
    ASSUME MigrateIInv, NEW t PROVE SecretsOf(t) \subseteq V1Users \union V1Sources
  BY DEF SecretsOf, KeptUsers, KeptSources

LEMMA CutOffKeeps ==
    ASSUME MigrateIInv, UNCHANGED <<v1, options, newDb, known, ran>>, step' = "off",
           NEW sub \in SUBSET (V1Users \union V1Sources), vault' = vault \union sub,
           report' \in Reports, report'.exit # "complete"
    PROVE  MigrateIInv'
  <1> USE DEF MigrateIInv
  <1>1. MigrateShape'
    BY DEF MigrateShape
  <1>2. ReferencesHold' /\ FlowsAllOrNone' /\ NothingBeginsAgain' /\ UsersFirst'
    BY DEF ReferencesHold, FlowsAllOrNone, NothingBeginsAgain, UsersFirst, KeptUsers
  <1>3. ToCome' /\ KnownIsStored' /\ ReportSoFar'
    BY DEF ToCome, KnownIsStored, ReportSoFar, Late, ProjectIds
  <1> QED  BY <1>1, <1>2, <1>3

LEMMA AbortKeeps == ASSUME MigrateIInv, Abort PROVE MigrateIInv'
  <1>1. PICK sub \in SUBSET SecretsOf(step) : vault' = vault \union sub
    BY DEF Abort
  <1>2. report' = [report EXCEPT !.exit = "incomplete"]
    BY DEF Abort, ExitIncomplete
  <1>3. report' \in Reports /\ report'.exit = "incomplete"
    BY <1>2 DEF Reports, MigrateIInv, MigrateShape
  <1> QED  BY <1>1, <1>3, SecretsAre, CutOffKeeps DEF Abort, Advance

LEMMA KilledKeeps == ASSUME MigrateIInv, Killed PROVE MigrateIInv'
  <1>1. PICK sub \in SUBSET SecretsOf(step) : vault' = vault \union sub
    BY DEF Killed
  <1>2. NoReport \in Reports /\ NoReport.exit = "none"
    BY DEF Reports, NoReport, Tables
  <1> QED  BY <1>1, <1>2, SecretsAre, CutOffKeeps DEF Killed, Advance

(* The tables, one by one.                                                   *)
LEMMA UsersKeep == ASSUME MigrateIInv, MigrateUsers PROVE MigrateIInv'
  <1> USE DEF MigrateIInv
  <1> DEFINE t == Tallied("users", KeptUsers, V1Users)
  <1>1. /\ KeptUsers \subseteq V1Users /\ newDb = EmptyTarget
        /\ newDb' = [newDb EXCEPT !.users = @ \union KeptUsers]
        /\ UNCHANGED <<v1, options, ran>> /\ step = "users" /\ step' = "projects" /\ report' = t
        /\ known' = [known EXCEPT !.users = KeptUsers] /\ known = NothingKnown
        /\ vault' = vault \union {u \in KeptUsers : v1.users[u] = "decrypts"}
    BY DEF MigrateUsers, UsersFirst, KeptUsers, Advance, KnownIsStored
  <1>2. /\ t \in Reports /\ t.migrated["users"] = KeptUsers /\ t.exit = report.exit
        /\ t.skipped = report.skipped \union (V1Users \ KeptUsers)
    <2>1. report \in Reports /\ "users" \in Tables /\ KeptUsers \in SUBSET V1Rows /\ V1Users \in SUBSET V1Rows
      BY <1>1 DEF MigrateShape, Tables, V1Rows
    <2> QED  BY <2>1 DEF Tallied, Reports, Tables
  <1> HIDE DEF t
  <1>3. newDb' = [users |-> KeptUsers, projects |-> {}, members |-> {}, sources |-> {}, flows |-> {}, jobs |-> {}]
    BY <1>1 DEF EmptyTarget
  <1>4. known' = [users |-> KeptUsers, projects |-> {}, home |-> "none"]
    BY <1>1 DEF NothingKnown
  <1>5. KeptUsers' = KeptUsers
    BY <1>1 DEF KeptUsers
  <1>6. MigrateShape'
    BY <1>1, <1>2, <1>3, <1>4 DEF MigrateShape, Targets, Knowns, Late
  <1>7. ReferencesHold' /\ FlowsAllOrNone' /\ NothingBeginsAgain'
    BY <1>1, <1>3 DEF ReferencesHold, FlowsAllOrNone, NothingBeginsAgain
  <1>8. UsersFirst' /\ ToCome' /\ KnownIsStored'
    BY <1>1, <1>3, <1>4, <1>5 DEF UsersFirst, ToCome, KnownIsStored, EmptyTarget
  <1>9. ReportSoFar'
    BY <1>1, <1>2, <1>3, <1>5 DEF ReportSoFar, Accounted, Late
  <1> QED  BY <1>6, <1>7, <1>8, <1>9

LEMMA ProjectsKeep == ASSUME MigrateIInv, MigrateProjects PROVE MigrateIInv'
  <1> USE DEF MigrateIInv
  <1> DEFINE t == Tallied("projects", KeptProjects, V1Projects)
             rows == {[id |-> p, owner |-> v1.projects[p].owner] : p \in KeptProjects}
             pairs == UNION {MembersOf(p) : p \in KeptProjects}
  <1>1. /\ KeptProjects \subseteq V1Projects /\ newDb.projects = {} /\ newDb.members = {}
        /\ newDb.sources = {} /\ newDb.flows = {} /\ newDb.jobs = {} /\ newDb \in Targets
        /\ newDb' = [newDb EXCEPT !.projects = @ \union rows, !.members = @ \union pairs]
        /\ UNCHANGED <<v1, options, vault, ran>> /\ step = "projects" /\ step' = "global" /\ report' = t
        /\ known' = [known EXCEPT !.projects = KeptProjects]
        /\ known.users = KeptUsers /\ newDb.users = KeptUsers /\ known \in Knowns
    BY DEF MigrateProjects, KeptProjects, Advance, KnownIsStored, ToCome, Late, MigrateShape
  <1>2. /\ t \in Reports /\ t.migrated["projects"] = KeptProjects /\ t.exit = report.exit
        /\ t.migrated["users"] = report.migrated["users"]
        /\ t.skipped = report.skipped \union (V1Projects \ KeptProjects)
    <2>1. report \in Reports /\ "projects" \in Tables /\ KeptProjects \in SUBSET V1Rows /\ V1Projects \in SUBSET V1Rows
      BY <1>1 DEF MigrateShape, Tables, V1Rows
    <2> QED  BY <2>1 DEF Tallied, Reports, Tables
  <1>3. \A p \in KeptProjects : v1.projects[p].owner \in KeptUsers /\ p \in V1Projects /\ v1.projects[p].owner \in V1Users
    BY <1>1, SourceFields DEF KeptProjects, MigrateShape
  <1>4. \A m \in pairs : \E p \in KeptProjects : \E u \in KeptUsers : m = <<p, u>>
    BY <1>1, <1>3 DEF MembersOf, MembersListed
  <1>5. \A p \in KeptProjects : <<p, v1.projects[p].owner>> \in pairs
    BY DEF MembersOf
  <1>6. /\ \A q \in rows : q.id \in KeptProjects /\ q.owner \in KeptUsers /\ <<q.id, q.owner>> \in pairs
        /\ \A p \in KeptProjects : \E q \in rows : q.id = p
    <2> DEFINE row(p) == [id |-> p, owner |-> v1.projects[p].owner]
    <2>1. \A p \in KeptProjects : row(p) \in rows
      OBVIOUS
    <2>2. \A p : row(p).id = p /\ row(p).owner = v1.projects[p].owner
      OBVIOUS
    <2>3. \A q \in rows : \E p \in KeptProjects : q = row(p)
      OBVIOUS
    <2> HIDE DEF row, rows
    <2>4. \A p \in KeptProjects : \E q \in rows : q.id = p
      BY <2>1, <2>2
    <2>5. \A q \in rows : q.id \in KeptProjects /\ q.owner \in KeptUsers /\ <<q.id, q.owner>> \in pairs
      BY <1>3, <1>5, <2>2, <2>3
    <2> QED  BY <2>4, <2>5
  <1>7. rows \subseteq [id : NewProjects, owner : V1Users] /\ pairs \subseteq NewProjects \X V1Users
    <2>1. KeptUsers \subseteq V1Users
      BY DEF KeptUsers
    <2> QED  BY <1>3, <1>4, <2>1 DEF NewProjects
  <1> HIDE DEF t, rows, pairs
  <1>8. newDb' = [users |-> KeptUsers, projects |-> rows, members |-> pairs, sources |-> {}, flows |-> {}, jobs |-> {}]
    BY <1>1 DEF Targets
  <1>9. known' = [users |-> KeptUsers, projects |-> KeptProjects, home |-> known.home]
    BY <1>1 DEF Knowns
  <1>10. KeptUsers' = KeptUsers /\ KeptUsers \subseteq V1Users
    BY <1>1 DEF KeptUsers
  <1>11. {q.id : q \in rows} = KeptProjects
    BY <1>6
  <1>12. MigrateShape'
    <2>1. known' \in Knowns
      BY <1>1, <1>9, <1>10 DEF Knowns
    <2>2. newDb' \in Targets
      BY <1>7, <1>8, <1>10 DEF Targets
    <2> QED  BY <1>1, <1>2, <2>1, <2>2 DEF MigrateShape, Late
  <1>13. ReferencesHold'
    <2>1. \A u \in KeptUsers : v1.users[u] = "decrypts" => u \in vault
      BY <1>1 DEF ReferencesHold
    <2>2. \A m \in pairs : m[1] \in KeptProjects /\ m[2] \in KeptUsers
      BY <1>4
    <2> QED  BY <1>1, <1>6, <1>8, <1>11, <2>1, <2>2 DEF ReferencesHold
  <1>14. FlowsAllOrNone' /\ NothingBeginsAgain'
    BY <1>8 DEF FlowsAllOrNone, NothingBeginsAgain
  <1>15. UsersFirst'
    <2>1. KeptUsers = {} => rows = {} /\ pairs = {}
      BY <1>3, <1>4, <1>6
    <2> QED  BY <1>8, <1>10, <2>1 DEF UsersFirst, EmptyTarget
  <1>16. ToCome'
    BY <1>1, <1>8 DEF ToCome
  <1>17. KnownIsStored'
    <2>1. known.home = "none"
      BY <1>1 DEF KnownIsStored, ProjectIds
    <2> QED  BY <1>1, <1>8, <1>9, <1>10, <1>11, <2>1 DEF KnownIsStored, ProjectIds
  <1>18. ReportSoFar'
    <2>1. Accounted("users", V1Users, KeptUsers) /\ report.exit = "none"
      BY <1>1 DEF ReportSoFar, Late
    <2> QED  BY <1>1, <1>2, <1>8, <2>1 DEF ReportSoFar, Accounted, Late
  <1> QED  BY <1>12, <1>13, <1>14, <1>15, <1>16, <1>17, <1>18

(* What a step leaves that only adds projects, or nothing, and keeps what is *)
(* known of users and projects.                                              *)
LEMMA GlobalKeeps == ASSUME MigrateIInv, TakeInGlobal PROVE MigrateIInv'
  <1> USE DEF MigrateIInv
  <1>1. /\ UNCHANGED <<v1, options, vault, ran>> /\ step = "global" /\ newDb \in Targets /\ known \in Knowns
        /\ newDb.sources = {} /\ newDb.flows = {} /\ newDb.jobs = {} /\ report.exit = "none"
        /\ known.users = KeptUsers /\ newDb.users = KeptUsers
        /\ known.projects = ProjectIds \intersect V1Projects
        /\ Accounted("users", V1Users, newDb.users)
        /\ V1Projects \subseteq report.migrated["projects"] \union report.skipped
        /\ options.owner \in V1Users
    BY DEF TakeInGlobal, KnownIsStored, ToCome, Late, MigrateShape, ReportSoFar
  <1>2. CASE NeedsGlobal /\ options.owner \notin known.users
    <2>1. /\ report' = [report EXCEPT !.exit = "misconfigured"] /\ step' = "off" /\ UNCHANGED <<newDb, known>>
      BY <1>2 DEF TakeInGlobal, Advance
    <2>2. report' \in Reports /\ report'.exit = "misconfigured"
      BY <2>1 DEF MigrateShape, Reports
    <2>3. vault' = vault \union {}
      BY <1>1
    <2> QED  BY <1>1, <2>1, <2>2, <2>3, CutOffKeeps
  <1>3. CASE ~NeedsGlobal
    <2>1. /\ UNCHANGED <<newDb, known, report>> /\ step' = "sources"
      BY <1>3 DEF TakeInGlobal, Advance
    <2>2. MigrateShape'
      BY <1>1, <2>1 DEF MigrateShape, Late
    <2>3. ReferencesHold' /\ FlowsAllOrNone' /\ NothingBeginsAgain' /\ UsersFirst'
      BY <1>1, <2>1 DEF ReferencesHold, FlowsAllOrNone, NothingBeginsAgain, UsersFirst, KeptUsers
    <2>4. ToCome' /\ KnownIsStored'
      BY <1>1, <2>1 DEF ToCome, KnownIsStored, Late, KeptUsers, ProjectIds
    <2>5. ReportSoFar'
      BY <1>1, <2>1 DEF ReportSoFar, Late, Accounted
    <2> QED  BY <2>2, <2>3, <2>4, <2>5
  <1>4. CASE NeedsGlobal /\ options.owner \in known.users
    <2> DEFINE row == [id |-> Home, owner |-> options.owner]
    <2>1. /\ step' = "sources" /\ report' = report /\ known' = [known EXCEPT !.home = Home]
          /\ newDb' = IF Stores(Home) THEN newDb
                      ELSE [newDb EXCEPT !.projects = @ \union {row},
                                         !.members = @ \union {<<Home, options.owner>>}]
      BY <1>4 DEF TakeInGlobal, Advance
    <2>2. Home \in NewProjects /\ (Home \notin ProjectIds => Home \notin V1Projects)
          /\ (Stores(Home) <=> Home \in ProjectIds)
      BY MigrateBounds DEF Home, Stores, ProjectIds, MigrateShape, NewProjects
    <2>3. known' = [users |-> known.users, projects |-> known.projects, home |-> Home]
      BY <1>1, <2>1 DEF Knowns
    <2>4. CASE Stores(Home)
      <3>1. newDb' = newDb
        BY <2>1, <2>4
      <3>2. MigrateShape'
        BY <1>1, <2>1, <2>2, <2>3, <3>1 DEF MigrateShape, Late, Knowns
      <3>3. ReferencesHold' /\ FlowsAllOrNone' /\ NothingBeginsAgain' /\ UsersFirst'
        BY <1>1, <3>1 DEF ReferencesHold, FlowsAllOrNone, NothingBeginsAgain, UsersFirst, KeptUsers
      <3>4. ToCome' /\ KnownIsStored'
        BY <1>1, <1>4, <2>1, <2>2, <2>3, <2>4, <3>1 DEF ToCome, KnownIsStored, Late, KeptUsers, ProjectIds
      <3>5. ReportSoFar'
        BY <1>1, <2>1, <3>1 DEF ReportSoFar, Late, Accounted
      <3> QED  BY <3>2, <3>3, <3>4, <3>5
    <2>5. CASE ~Stores(Home)
      <3> DEFINE projects == newDb.projects \union {row}
                 members == newDb.members \union {<<Home, options.owner>>}
      <3>1. newDb' = [users |-> newDb.users, projects |-> projects, members |-> members,
                      sources |-> {}, flows |-> {}, jobs |-> {}]
        BY <1>1, <2>1, <2>5 DEF Targets
      <3>2. row.id = Home /\ row.owner = options.owner /\ {p.id : p \in projects} = ProjectIds \union {Home}
        <4>1. row.id = Home /\ row.owner = options.owner
          OBVIOUS
        <4> HIDE DEF row
        <4> QED  BY <4>1 DEF ProjectIds
      <3>3. projects \subseteq [id : NewProjects, owner : V1Users] /\ members \subseteq NewProjects \X V1Users
        BY <1>1, <2>2 DEF Targets
      <3>4. <<Home, options.owner>>[1] = Home /\ <<Home, options.owner>>[2] = options.owner
        OBVIOUS
      <3>5. \A p \in newDb.projects : p.owner \in newDb.users /\ <<p.id, p.owner>> \in newDb.members
        BY DEF ReferencesHold
      <3>6. \A m \in newDb.members : m[1] \in ProjectIds /\ m[2] \in newDb.users
        BY DEF ReferencesHold, ProjectIds
      <3>7. \A p \in projects : p.owner \in newDb.users /\ <<p.id, p.owner>> \in members
        BY <1>1, <1>4, <3>2, <3>5
      <3>8. \A m \in members : m[1] \in ProjectIds \union {Home} /\ m[2] \in newDb.users
        BY <1>1, <1>4, <3>4, <3>6
      <3> HIDE DEF projects, members, row
      <3>9. MigrateShape'
        <4>1. newDb' \in Targets
          BY <1>1, <3>1, <3>3, TargetFields DEF Targets
        <4> QED  BY <1>1, <2>1, <2>2, <2>3, <4>1 DEF MigrateShape, Late, Knowns
      <3>10. ReferencesHold'
        <4>1. \A u \in newDb.users : v1.users[u] = "decrypts" => u \in vault
          BY DEF ReferencesHold
        <4> QED  BY <1>1, <3>1, <3>2, <3>7, <3>8, <4>1 DEF ReferencesHold
      <3>11. FlowsAllOrNone' /\ NothingBeginsAgain' /\ UsersFirst'
        BY <1>1, <1>4, <3>1 DEF FlowsAllOrNone, NothingBeginsAgain, UsersFirst, KeptUsers
      <3>12. ToCome'
        BY <1>1, <2>1, <3>1 DEF ToCome, Late
      <3>13. KnownIsStored'
        <4>1. ProjectIds' = ProjectIds \union {Home} /\ Home \notin V1Projects
          BY <2>2, <2>5, <3>1, <3>2 DEF ProjectIds
        <4> QED  BY <1>1, <1>4, <2>1, <2>3, <3>1, <4>1 DEF KnownIsStored, Late, KeptUsers
      <3>14. ReportSoFar'
        BY <1>1, <2>1, <3>1 DEF ReportSoFar, Late, Accounted
      <3> QED  BY <3>9, <3>10, <3>11, <3>12, <3>13, <3>14
    <2> QED  BY <2>4, <2>5
  <1> QED  BY <1>2, <1>3, <1>4

LEMMA SourcesKeep == ASSUME MigrateIInv, MigrateDatasources PROVE MigrateIInv'
  <1> USE DEF MigrateIInv
  <1> DEFINE t == Tallied("sources", KeptSources, V1Sources)
             row(s) == [id |-> s, project |-> ProjectOf(s)]
             rows == {row(s) : s \in KeptSources}
  <1>1. /\ UNCHANGED <<v1, options, known, ran>> /\ step = "sources" /\ step' = "flows" /\ report' = t
        /\ newDb \in Targets /\ newDb.sources = {} /\ newDb.flows = {} /\ newDb.jobs = {}
        /\ newDb' = [newDb EXCEPT !.sources = @ \union rows] /\ vault' = vault \union KeptSources
        /\ known.users = KeptUsers /\ newDb.users = KeptUsers
        /\ known.projects = ProjectIds \intersect V1Projects
        /\ KeptSources \subseteq V1Sources /\ report.exit = "none"
        /\ Accounted("users", V1Users, newDb.users)
        /\ V1Projects \subseteq report.migrated["projects"] \union report.skipped
    BY DEF MigrateDatasources, KeptSources, Advance, KnownIsStored, ToCome, Late, MigrateShape, ReportSoFar
  <1>2. /\ t \in Reports /\ t.migrated["sources"] = KeptSources /\ t.exit = report.exit
        /\ t.migrated["users"] = report.migrated["users"]
        /\ t.migrated["projects"] = report.migrated["projects"]
        /\ t.skipped = report.skipped \union (V1Sources \ KeptSources)
    <2>1. report \in Reports /\ "sources" \in Tables /\ KeptSources \in SUBSET V1Rows /\ V1Sources \in SUBSET V1Rows
      BY <1>1 DEF MigrateShape, Tables, V1Rows
    <2> QED  BY <2>1 DEF Tallied, Reports, Tables
  <1>3. \A s \in KeptSources : s \in V1Sources /\ ProjectOf(s) \in ProjectIds /\ ProjectOf(s) \in NewProjects
    <2>1. \A s \in KeptSources : s \in V1Sources /\ ProjectOf(s) # "none"
      BY DEF KeptSources
    <2>2. ProjectIds \subseteq NewProjects
      BY <1>1, TargetFields DEF ProjectIds
    <2>3. \A s \in KeptSources : ProjectOf(s) \in ProjectIds
      BY <1>1, <2>1 DEF ProjectOf, KnownIsStored
    <2> QED  BY <2>1, <2>2, <2>3
  <1>4. KeptUsers = {} => rows = {}
    <2>1. KeptUsers = {} => ProjectIds = {}
      BY <1>1 DEF UsersFirst, EmptyTarget, ProjectIds
    <2> QED  BY <1>3, <2>1
  <1>5. /\ rows \subseteq [id : V1Sources, project : NewProjects]
        /\ \A d \in rows : d.id \in KeptSources /\ d.project \in ProjectIds
        /\ {d.id : d \in rows} = KeptSources
    <2>1. \A s \in KeptSources : row(s) \in [id : V1Sources, project : NewProjects]
      BY <1>3
    <2>2. \A s : row(s).id = s /\ row(s).project = ProjectOf(s)
      OBVIOUS
    <2>3. \A d \in rows : \E s \in KeptSources : d = row(s)
      OBVIOUS
    <2>4. \A s \in KeptSources : row(s) \in rows
      OBVIOUS
    <2> HIDE DEF row, rows
    <2>5. rows \subseteq [id : V1Sources, project : NewProjects]
      BY <2>1, <2>3
    <2>6. \A d \in rows : d.id \in KeptSources /\ d.project \in ProjectIds
      BY <1>3, <2>2, <2>3
    <2>7. {d.id : d \in rows} = KeptSources
      BY <2>2, <2>4, <2>6
    <2> QED  BY <2>5, <2>6, <2>7
  <1> HIDE DEF t, rows
  <1>6. newDb' = [users |-> newDb.users, projects |-> newDb.projects, members |-> newDb.members,
                  sources |-> rows, flows |-> {}, jobs |-> {}]
    BY <1>1 DEF Targets
  <1>7. KeptUsers' = KeptUsers /\ ProjectIds' = ProjectIds /\ SourceIds' = KeptSources
    BY <1>1, <1>5, <1>6 DEF KeptUsers, ProjectIds, SourceIds
  <1>8. MigrateShape'
    <2>1. newDb' \in Targets
      BY <1>1, <1>5, <1>6, TargetFields DEF Targets
    <2> QED  BY <1>1, <1>2, <2>1 DEF MigrateShape, Late
  <1>9. ReferencesHold'
    BY <1>1, <1>5, <1>6 DEF ReferencesHold, ProjectIds
  <1>10. FlowsAllOrNone' /\ NothingBeginsAgain' /\ ToCome'
    BY <1>1, <1>6 DEF FlowsAllOrNone, NothingBeginsAgain, ToCome, Late
  <1>11. UsersFirst'
    BY <1>1, <1>4, <1>6, <1>7 DEF UsersFirst, EmptyTarget
  <1>12. KnownIsStored'
    BY <1>1, <1>6, <1>7 DEF KnownIsStored, Late
  <1>13. ReportSoFar'
    BY <1>1, <1>2, <1>6, <1>7 DEF ReportSoFar, Accounted, Late
  <1> QED  BY <1>8, <1>9, <1>10, <1>11, <1>12, <1>13

LEMMA FlowsKeep == ASSUME MigrateIInv, MigrateWorkflows PROVE MigrateIInv'
  <1> USE DEF MigrateIInv
  <1> DEFINE t == Tallied("flows", CandidateFlows, V1Flows)
  <1>1. /\ UNCHANGED <<v1, options, vault, known, ran>> /\ step = "flows" /\ step' = "jobs" /\ report' = t
        /\ newDb \in Targets /\ newDb.flows = {} /\ newDb.jobs = {}
        /\ newDb' = [newDb EXCEPT !.flows = @ \union CandidateFlows]
        /\ known.users = KeptUsers /\ newDb.users = KeptUsers
        /\ known.projects = ProjectIds \intersect V1Projects
        /\ CandidateFlows \subseteq V1Flows /\ report.exit = "none"
        /\ Accounted("users", V1Users, newDb.users) /\ Accounted("sources", V1Sources, SourceIds)
        /\ V1Projects \subseteq report.migrated["projects"] \union report.skipped
    BY DEF MigrateWorkflows, CandidateFlows, Advance, KnownIsStored, ToCome, Late, MigrateShape, ReportSoFar
  <1>2. /\ t \in Reports /\ t.migrated["flows"] = CandidateFlows /\ t.exit = report.exit
        /\ t.migrated["users"] = report.migrated["users"]
        /\ t.migrated["projects"] = report.migrated["projects"]
        /\ t.migrated["sources"] = report.migrated["sources"]
        /\ t.skipped = report.skipped \union (V1Flows \ CandidateFlows)
    <2>1. report \in Reports /\ "flows" \in Tables /\ CandidateFlows \in SUBSET V1Rows /\ V1Flows \in SUBSET V1Rows
      BY <1>1 DEF MigrateShape, Tables, V1Rows
    <2> QED  BY <2>1 DEF Tallied, Reports, Tables
  <1>3. \A w \in V1Flows : w \in CandidateFlows <=> v1.flows[w].project \in ProjectIds
    BY <1>1, SourceFields DEF CandidateFlows, MigrateShape
  <1>4. KeptUsers = {} => CandidateFlows = {}
    <2>1. KeptUsers = {} => ProjectIds = {}
      BY <1>1 DEF UsersFirst, EmptyTarget, ProjectIds
    <2> QED  BY <1>1, <1>3, <2>1
  <1> HIDE DEF t
  <1>6. newDb' = [users |-> newDb.users, projects |-> newDb.projects, members |-> newDb.members,
                  sources |-> newDb.sources, flows |-> CandidateFlows, jobs |-> {}]
    BY <1>1 DEF Targets
  <1>7. KeptUsers' = KeptUsers /\ ProjectIds' = ProjectIds /\ SourceIds' = SourceIds
    BY <1>1, <1>6 DEF KeptUsers, ProjectIds, SourceIds
  <1>8. MigrateShape'
    <2>1. newDb' \in Targets
      BY <1>1, <1>6, TargetFields DEF Targets
    <2> QED  BY <1>1, <1>2, <2>1 DEF MigrateShape, Late
  <1>9. ReferencesHold'
    BY <1>1, <1>3, <1>6 DEF ReferencesHold, ProjectIds
  <1>10. FlowsAllOrNone' /\ NothingBeginsAgain' /\ ToCome'
    BY <1>1, <1>3, <1>6 DEF FlowsAllOrNone, NothingBeginsAgain, ToCome, Late, ProjectIds
  <1>11. UsersFirst'
    BY <1>1, <1>4, <1>6, <1>7 DEF UsersFirst, EmptyTarget
  <1>12. KnownIsStored'
    BY <1>1, <1>6, <1>7 DEF KnownIsStored, Late
  <1>13. ReportSoFar'
    BY <1>1, <1>2, <1>6, <1>7 DEF ReportSoFar, Accounted, Late
  <1> QED  BY <1>8, <1>9, <1>10, <1>11, <1>12, <1>13

LEMMA JobsKeep == ASSUME MigrateIInv, MigrateJobs PROVE MigrateIInv'
  <1> USE DEF MigrateIInv
  <1> DEFINE t == Tallied("jobs", KeptJobs, V1Jobs)
             row(j) == [id |-> j, owner |-> v1.jobs[j].owner, project |-> v1.jobs[j].project,
                        status |-> JobStatus(v1.jobs[j].status)]
             rows == {row(j) : j \in KeptJobs}
  <1>1. /\ UNCHANGED <<v1, options, vault, known, ran>> /\ step = "jobs" /\ step' = "off"
        /\ report' = [t EXCEPT !.exit = "complete"]
        /\ newDb \in Targets /\ newDb.jobs = {}
        /\ newDb' = [newDb EXCEPT !.jobs = @ \union rows]
        /\ known.users = KeptUsers /\ newDb.users = KeptUsers
        /\ known.projects = ProjectIds \intersect V1Projects
        /\ KeptJobs \subseteq V1Jobs
        /\ Accounted("users", V1Users, newDb.users) /\ Accounted("sources", V1Sources, SourceIds)
        /\ Accounted("flows", V1Flows, newDb.flows)
        /\ V1Projects \subseteq report.migrated["projects"] \union report.skipped
    BY DEF MigrateJobs, KeptJobs, Advance, KnownIsStored, ToCome, Late, MigrateShape, ReportSoFar
  <1>2. /\ t \in Reports /\ t.migrated["jobs"] = KeptJobs
        /\ t.migrated["users"] = report.migrated["users"]
        /\ t.migrated["projects"] = report.migrated["projects"]
        /\ t.migrated["sources"] = report.migrated["sources"]
        /\ t.migrated["flows"] = report.migrated["flows"]
        /\ t.skipped = report.skipped \union (V1Jobs \ KeptJobs)
    <2>1. report \in Reports /\ "jobs" \in Tables /\ KeptJobs \in SUBSET V1Rows /\ V1Jobs \in SUBSET V1Rows
      BY <1>1 DEF MigrateShape, Tables, V1Rows
    <2> QED  BY <2>1 DEF Tallied, Reports, Tables
  <1>3. \A j \in KeptJobs : /\ j \in V1Jobs /\ v1.jobs[j].owner \in KeptUsers
                            /\ v1.jobs[j].owner \in V1Users /\ v1.jobs[j].project \in V1Projects
                            /\ v1.jobs[j].project \in ProjectIds
                            /\ JobStatus(v1.jobs[j].status) \in NewStates
    BY <1>1, SourceFields DEF KeptJobs, MigrateShape, JobStatus, NewStates
  <1>4. KeptUsers = {} => rows = {}
    BY <1>3
  <1>5. /\ rows \subseteq [id : V1Jobs, owner : V1Users, project : V1Projects, status : NewStates]
        /\ \A d \in rows : d.owner \in KeptUsers /\ d.project \in ProjectIds
        /\ {d.id : d \in rows} = KeptJobs
        /\ \A d \in rows : d.status = JobStatus(v1.jobs[d.id].status)
    <2>1. \A j \in KeptJobs : row(j) \in [id : V1Jobs, owner : V1Users, project : V1Projects,
                                           status : NewStates]
      BY <1>3
    <2>2. \A j : row(j).id = j /\ row(j).owner = v1.jobs[j].owner /\ row(j).project = v1.jobs[j].project
                /\ row(j).status = JobStatus(v1.jobs[j].status)
      OBVIOUS
    <2>3. \A d \in rows : \E j \in KeptJobs : d = row(j)
      OBVIOUS
    <2>4. \A j \in KeptJobs : row(j) \in rows
      OBVIOUS
    <2> HIDE DEF row, rows
    <2>5. rows \subseteq [id : V1Jobs, owner : V1Users, project : V1Projects, status : NewStates]
      BY <2>1, <2>3
    <2>6. \A d \in rows : d.owner \in KeptUsers /\ d.project \in ProjectIds
      BY <1>3, <2>2, <2>3
    <2>7. {d.id : d \in rows} = KeptJobs
      BY <2>2, <2>3, <2>4
    <2>8. \A d \in rows : d.status = JobStatus(v1.jobs[d.id].status)
      BY <2>2, <2>3
    <2> QED  BY <2>5, <2>6, <2>7, <2>8
  <1> HIDE DEF t, rows
  <1>6. newDb' = [users |-> newDb.users, projects |-> newDb.projects, members |-> newDb.members,
                  sources |-> newDb.sources, flows |-> newDb.flows, jobs |-> rows]
    BY <1>1 DEF Targets
  <1>7. KeptUsers' = KeptUsers /\ ProjectIds' = ProjectIds /\ SourceIds' = SourceIds /\ JobIds' = KeptJobs
    BY <1>1, <1>5, <1>6 DEF KeptUsers, ProjectIds, SourceIds, JobIds
  <1>8. report' \in Reports /\ report'.migrated = t.migrated /\ report'.skipped = t.skipped
    BY <1>1, <1>2 DEF Reports
  <1>9. MigrateShape'
    <2>1. newDb' \in Targets
      BY <1>1, <1>5, <1>6, TargetFields DEF Targets
    <2> QED  BY <1>1, <1>8, <2>1 DEF MigrateShape, Late
  <1>10. ReferencesHold'
    BY <1>1, <1>5, <1>6 DEF ReferencesHold, ProjectIds
  <1>11. FlowsAllOrNone' /\ ToCome'
    BY <1>1, <1>6 DEF FlowsAllOrNone, ToCome, Late
  <1>12. UsersFirst'
    BY <1>1, <1>4, <1>6, <1>7 DEF UsersFirst, EmptyTarget
  <1>13. KnownIsStored'
    BY <1>1, <1>6, <1>7 DEF KnownIsStored, Late
  <1>14. ReportSoFar'
    BY <1>1, <1>2, <1>6, <1>7, <1>8 DEF ReportSoFar, Accounted, Late
  <1>15. NothingBeginsAgain'
    BY <1>1, <1>5, <1>6 DEF NothingBeginsAgain, JobStatus
  <1> QED  BY <1>9, <1>10, <1>11, <1>12, <1>13, <1>14, <1>15

LEMMA MigrateInitially == MigrateInit => MigrateIInv
  <1> SUFFICES ASSUME MigrateInit PROVE MigrateIInv
    OBVIOUS
  <1> USE DEF MigrateInit
  <1>1. MigrateShape
    BY DEF MigrateShape, V1Instances, NewProjects, EmptyTarget, Targets, NoReport, NothingKnown, Reports,
           Knowns, Tables
  <1>2. ReferencesHold /\ FlowsAllOrNone /\ UsersFirst /\ ToCome
    BY DEF ReferencesHold, FlowsAllOrNone, UsersFirst, ToCome, EmptyTarget, Late
  <1>3. KnownIsStored /\ ReportSoFar /\ NothingBeginsAgain
    BY DEF KnownIsStored, ReportSoFar, NothingBeginsAgain, NothingKnown, NoReport, Late, EmptyTarget
  <1> QED  BY <1>1, <1>2, <1>3 DEF MigrateIInv

LEMMA MigrateStep == MigrateIInv /\ [MigrateNext]_migrateVars => MigrateIInv'
  <1> SUFFICES ASSUME MigrateIInv, [MigrateNext]_migrateVars PROVE MigrateIInv'
    OBVIOUS
  <1>1. CASE UNCHANGED migrateVars
    BY <1>1 DEF migrateVars, MigrateIInv, MigrateShape, ReferencesHold, FlowsAllOrNone, UsersFirst, ToCome,
                KnownIsStored, ReportSoFar, Accounted, NothingBeginsAgain, ProjectIds, SourceIds,
                JobIds, KeptUsers
  <1> QED  BY <1>1, StartKeeps, UsersKeep, ProjectsKeep, GlobalKeeps, SourcesKeep, FlowsKeep, JobsKeep,
              AbortKeeps, KilledKeeps, CorrectKeeps DEF MigrateNext

LEMMA MigrateImplied == MigrateIInv => MigrateInv
  <1> SUFFICES ASSUME MigrateIInv PROVE MigrateInv
    OBVIOUS
  <1>1. MigrateTypeOK
    <2>1. \A j \in newDb.jobs : j.id \in V1Jobs
      BY TargetFields DEF MigrateIInv, MigrateShape
    <2> QED  BY <2>1, TargetFields DEF MigrateIInv, MigrateShape, MigrateTypeOK, Reports
  <1>2. SuccessIsWhole
    <2> SUFFICES ASSUME report.exit = "complete" PROVE SuccessIsWhole
      BY DEF SuccessIsWhole
    <2>1. /\ Accounted("users", V1Users, newDb.users) /\ Accounted("sources", V1Sources, SourceIds)
          /\ Accounted("flows", V1Flows, newDb.flows) /\ Accounted("jobs", V1Jobs, JobIds)
          /\ V1Projects \subseteq report.migrated["projects"] \union report.skipped
      BY DEF MigrateIInv, ReportSoFar
    <2>2. report.migrated \in [Tables -> SUBSET V1Rows] /\ report.skipped \subseteq V1Rows
      BY DEF MigrateIInv, MigrateShape, Reports
    <2>3. DOMAIN report.migrated = Tables /\ \A u \in Tables : report.migrated[u] \subseteq V1Rows
      BY <2>2
    <2> DEFINE cover == UNION {report.migrated[u] : u \in DOMAIN report.migrated}
    <2>4. \A u \in Tables : report.migrated[u] \subseteq cover
      BY <2>3
    <2>5. cover \subseteq V1Rows
      BY <2>3
    <2> HIDE DEF cover
    <2>6. V1Rows \subseteq cover \union report.skipped
      <3>1. /\ report.migrated["users"] \subseteq cover /\ report.migrated["projects"] \subseteq cover
            /\ report.migrated["sources"] \subseteq cover /\ report.migrated["flows"] \subseteq cover
            /\ report.migrated["jobs"] \subseteq cover
        BY <2>4 DEF Tables
      <3> QED  BY <2>1, <3>1 DEF Accounted, V1Rows
    <2>7. V1Rows = cover \union report.skipped
      BY <2>2, <2>5, <2>6
    <2>8. V1Users \union V1Projects \union V1Sources \union V1Flows \union V1Jobs
          = (UNION {report.migrated[u] : u \in DOMAIN report.migrated}) \union report.skipped
      BY <2>7 DEF V1Rows, cover
    <2>9. /\ report.migrated["users"] = newDb.users /\ report.migrated["flows"] = newDb.flows
          /\ report.migrated["sources"] = {d.id : d \in newDb.sources}
          /\ report.migrated["jobs"] = {j.id : j \in newDb.jobs}
      BY <2>1, Zenon DEF Accounted, SourceIds, JobIds
    <2> QED  BY <2>8, <2>9, Zenon DEF SuccessIsWhole
  <1> QED  BY <1>1, <1>2 DEF MigrateIInv, MigrateInv

(* A migration of 1.x, however often it is aborted, killed and started again,*)
(* leaves no row that refers to nothing, says complete only when everything  *)
(* was carried over, and carries workflows over together or not at all.      *)
THEOREM MigrationIsSafe == MigrateSpec => []MigrateInv
  <1>1. MigrateSpec => []MigrateIInv
    BY MigrateInitially, MigrateStep, PTL DEF MigrateSpec
  <1> QED  BY <1>1, MigrateImplied, PTL

------------------------------------------------------------------------------
(* The import of compare tasks.                                              *)

Ids == 0..MaxIds
Flows == [id : Ids, refs : SUBSET Ids, schedule : Nat]
ApplySteps == {"ready", "listed", "planning", "tasks", "workflow", "done", "rejected", "failed", "conflict"}
Applies == [pc : ApplySteps, seen : [ImportTables -> Ids], flow : Flows,
            applied : [ImportTables -> Ids], notifies : BOOLEAN]
Histories == [count : Nat, raced : BOOLEAN, deletes : Nat, overlap : BOOLEAN]

ImportShape ==
    /\ scripts \in [DidaTasks -> [ImportTables -> (SUBSET Predicates) \union {Untouched}]]
    /\ tasks \in [ImportTables -> Ids] /\ flow \in Flows /\ apply \in [Appliers -> Applies]
    /\ made \in [1..MaxIds -> ImportTables \union {"flow", "unused"}]
    /\ edits \in Histories

(* Ids are given out in order.                                               *)
IdsInOrder == \E n \in Ids : \A i \in 1..MaxIds : made[i] # "unused" <=> i <= n

MadeFor(i, what, mk) == i \in 1..MaxIds /\ mk[i] = what

(* What is stored has an id of its own.                                      *)
StoredIs ==
    /\ \A t \in ImportTables : tasks[t] # 0 => MadeFor(tasks[t], t, made)
    /\ flow = NoFlow \/ MadeFor(flow.id, "flow", made)

(* What an applier has seen and done is there unless somebody deleted it.    *)
ApplierIs(r, ts, fl, mk, deletes) ==
    /\ \A t \in ImportTables :
          /\ r.applied[t] # 0 => MadeFor(r.applied[t], t, mk) /\ (deletes = 0 => ts[t] = r.applied[t])
          /\ r.seen[t] # 0 => (deletes = 0 => ts[t] = r.seen[t])
    /\ r.flow # NoFlow => r.flow.id # 0 /\ (deletes = 0 => fl.id = r.flow.id)
    /\ r.pc \in {"workflow", "done"} => \A t \in Applicable : r.applied[t] # 0
    /\ r.pc = "ready" => r = Start

AppliersAre == \A a \in Appliers : ApplierIs(apply[a], tasks, flow, made, edits.deletes)

AtWork(r) == r.pc \in {"listed", "planning", "tasks", "workflow"}

(* An applier that is alone makes all that is new.                           *)
AloneIs(r, ts, fl) ==
    /\ \A t \in ImportTables : ts[t] \in {0, r.seen[t], r.applied[t]}
    /\ r.pc # "listed" /\ r.flow = NoFlow => fl = NoFlow

OneAtATime ==
    /\ ~edits.overlap => \A a, b \in Appliers : AtWork(apply[a]) /\ AtWork(apply[b]) => a = b
    /\ ~edits.overlap /\ edits.deletes = 0 =>
          \A a \in Appliers : AtWork(apply[a]) => AloneIs(apply[a], tasks, flow)

ImportIInv ==
    /\ ImportShape /\ IdsInOrder /\ StoredIs /\ AppliersAre /\ OneAtATime
    /\ FlowCoversTables /\ ScheduleSurvives /\ StartingOverConverges

(* The manifest.                                                             *)
LEMMA SureIsUnanimous == ASSUME ImportShape PROVE ManifestUnanimous
  <1> SUFFICES ASSUME NEW t \in Applicable
               PROVE  \E p \in Predicates : \A d \in WritersOf(t) : scripts[d][t] = {p}
    BY DEF ManifestUnanimous
  <1>1. t \in ImportTables /\ Cardinality(Found(t)) = 1 /\ \A d \in WritersOf(t) : scripts[d][t] # {}
    BY DEF Applicable, Sure, Unfound
  <1>2. \A d \in WritersOf(t) : scripts[d][t] \subseteq Predicates
    BY <1>1 DEF WritersOf, ImportShape
  <1>3. Found(t) \subseteq Predicates /\ \A d \in WritersOf(t) : scripts[d][t] \subseteq Found(t)
    BY <1>2 DEF Found
  <1>4. PICK p : Found(t) = {p}
    <2>1. IsFiniteSet(Found(t))
      BY <1>3, FS_Subset, ImportBounds
    <2> QED  BY <1>1, <2>1, FS_Singleton
  <1> QED  BY <1>1, <1>3, <1>4

(* The ids.                                                                  *)
LEMMA FreshIs ==
    ASSUME ImportShape, IdsInOrder
    PROVE  /\ FreshId \in Nat /\ FreshId >= 1
           /\ \A i \in 1..MaxIds : made[i] # "unused" <=> i < FreshId
  <1>1. PICK n \in Ids : \A i \in 1..MaxIds : made[i] # "unused" <=> i <= n
    BY DEF IdsInOrder
  <1>2. n \in Nat /\ n <= MaxIds /\ MaxIds \in Nat
    BY ImportBounds DEF Ids
  <1>3. DOMAIN made = 1..MaxIds
    BY DEF ImportShape
  <1>4. {i \in DOMAIN made : made[i] # "unused"} = 1..n
    BY <1>1, <1>2, <1>3
  <1>5. Cardinality(1..n) = n
    BY <1>2, FS_Interval
  <1>6. FreshId = n + 1
    BY <1>4, <1>5, Zenon DEF FreshId
  <1> QED  BY <1>1, <1>2, <1>6

LEMMA CreatedIs ==
    ASSUME ImportShape, IdsInOrder, FreshId <= MaxIds, NEW what \in ImportTables \union {"flow"}, Create(what)
    PROVE  /\ FreshId \in 1..MaxIds /\ FreshId \in Ids /\ made[FreshId] = "unused"
           /\ made' \in [1..MaxIds -> ImportTables \union {"flow", "unused"}] /\ IdsInOrder'
           /\ made'[FreshId] = what
           /\ \A i \in 1..MaxIds : made[i] # "unused" => made'[i] = made[i]
  <1> DEFINE f == FreshId
  <1>1. f \in Nat /\ f >= 1 /\ \A i \in 1..MaxIds : made[i] # "unused" <=> i < f
    BY FreshIs
  <1>2. made' = [made EXCEPT ![f] = what] /\ f <= MaxIds /\ what # "unused"
    BY ImportBounds DEF Create
  <1> HIDE DEF f
  <1>3. f \in 1..MaxIds /\ f \in Ids /\ made[f] = "unused" /\ MaxIds \in Nat
    BY <1>1, <1>2, ImportBounds DEF Ids
  <1>4. /\ made' \in [1..MaxIds -> ImportTables \union {"flow", "unused"}] /\ made'[f] = what
        /\ \A i \in 1..MaxIds : i # f => made'[i] = made[i]
    BY <1>2, <1>3 DEF ImportShape
  <1>5. \A i \in 1..MaxIds : made'[i] # "unused" <=> i <= f
    BY <1>1, <1>2, <1>3, <1>4
  <1>6. IdsInOrder'
    BY <1>3, <1>5 DEF IdsInOrder, Ids
  <1> QED  BY <1>3, <1>4, <1>6 DEF f

(* What an applier has is not taken back by what others do.                  *)
LEMMA ApplierStays ==
    ASSUME ImportShape, NEW r \in Applies, NEW d, NEW ts, NEW fl, NEW mk, NEW e,
           ApplierIs(r, tasks, flow, made, d),
           \A i \in 1..MaxIds : made[i] # "unused" => mk[i] = made[i],
           e = 0 => /\ d = 0 /\ (flow # NoFlow => fl.id = flow.id)
                    /\ \A t \in ImportTables : tasks[t] # 0 => ts[t] = tasks[t]
    PROVE  ApplierIs(r, ts, fl, mk, e)
  <1>1. \A t \in ImportTables : t # "unused"
    BY ImportBounds
  <1>2. NoFlow.id = 0
    BY DEF NoFlow
  <1> QED  BY <1>1, <1>2 DEF ApplierIs, MadeFor

LEMMA Moved ==
    ASSUME ImportShape, NEW a \in Appliers, NEW r \in Applies, Move(a, r)
    PROVE  /\ apply' \in [Appliers -> Applies] /\ apply'[a] = r
           /\ \A b \in Appliers : b # a => apply'[b] = apply[b]
  BY DEF Move, ImportShape

(* Only an applier moves.                                                    *)
LEMMA MoveKeeps ==
    ASSUME ImportIInv, NEW a \in Appliers, NEW r \in Applies, Move(a, r),
           UNCHANGED <<scripts, tasks, flow, made, edits>>,
           ApplierIs(r, tasks, flow, made, edits.deletes),
           AtWork(r) => /\ AtWork(apply[a])
                        /\ (~edits.overlap /\ edits.deletes = 0 => AloneIs(r, tasks, flow)),
           r.pc = "conflict" => edits.deletes > 0 \/ edits.overlap
    PROVE  ImportIInv'
  <1> USE DEF ImportIInv
  <1>1. /\ apply' \in [Appliers -> Applies] /\ apply'[a] = r
        /\ \A b \in Appliers : b # a => apply'[b] = apply[b]
    BY Moved
  <1>2. Applicable' = Applicable
    BY DEF Applicable, Sure, Unfound, Found, WritersOf
  <1>3. ImportShape' /\ IdsInOrder' /\ StoredIs'
    BY <1>1 DEF ImportShape, IdsInOrder, StoredIs
  <1>7. FlowCoversTables' /\ ScheduleSurvives'
    BY <1>2 DEF FlowCoversTables, ScheduleSurvives
  <1>4. AppliersAre'
    BY <1>1, <1>2 DEF AppliersAre, ApplierIs
  <1>5. OneAtATime'
    BY <1>1 DEF OneAtATime
  <1>6. StartingOverConverges'
    BY <1>1 DEF StartingOverConverges
  <1> QED  BY <1>3, <1>4, <1>5, <1>6, <1>7

LEMMA RunsEnd ==
    ASSUME ImportIInv, NEW a \in Appliers, NEW pc \in {"rejected", "failed", "conflict"},
           Move(a, [apply[a] EXCEPT !.pc = pc]), UNCHANGED <<scripts, tasks, flow, made, edits>>,
           pc = "conflict" => edits.deletes > 0 \/ edits.overlap
    PROVE  ImportIInv'
  <1> DEFINE r == [apply[a] EXCEPT !.pc = pc]
  <1>1. apply[a] \in Applies
    BY DEF ImportIInv, ImportShape
  <1>2. /\ r \in Applies /\ r.pc = pc /\ r.applied = apply[a].applied /\ r.seen = apply[a].seen
        /\ r.flow = apply[a].flow
    BY <1>1 DEF Applies, ApplySteps
  <1>3. Move(a, r)
    OBVIOUS
  <1> HIDE DEF r
  <1>4. ApplierIs(r, tasks, flow, made, edits.deletes)
    BY <1>2 DEF ImportIInv, AppliersAre, ApplierIs
  <1> QED  BY <1>2, <1>3, <1>4, MoveKeeps DEF AtWork

LEMMA GoesOn ==
    ASSUME ImportIInv, NEW a \in Appliers, NEW pc \in {"planning", "tasks"}, AtWork(apply[a]),
           apply[a].pc # "listed",
           Move(a, [apply[a] EXCEPT !.pc = pc]), UNCHANGED <<scripts, tasks, flow, made, edits>>
    PROVE  ImportIInv'
  <1> DEFINE r == [apply[a] EXCEPT !.pc = pc]
  <1>1. apply[a] \in Applies
    BY DEF ImportIInv, ImportShape
  <1>2. /\ r \in Applies /\ r.pc = pc /\ r.applied = apply[a].applied /\ r.seen = apply[a].seen
        /\ r.flow = apply[a].flow
    BY <1>1 DEF Applies, ApplySteps
  <1>3. Move(a, r)
    OBVIOUS
  <1> HIDE DEF r
  <1>4. ApplierIs(r, tasks, flow, made, edits.deletes)
    BY <1>2 DEF ImportIInv, AppliersAre, ApplierIs
  <1>5. ~edits.overlap /\ edits.deletes = 0 => AloneIs(r, tasks, flow)
    BY <1>2 DEF ImportIInv, OneAtATime, AloneIs
  <1> QED  BY <1>2, <1>3, <1>4, <1>5, MoveKeeps

LEMMA WorkIs ==
    ASSUME ImportIInv, NEW a \in Appliers
    PROVE  /\ apply[a] \in Applies
           /\ UnderWay(a) <=> AtWork(apply[a])
           /\ ApplierIs(apply[a], tasks, flow, made, edits.deletes)
           /\ AtWork(apply[a]) /\ ~edits.overlap /\ edits.deletes = 0 => AloneIs(apply[a], tasks, flow)
  <1>1. apply[a] \in Applies
    BY DEF ImportIInv, ImportShape
  <1>2. apply[a].pc \in ApplySteps
    BY <1>1 DEF Applies
  <1>3. UnderWay(a) <=> AtWork(apply[a])
    BY <1>2 DEF UnderWay, AtWork, ApplySteps
  <1> QED  BY <1>1, <1>3 DEF ImportIInv, AppliersAre, OneAtATime

LEMMA DeletesAre == ASSUME ImportShape PROVE edits.deletes \in Nat /\ edits.overlap \in BOOLEAN
  BY DEF ImportShape, Histories

LEMMA PlanKeeps == ASSUME ImportIInv, NEW a \in Appliers, Plan(a) PROVE ImportIInv'
  <1>1. PICK to \in {"rejected", "tasks"} : Move(a, [apply[a] EXCEPT !.pc = to])
    BY DEF Plan
  <1>2. CASE to = "rejected"
    BY <1>1, <1>2, RunsEnd DEF Plan
  <1>3. CASE to = "tasks"
    BY <1>1, <1>3, GoesOn DEF Plan, AtWork
  <1> QED  BY <1>2, <1>3

LEMMA RequestFailsKeeps == ASSUME ImportIInv, NEW a \in Appliers, RequestFails(a) PROVE ImportIInv'
  BY RunsEnd DEF RequestFails

LEMMA StartIs ==
    /\ Start \in Applies /\ Start.pc = "ready" /\ Start.flow = NoFlow
    /\ \A t \in ImportTables : Start.applied[t] = 0 /\ Start.seen[t] = 0
  <1>1. NoFlow \in Flows /\ 0 \in Ids
    BY ImportBounds DEF NoFlow, Flows, Ids
  <1> HIDE DEF NoFlow
  <1> QED  BY <1>1 DEF Start, Applies, ApplySteps

LEMMA StartOverKeeps == ASSUME ImportIInv, NEW a \in Appliers, StartOver(a) PROVE ImportIInv'
  <1>1. /\ Start \in Applies /\ Start.pc = "ready" /\ Start.flow = NoFlow
        /\ \A t \in ImportTables : Start.applied[t] = 0 /\ Start.seen[t] = 0
    BY StartIs
  <1>2. ApplierIs(Start, tasks, flow, made, edits.deletes)
    BY <1>1 DEF ApplierIs
  <1>3. ~AtWork(Start)
    BY <1>1 DEF AtWork
  <1> QED  BY <1>1, <1>2, <1>3, MoveKeeps DEF StartOver

LEMMA SnapshotFlowKeeps == ASSUME ImportIInv, NEW a \in Appliers, SnapshotFlow(a) PROVE ImportIInv'
  <1> DEFINE to == IF apply[a].notifies /\ flow = NoFlow THEN "rejected" ELSE "planning"
             r == [apply[a] EXCEPT !.flow = flow, !.pc = to]
  <1>1. apply[a] \in Applies /\ flow \in Flows
    BY WorkIs DEF ImportIInv, ImportShape
  <1>2. to \in {"rejected", "planning"}
    OBVIOUS
  <1>3. Move(a, r) /\ apply[a].pc = "listed" /\ UNCHANGED <<scripts, tasks, flow, made, edits>>
    BY DEF SnapshotFlow
  <1> HIDE DEF to
  <1>4. /\ r \in Applies /\ r.pc = to /\ r.applied = apply[a].applied /\ r.seen = apply[a].seen
        /\ r.flow = flow
    BY <1>1, <1>2 DEF Applies, ApplySteps
  <1> HIDE DEF r
  <1>5. flow # NoFlow => flow.id # 0
    BY DEF ImportIInv, StoredIs, MadeFor
  <1>6. ApplierIs(r, tasks, flow, made, edits.deletes)
    BY <1>2, <1>4, <1>5, WorkIs DEF ApplierIs
  <1>7. AtWork(apply[a])
    BY <1>3 DEF AtWork
  <1>8. ~edits.overlap /\ edits.deletes = 0 => AloneIs(r, tasks, flow)
    BY <1>4, <1>7, WorkIs DEF AloneIs
  <1> QED  BY <1>2, <1>3, <1>4, <1>6, <1>7, <1>8, MoveKeeps

LEMMA ReadFlowKeeps == ASSUME ImportIInv, NEW a \in Appliers, ReadFlow(a) PROVE ImportIInv'
  <1> DEFINE old == apply[a].flow
             new == IF old = NoFlow \/ apply[a].notifies THEN old ELSE flow
             r == [apply[a] EXCEPT !.pc = "workflow", !.flow = new]
  <1>1. /\ apply[a] \in Applies /\ flow \in Flows /\ old \in Flows
        /\ apply[a].pc = "tasks" /\ Pending(a) = {} /\ UNCHANGED <<scripts, tasks, flow, made, edits>>
    BY WorkIs DEF ImportIInv, ImportShape, ReadFlow, Applies
  <1>2. ApplierIs(apply[a], tasks, flow, made, edits.deletes) /\ AtWork(apply[a])
    BY <1>1, WorkIs DEF AtWork
  <1>3. CASE old # NoFlow /\ ~apply[a].notifies /\ flow.id # old.id
    <2>1. Move(a, [apply[a] EXCEPT !.pc = "conflict"])
      BY <1>3 DEF ReadFlow
    <2>2. edits.deletes > 0
      BY <1>2, <1>3, DeletesAre DEF ApplierIs, ImportIInv
    <2> QED  BY <1>1, <2>1, <2>2, RunsEnd
  <1>4. CASE ~(old # NoFlow /\ ~apply[a].notifies /\ flow.id # old.id)
    <2>1. Move(a, r)
      BY <1>4 DEF ReadFlow
    <2>2. new \in Flows /\ (new = NoFlow <=> old = NoFlow) /\ (new # NoFlow => new.id = old.id)
      <3>1. old # NoFlow => old.id # 0
        BY <1>2 DEF ApplierIs
      <3> QED  BY <1>1, <1>4, <3>1 DEF NoFlow
    <2> HIDE DEF new
    <2>3. /\ r \in Applies /\ r.pc = "workflow" /\ r.applied = apply[a].applied /\ r.seen = apply[a].seen
          /\ r.flow = new
      BY <1>1, <2>2 DEF Applies, ApplySteps
    <2> HIDE DEF r
    <2>4. \A t \in Applicable : r.applied[t] # 0
      BY <1>1, <2>3 DEF Pending
    <2>5. ApplierIs(r, tasks, flow, made, edits.deletes)
      BY <1>2, <2>2, <2>3, <2>4 DEF ApplierIs
    <2>6. ~edits.overlap /\ edits.deletes = 0 => AloneIs(r, tasks, flow)
      BY <1>1, <1>2, <2>2, <2>3, WorkIs DEF AloneIs
    <2> QED  BY <1>1, <1>2, <2>1, <2>3, <2>5, <2>6, MoveKeeps
  <1> QED  BY <1>3, <1>4

LEMMA SnapshotTasksKeeps == ASSUME ImportIInv, NEW a \in Appliers, SnapshotTasks(a) PROVE ImportIInv'
  <1> USE DEF ImportIInv
  <1> DEFINE over == \E b \in Appliers : UnderWay(b)
  <1>1. PICK n \in BOOLEAN : Move(a, [apply[a] EXCEPT !.pc = "listed", !.seen = tasks, !.notifies = n])
    BY DEF SnapshotTasks
  <1> DEFINE r == [apply[a] EXCEPT !.pc = "listed", !.seen = tasks, !.notifies = n]
  <1>2. /\ apply[a] \in Applies /\ tasks \in [ImportTables -> Ids] /\ edits \in Histories
        /\ apply[a].pc = "ready" /\ UNCHANGED <<scripts, tasks, flow, made>>
        /\ edits' = [edits EXCEPT !.overlap = @ \/ over]
    BY WorkIs DEF ImportShape, SnapshotTasks
  <1>3. /\ r \in Applies /\ r.pc = "listed" /\ r.applied = apply[a].applied /\ r.seen = tasks
        /\ r.flow = apply[a].flow
    BY <1>2 DEF Applies, ApplySteps
  <1>4. Move(a, r)
    BY <1>1
  <1> HIDE DEF r, over
  <1>5. /\ edits' \in Histories /\ edits'.count = edits.count /\ edits'.raced = edits.raced
        /\ edits'.deletes = edits.deletes /\ (edits'.overlap <=> edits.overlap \/ over)
    <2>1. over \in BOOLEAN
      BY DEF over
    <2> QED  BY <1>2, <2>1 DEF Histories
  <1>6. /\ apply' \in [Appliers -> Applies] /\ apply'[a] = r
        /\ \A b \in Appliers : b # a => apply'[b] = apply[b]
    BY <1>3, <1>4, Moved
  <1>7. Applicable' = Applicable
    BY <1>2 DEF Applicable, Sure, Unfound, Found, WritersOf
  <1>8. ImportShape' /\ IdsInOrder' /\ StoredIs'
    BY <1>2, <1>5, <1>6 DEF ImportShape, IdsInOrder, StoredIs
  <1>9. FlowCoversTables' /\ ScheduleSurvives'
    BY <1>2, <1>5, <1>7 DEF FlowCoversTables, ScheduleSurvives
  <1>10. apply[a] = Start /\ r.flow = NoFlow /\ \A t \in ImportTables : r.applied[t] = 0
    BY <1>2, <1>3, WorkIs, StartIs DEF ApplierIs
  <1>11. ApplierIs(r, tasks, flow, made, edits.deletes)
    BY <1>3, <1>10 DEF ApplierIs
  <1>12. AppliersAre'
    BY <1>2, <1>5, <1>6, <1>7, <1>11 DEF AppliersAre, ApplierIs
  <1>13. ~over => \A b \in Appliers : ~AtWork(apply[b])
    BY WorkIs DEF over
  <1>14. AloneIs(r, tasks, flow)
    BY <1>3 DEF AloneIs
  <1>15. OneAtATime'
    <2>1. ~edits'.overlap => \A b \in Appliers : AtWork(apply'[b]) => b = a
      BY <1>5, <1>6, <1>13
    <2> QED  BY <1>2, <1>5, <1>6, <1>14, <2>1 DEF OneAtATime
  <1>16. StartingOverConverges'
    BY <1>3, <1>5, <1>6 DEF StartingOverConverges
  <1> QED  BY <1>8, <1>9, <1>12, <1>15, <1>16

(* A task is taken up, or made.                                              *)
Taken(r, t, i, pc) == [[r EXCEPT !.applied[t] = i] EXCEPT !.pc = pc]

LEMMA AppliedIs ==
    ASSUME NEW r \in Applies, NEW t \in ImportTables, NEW i \in Ids, NEW pc \in {"tasks", "failed"}
    PROVE  /\ Taken(r, t, i, pc) \in Applies /\ Taken(r, t, i, pc).pc = pc
           /\ Taken(r, t, i, pc).seen = r.seen /\ Taken(r, t, i, pc).flow = r.flow
           /\ Taken(r, t, i, pc).applied[t] = i
           /\ \A u \in ImportTables : u # t => Taken(r, t, i, pc).applied[u] = r.applied[u]
  BY DEF Applies, ApplySteps, Taken

LEMMA AnsweredIs ==
    ASSUME NEW a \in Appliers, apply[a] \in Applies, apply[a].pc = "tasks", NEW t \in ImportTables, NEW i \in Ids,
           Answered(a, [apply[a] EXCEPT !.applied[t] = i])
    PROVE  \E pc \in {"tasks", "failed"} : Move(a, Taken(apply[a], t, i, pc))
  <1> DEFINE r == [apply[a] EXCEPT !.applied[t] = i]
  <1>1. [r EXCEPT !.pc = "tasks"] = r
    BY DEF Applies
  <1> HIDE DEF r
  <1>2. Move(a, [r EXCEPT !.pc = "tasks"]) \/ Move(a, [r EXCEPT !.pc = "failed"])
    BY <1>1 DEF Answered, r
  <1> QED  BY <1>2 DEF r, Taken

LEMMA PatchKeeps ==
    ASSUME ImportIInv, NEW a \in Appliers, apply[a].pc = "tasks", NEW t \in ImportTables,
           tasks[t] = SeenId(a, t), SeenId(a, t) # 0,
           Answered(a, [apply[a] EXCEPT !.applied[t] = tasks[t]]),
           UNCHANGED <<scripts, tasks, flow, made, edits>>
    PROVE  ImportIInv'
  <1>1. /\ apply[a] \in Applies /\ tasks[t] \in Ids /\ AtWork(apply[a])
        /\ ApplierIs(apply[a], tasks, flow, made, edits.deletes)
    BY WorkIs DEF ImportIInv, ImportShape, AtWork
  <1>2. PICK pc \in {"tasks", "failed"} : Move(a, Taken(apply[a], t, tasks[t], pc))
    BY <1>1, AnsweredIs
  <1> DEFINE q == Taken(apply[a], t, tasks[t], pc)
  <1>3. /\ q \in Applies /\ q.pc = pc /\ q.seen = apply[a].seen /\ q.flow = apply[a].flow
        /\ q.applied[t] = tasks[t]
        /\ \A u \in ImportTables : u # t => q.applied[u] = apply[a].applied[u]
    BY <1>1, AppliedIs
  <1>4. Move(a, q)
    BY <1>2
  <1> HIDE DEF q
  <1>5. MadeFor(tasks[t], t, made)
    BY DEF ImportIInv, StoredIs
  <1>6. ApplierIs(q, tasks, flow, made, edits.deletes)
    BY <1>1, <1>3, <1>5 DEF ApplierIs
  <1>7. ~edits.overlap /\ edits.deletes = 0 => AloneIs(q, tasks, flow)
    BY <1>1, <1>3, WorkIs DEF AloneIs
  <1> QED  BY <1>1, <1>3, <1>4, <1>6, <1>7, MoveKeeps

LEMMA PostKeeps ==
    ASSUME ImportIInv, NEW a \in Appliers, apply[a].pc = "tasks", NEW t \in ImportTables, t \in Applicable,
           tasks[t] = 0, FreshId <= MaxIds, Create(t), tasks' = [tasks EXCEPT ![t] = FreshId],
           Answered(a, [apply[a] EXCEPT !.applied[t] = FreshId]), UNCHANGED <<scripts, flow, edits>>
    PROVE  ImportIInv'
  <1> USE DEF ImportIInv
  <1> DEFINE i == FreshId
  <1>1. /\ i \in 1..MaxIds /\ i \in Ids /\ made[i] = "unused" /\ made'[i] = t /\ IdsInOrder'
        /\ made' \in [1..MaxIds -> ImportTables \union {"flow", "unused"}]
        /\ \A j \in 1..MaxIds : made[j] # "unused" => made'[j] = made[j]
    BY CreatedIs
  <1>2. tasks' = [tasks EXCEPT ![t] = i] /\ Answered(a, [apply[a] EXCEPT !.applied[t] = i])
    OBVIOUS
  <1> HIDE DEF i
  <1>3. /\ apply[a] \in Applies /\ AtWork(apply[a]) /\ edits \in Histories /\ flow \in Flows
        /\ ApplierIs(apply[a], tasks, flow, made, edits.deletes) /\ tasks \in [ImportTables -> Ids]
    BY WorkIs DEF ImportShape, AtWork
  <1>4. PICK pc \in {"tasks", "failed"} : Move(a, Taken(apply[a], t, i, pc))
    BY <1>1, <1>2, <1>3, AnsweredIs
  <1> DEFINE q == Taken(apply[a], t, i, pc)
  <1>5. /\ q \in Applies /\ q.pc = pc /\ q.seen = apply[a].seen /\ q.flow = apply[a].flow
        /\ q.applied[t] = i
        /\ \A u \in ImportTables : u # t => q.applied[u] = apply[a].applied[u]
    <2>1. apply[a] \in Applies /\ i \in Ids
      BY <1>1, <1>3
    <2> QED  BY <2>1, AppliedIs
  <1>6. Move(a, q)
    BY <1>4
  <1> HIDE DEF q
  <1>7. /\ tasks' \in [ImportTables -> Ids] /\ tasks'[t] = i
        /\ \A u \in ImportTables : u # t => tasks'[u] = tasks[u]
    BY <1>1, <1>2, <1>3
  <1>8. /\ apply' \in [Appliers -> Applies] /\ apply'[a] = q
        /\ \A b \in Appliers : b # a => apply'[b] = apply[b]
    BY <1>5, <1>6, Moved
  <1>9. ImportShape'
    BY <1>1, <1>7, <1>8 DEF ImportShape
  <1>10. StoredIs'
    <2>1. "flow" # "unused" /\ \A u \in ImportTables : u # "unused"
      BY ImportBounds
    <2> QED  BY <1>1, <1>7, <2>1 DEF StoredIs, MadeFor
  <1>11. Applicable' = Applicable
    BY DEF Applicable, Sure, Unfound, Found, WritersOf
  <1>12. \A r \in Applies : ApplierIs(r, tasks, flow, made, edits.deletes)
                              => ApplierIs(r, tasks', flow, made', edits.deletes)
    BY <1>1, <1>7, ApplierStays
  <1>13. ApplierIs(q, tasks', flow, made', edits.deletes)
    <2>1. ApplierIs(apply[a], tasks', flow, made', edits.deletes)
      BY <1>3, <1>12
    <2>2. i # 0 /\ MadeFor(i, t, made')
      BY <1>1 DEF MadeFor
    <2>3. \A u \in ImportTables : /\ q.applied[u] # 0 => /\ MadeFor(q.applied[u], u, made')
                                                         /\ (edits.deletes = 0 => tasks'[u] = q.applied[u])
                                  /\ q.seen[u] # 0 => (edits.deletes = 0 => tasks'[u] = q.seen[u])
      BY <1>5, <1>7, <2>1, <2>2 DEF ApplierIs
    <2> QED  BY <1>5, <2>1, <2>3 DEF ApplierIs
  <1>14. AppliersAre'
    <2>1. \A b \in Appliers : ApplierIs(apply'[b], tasks', flow, made', edits.deletes)
      BY <1>3, <1>8, <1>12, <1>13, WorkIs
    <2> QED  BY <1>11, <2>1 DEF AppliersAre, ApplierIs
  <1>15. OneAtATime'
    <2>1. ~edits.overlap => \A b \in Appliers : AtWork(apply'[b]) => b = a
      BY <1>3, <1>8 DEF OneAtATime
    <2>2. ~edits.overlap /\ edits.deletes = 0 => AloneIs(q, tasks', flow)
      BY <1>3, <1>5, <1>7, WorkIs DEF AloneIs
    <2> QED  BY <1>8, <2>1, <2>2 DEF OneAtATime
  <1>16. FlowCoversTables'
    <2> SUFFICES ASSUME flow # NoFlow PROVE FlowCoversTables'
      BY DEF FlowCoversTables
    <2>1. /\ 0 \notin flow.refs /\ {made[j] : j \in flow.refs} = Applicable
          /\ Cardinality(flow.refs) = Cardinality(Applicable)
          /\ edits.deletes = 0 => flow.refs = {tasks[u] : u \in Applicable}
      BY DEF FlowCoversTables
    <2>2. \A j \in flow.refs : j \in 1..MaxIds /\ made'[j] = made[j]
      <3>1. \A j \in flow.refs : j \in 1..MaxIds
        BY <1>3, <2>1, ImportBounds DEF Flows, Ids
      <3>2. \A j \in flow.refs : made[j] \in Applicable
        BY <2>1
      <3>3. \A j \in flow.refs : made[j] # "unused"
        BY <3>2, ImportBounds DEF Applicable
      <3> QED  BY <1>1, <3>1, <3>3
    <2>3. {made'[j] : j \in flow.refs} = Applicable
      BY <2>1, <2>2
    <2>4. edits.deletes # 0
      BY <2>1
    <2> QED  BY <1>11, <2>1, <2>3, <2>4 DEF FlowCoversTables
  <1>17. ScheduleSurvives'
    BY DEF ScheduleSurvives
  <1>18. StartingOverConverges'
    BY <1>5, <1>8 DEF StartingOverConverges
  <1> QED  BY <1>1, <1>9, <1>10, <1>14, <1>15, <1>16, <1>17, <1>18

LEMMA ApplyTaskKeeps ==
    ASSUME ImportIInv, NEW a \in Appliers, NEW t \in ImportTables, ApplyTask(a, t) PROVE ImportIInv'
  <1>1. /\ apply[a].pc = "tasks" /\ t \in Pending(a) /\ UNCHANGED <<scripts, flow, edits>>
        /\ t \in Applicable /\ apply[a].applied[t] = 0 /\ AtWork(apply[a])
        /\ ApplierIs(apply[a], tasks, flow, made, edits.deletes)
    BY WorkIs DEF ApplyTask, Pending, AtWork
  <1>2. edits.deletes \in Nat /\ edits.overlap \in BOOLEAN
    BY DeletesAre DEF ImportIInv
  <1>3. CASE SeenId(a, t) = 0 /\ tasks[t] # 0
    <2>1. Move(a, [apply[a] EXCEPT !.pc = "conflict"]) /\ UNCHANGED <<tasks, made>>
      BY <1>3 DEF ApplyTask
    <2>2. edits.deletes > 0 \/ edits.overlap
      BY <1>1, <1>2, <1>3, WorkIs DEF AloneIs, SeenId
    <2> QED  BY <1>1, <2>1, <2>2, RunsEnd
  <1>4. CASE SeenId(a, t) = 0 /\ tasks[t] = 0
    <2>1. /\ FreshId <= MaxIds /\ Create(t) /\ tasks' = [tasks EXCEPT ![t] = FreshId]
          /\ Answered(a, [apply[a] EXCEPT !.applied[t] = FreshId])
      BY <1>4 DEF ApplyTask
    <2> QED  BY <1>1, <1>4, <2>1, PostKeeps
  <1>5. CASE SeenId(a, t) # 0 /\ tasks[t] # SeenId(a, t)
    <2>1. Move(a, [apply[a] EXCEPT !.pc = "conflict"]) /\ UNCHANGED <<tasks, made>>
      BY <1>5 DEF ApplyTask
    <2>2. edits.deletes > 0
      BY <1>1, <1>2, <1>5 DEF ApplierIs, SeenId
    <2> QED  BY <1>1, <2>1, <2>2, RunsEnd
  <1>6. CASE SeenId(a, t) # 0 /\ tasks[t] = SeenId(a, t)
    <2>1. Answered(a, [apply[a] EXCEPT !.applied[t] = tasks[t]]) /\ UNCHANGED <<tasks, made>>
      BY <1>6 DEF ApplyTask
    <2> QED  BY <1>1, <1>6, <2>1, PatchKeeps
  <1> QED  BY <1>3, <1>4, <1>5, <1>6

(* The workflow.                                                             *)
LEMMA RefsCover ==
    ASSUME NEW f \in [ImportTables -> Ids], NEW mk, \A t \in Applicable : MadeFor(f[t], t, mk),
           NEW refs, refs = {f[t] : t \in Applicable}
    PROVE  /\ 0 \notin refs /\ {mk[i] : i \in refs} = Applicable
           /\ Cardinality(refs) = Cardinality(Applicable)
  <1> DEFINE g == [t \in Applicable |-> f[t]]
  <1>1. Applicable \subseteq ImportTables /\ IsFiniteSet(Applicable)
    BY FS_Subset, ImportBounds DEF Applicable
  <1>2. \A t \in Applicable : f[t] \in Ids /\ f[t] # 0 /\ mk[f[t]] = t
    BY <1>1 DEF MadeFor
  <1>3. g \in Bijection(Applicable, refs)
    <2>1. g \in [Applicable -> refs] /\ \A t \in Applicable : g[t] = f[t]
      OBVIOUS
    <2>2. \A r \in refs : \E t \in Applicable : g[t] = r
      BY <2>1
    <2>3. \A t, u \in Applicable : g[t] = g[u] => t = u
      BY <1>2, <2>1
    <2> HIDE DEF g
    <2> QED  BY <2>1, <2>2, <2>3 DEF Bijection, Injection, Surjection, IsInjective
  <1>4. Cardinality(refs) = Cardinality(Applicable)
    BY <1>1, <1>3, FS_Bijection DEF ExistsBijection
  <1>5. 0 \notin refs
    BY <1>2
  <1>6. {mk[i] : i \in refs} = Applicable
    BY <1>2
  <1> QED  BY <1>4, <1>5, <1>6

(* The workflow becomes new, by an applier that has all its tasks.           *)
LEMMA FlowKeeps ==
    ASSUME ImportIInv, NEW a \in Appliers, apply[a].pc = "workflow",
           Answered(a, [apply[a] EXCEPT !.pc = "done"]), UNCHANGED <<scripts, tasks>>,
           made' \in [1..MaxIds -> ImportTables \union {"flow", "unused"}], IdsInOrder',
           \A i \in 1..MaxIds : made[i] # "unused" => made'[i] = made[i],
           flow' \in Flows, flow'.refs = FlowRefs(a), MadeFor(flow'.id, "flow", made'),
           flow # NoFlow => flow'.id = flow.id,
           edits' \in Histories, edits'.deletes = edits.deletes, edits'.overlap = edits.overlap,
           ~edits'.raced => flow'.schedule = edits'.count
    PROVE  ImportIInv'
  <1> USE DEF ImportIInv
  <1>1. /\ apply[a] \in Applies /\ AtWork(apply[a])
        /\ ApplierIs(apply[a], tasks, flow, made, edits.deletes)
    BY WorkIs DEF AtWork
  <1>2. PICK pc \in {"done", "failed"} : Move(a, [apply[a] EXCEPT !.pc = pc])
    <2>1. [[apply[a] EXCEPT !.pc = "done"] EXCEPT !.pc = "failed"] = [apply[a] EXCEPT !.pc = "failed"]
      BY <1>1 DEF Applies
    <2> QED  BY <2>1 DEF Answered
  <1> DEFINE r == [apply[a] EXCEPT !.pc = pc]
  <1>3. /\ r \in Applies /\ r.pc = pc /\ r.applied = apply[a].applied /\ r.seen = apply[a].seen
        /\ r.flow = apply[a].flow
    BY <1>1 DEF Applies, ApplySteps
  <1>4. Move(a, r)
    BY <1>2
  <1> HIDE DEF r
  <1>5. /\ apply' \in [Appliers -> Applies] /\ apply'[a] = r
        /\ \A b \in Appliers : b # a => apply'[b] = apply[b]
    BY <1>3, <1>4, Moved
  <1>6. Applicable' = Applicable
    BY DEF Applicable, Sure, Unfound, Found, WritersOf
  <1>7. ImportShape'
    BY <1>5 DEF ImportShape
  <1>8. StoredIs'
    <2>1. \A t \in ImportTables : t # "unused"
      BY ImportBounds
    <2> QED  BY <2>1 DEF StoredIs, MadeFor
  <1>9. \A q \in Applies : ApplierIs(q, tasks, flow, made, edits.deletes)
                             => ApplierIs(q, tasks, flow', made', edits.deletes)
    BY ApplierStays
  <1>10. AppliersAre'
    <2>1. ApplierIs(apply[a], tasks, flow', made', edits.deletes)
      BY <1>1, <1>9
    <2>2. ApplierIs(r, tasks, flow', made', edits.deletes)
      BY <1>3, <2>1 DEF ApplierIs
    <2>3. \A b \in Appliers : ApplierIs(apply'[b], tasks, flow', made', edits.deletes)
      BY <1>5, <1>9, <2>2, WorkIs
    <2> QED  BY <1>6, <2>3 DEF AppliersAre, ApplierIs
  <1>11. OneAtATime'
    <2>1. ~AtWork(r)
      BY <1>3 DEF AtWork
    <2>2. ~edits.overlap => \A b \in Appliers : ~AtWork(apply'[b])
      BY <1>1, <1>5, <2>1 DEF OneAtATime
    <2> QED  BY <2>2 DEF OneAtATime
  <1>12. FlowCoversTables'
    <2> DEFINE f == apply[a].applied
    <2>1. f \in [ImportTables -> Ids] /\ flow'.refs = {f[t] : t \in Applicable}
      BY <1>1 DEF Applies, FlowRefs
    <2>2. \A t \in Applicable : /\ t \in ImportTables /\ f[t] # 0 /\ MadeFor(f[t], t, made')
                                /\ (edits.deletes = 0 => tasks[t] = f[t])
      <3>1. ApplierIs(apply[a], tasks, flow', made', edits.deletes)
        BY <1>1, <1>9
      <3> QED  BY <3>1 DEF ApplierIs, Applicable
    <2> HIDE DEF f
    <2>3. /\ 0 \notin flow'.refs /\ {made'[i] : i \in flow'.refs} = Applicable
          /\ Cardinality(flow'.refs) = Cardinality(Applicable)
      BY <2>1, <2>2, RefsCover
    <2>4. edits.deletes = 0 => flow'.refs = {tasks[t] : t \in Applicable}
      BY <2>1, <2>2
    <2> QED  BY <1>6, <2>3, <2>4 DEF FlowCoversTables
  <1>13. ScheduleSurvives'
    BY DEF ScheduleSurvives
  <1>14. StartingOverConverges'
    BY <1>3, <1>5 DEF StartingOverConverges
  <1> QED  BY <1>7, <1>8, <1>10, <1>11, <1>12, <1>13, <1>14

LEMMA ApplyFlowKeeps == ASSUME ImportIInv, NEW a \in Appliers, ApplyFlow(a) PROVE ImportIInv'
  <1> USE DEF ImportIInv
  <1> DEFINE old == apply[a].flow
  <1>1. /\ apply[a].pc = "workflow" /\ UNCHANGED <<scripts, tasks>> /\ AtWork(apply[a])
        /\ apply[a] \in Applies /\ old \in Flows /\ flow \in Flows /\ edits \in Histories
        /\ ApplierIs(apply[a], tasks, flow, made, edits.deletes)
        /\ edits.deletes \in Nat /\ edits.overlap \in BOOLEAN
    BY WorkIs DEF ApplyFlow, AtWork, Applies, ImportShape, Histories
  <1>2. FlowRefs(a) \subseteq Ids
    BY <1>1 DEF FlowRefs, Applies, Applicable
  <1>3. CASE old = NoFlow /\ flow # NoFlow
    <2>1. Move(a, [apply[a] EXCEPT !.pc = "conflict"]) /\ UNCHANGED <<flow, made, edits>>
      BY <1>3 DEF ApplyFlow
    <2>2. edits.deletes > 0 \/ edits.overlap
      BY <1>1, <1>3, WorkIs DEF AloneIs
    <2> QED  BY <1>1, <2>1, <2>2, RunsEnd
  <1>4. CASE old # NoFlow /\ flow.id # old.id
    <2>1. Move(a, [apply[a] EXCEPT !.pc = "conflict"]) /\ UNCHANGED <<flow, made, edits>>
      BY <1>4 DEF ApplyFlow
    <2>2. edits.deletes > 0
      BY <1>1, <1>4 DEF ApplierIs
    <2> QED  BY <1>1, <2>1, <2>2, RunsEnd
  <1>5. CASE old = NoFlow /\ flow = NoFlow
    <2>1. /\ FreshId <= MaxIds /\ Create("flow")
          /\ flow' = [id |-> FreshId, refs |-> FlowRefs(a), schedule |-> 0]
          /\ edits' = [edits EXCEPT !.count = 0, !.raced = FALSE]
          /\ Answered(a, [apply[a] EXCEPT !.pc = "done"])
      BY <1>5 DEF ApplyFlow
    <2>2. /\ FreshId \in 1..MaxIds /\ FreshId \in Ids /\ made'[FreshId] = "flow" /\ IdsInOrder'
          /\ made' \in [1..MaxIds -> ImportTables \union {"flow", "unused"}]
          /\ \A i \in 1..MaxIds : made[i] # "unused" => made'[i] = made[i]
      BY <2>1, CreatedIs
    <2>3. /\ flow' \in Flows /\ flow'.refs = FlowRefs(a) /\ flow'.schedule = 0
          /\ MadeFor(flow'.id, "flow", made')
      BY <1>2, <2>1, <2>2 DEF Flows, MadeFor
    <2>4. /\ edits' \in Histories /\ edits'.deletes = edits.deletes /\ edits'.overlap = edits.overlap
          /\ edits'.count = 0
      BY <1>1, <2>1 DEF Histories
    <2> QED  BY <1>1, <1>5, <2>1, <2>2, <2>3, <2>4, FlowKeeps
  <1>6. CASE old # NoFlow /\ flow.id = old.id
    <2>1. /\ flow' = [flow EXCEPT !.refs = FlowRefs(a), !.schedule = ScheduleKept(a)]
          /\ edits' = [edits EXCEPT !.raced = @ \/ flow.schedule # old.schedule]
          /\ Answered(a, [apply[a] EXCEPT !.pc = "done"]) /\ UNCHANGED made
      BY <1>6 DEF ApplyFlow
    <2>2. flow # NoFlow
      BY <1>1, <1>6 DEF ApplierIs, NoFlow
    <2>3. flow' \in Flows /\ flow'.refs = FlowRefs(a) /\ flow'.schedule = old.schedule /\ flow'.id = flow.id
      BY <1>1, <1>2, <2>1 DEF Flows, ScheduleKept
    <2>4. /\ edits' \in Histories /\ edits'.deletes = edits.deletes /\ edits'.overlap = edits.overlap
          /\ edits'.count = edits.count /\ (edits'.raced <=> edits.raced \/ flow.schedule # old.schedule)
      <3> DEFINE b == flow.schedule # old.schedule
      <3>1. b \in BOOLEAN /\ edits' = [edits EXCEPT !.raced = @ \/ b]
        BY <2>1
      <3> HIDE DEF b
      <3>2. /\ edits' \in Histories /\ edits'.deletes = edits.deletes /\ edits'.overlap = edits.overlap
            /\ edits'.count = edits.count /\ (edits'.raced <=> edits.raced \/ b)
        BY <1>1, <3>1 DEF Histories
      <3> QED  BY <3>2 DEF b
    <2>5. ~edits'.raced => flow'.schedule = edits'.count
      BY <2>2, <2>3, <2>4 DEF ScheduleSurvives
    <2>6. MadeFor(flow'.id, "flow", made')
      BY <2>1, <2>2, <2>3 DEF StoredIs
    <2>7. /\ made' \in [1..MaxIds -> ImportTables \union {"flow", "unused"}] /\ IdsInOrder'
          /\ \A i \in 1..MaxIds : made[i] # "unused" => made'[i] = made[i]
      BY <2>1 DEF ImportShape, IdsInOrder
    <2> QED  BY <1>1, <2>1, <2>2, <2>3, <2>4, <2>5, <2>6, <2>7, FlowKeeps
  <1> QED  BY <1>3, <1>4, <1>5, <1>6

(* The users.                                                                *)
LEMMA EditScheduleKeeps == ASSUME ImportIInv, EditSchedule PROVE ImportIInv'
  <1> USE DEF ImportIInv
  <1>1. /\ flow # NoFlow /\ flow \in Flows /\ edits \in Histories /\ flow' = [flow EXCEPT !.schedule = @ + 1]
        /\ edits' = [edits EXCEPT !.count = @ + 1] /\ UNCHANGED <<scripts, tasks, apply, made>>
    BY DEF EditSchedule, ImportShape
  <1>2. /\ flow' \in Flows /\ flow'.id = flow.id /\ flow'.refs = flow.refs /\ flow'.schedule = flow.schedule + 1
        /\ edits' \in Histories /\ edits'.deletes = edits.deletes /\ edits'.overlap = edits.overlap
        /\ edits'.raced = edits.raced /\ edits'.count = edits.count + 1
    BY <1>1 DEF Flows, Histories
  <1>3. flow.id # 0 /\ MadeFor(flow.id, "flow", made)
    BY <1>1 DEF StoredIs, MadeFor
  <1>4. Applicable' = Applicable
    BY <1>1 DEF Applicable, Sure, Unfound, Found, WritersOf
  <1>5. ImportShape' /\ IdsInOrder' /\ StoredIs'
    BY <1>1, <1>2, <1>3 DEF ImportShape, IdsInOrder, StoredIs
  <1>6. AppliersAre'
    BY <1>1, <1>2, <1>4 DEF AppliersAre, ApplierIs
  <1>7. OneAtATime'
    BY <1>1, <1>2 DEF OneAtATime, AloneIs
  <1>8. FlowCoversTables'
    BY <1>1, <1>2, <1>4 DEF FlowCoversTables
  <1>9. ScheduleSurvives'
    BY <1>1, <1>2 DEF ScheduleSurvives, Flows, Histories
  <1>10. StartingOverConverges'
    BY <1>1, <1>2 DEF StartingOverConverges
  <1> QED  BY <1>5, <1>6, <1>7, <1>8, <1>9, <1>10

LEMMA DeletionKeeps ==
    ASSUME ImportIInv, UNCHANGED <<scripts, apply, made>>, tasks' \in [ImportTables -> Ids],
           \A t \in ImportTables : tasks'[t] \in {0, tasks[t]}, flow' \in {NoFlow, flow},
           edits' \in Histories, edits'.deletes # 0, edits'.overlap = edits.overlap,
           ~edits'.raced /\ flow' # NoFlow => flow'.schedule = edits'.count
    PROVE  ImportIInv'
  <1> USE DEF ImportIInv
  <1>1. NoFlow \in Flows /\ edits'.deletes > 0
    BY ImportBounds DEF NoFlow, Flows, Ids, Histories
  <1>2. Applicable' = Applicable
    BY DEF Applicable, Sure, Unfound, Found, WritersOf
  <1>3. ImportShape' /\ IdsInOrder'
    BY <1>1 DEF ImportShape, IdsInOrder
  <1>4. StoredIs'
    BY DEF StoredIs
  <1>5. AppliersAre'
    BY <1>2 DEF AppliersAre, ApplierIs
  <1>6. OneAtATime' /\ StartingOverConverges'
    BY <1>1 DEF OneAtATime, StartingOverConverges
  <1>7. FlowCoversTables' /\ ScheduleSurvives'
    BY <1>2 DEF FlowCoversTables, ScheduleSurvives
  <1> QED  BY <1>3, <1>4, <1>5, <1>6, <1>7

LEMMA DeleteImportedKeeps == ASSUME ImportIInv, NEW t \in ImportTables, DeleteImported(t) PROVE ImportIInv'
  <1>1. /\ tasks \in [ImportTables -> Ids] /\ edits \in Histories /\ 0 \in Ids
        /\ tasks' = [tasks EXCEPT ![t] = 0] /\ edits' = [edits EXCEPT !.deletes = @ + 1]
        /\ UNCHANGED <<scripts, flow, apply, made>>
    BY ImportBounds DEF DeleteImported, ImportIInv, ImportShape, Ids
  <1>2. tasks' \in [ImportTables -> Ids] /\ \A u \in ImportTables : tasks'[u] \in {0, tasks[u]}
    BY <1>1
  <1>3. /\ edits' \in Histories /\ edits'.deletes # 0 /\ edits'.overlap = edits.overlap
        /\ edits'.raced = edits.raced /\ edits'.count = edits.count
    <2>1. edits.deletes \in Nat /\ edits'.deletes = edits.deletes + 1
      BY <1>1 DEF Histories
    <2>2. edits'.deletes \in Nat /\ edits'.deletes # 0
      BY <2>1
    <2>3. edits' = [count |-> edits.count, raced |-> edits.raced, deletes |-> edits'.deletes,
                    overlap |-> edits.overlap]
      BY <1>1 DEF Histories
    <2>4. edits.count \in Nat /\ edits.raced \in BOOLEAN /\ edits.overlap \in BOOLEAN
      BY <1>1 DEF Histories
    <2> QED  BY <2>2, <2>3, <2>4 DEF Histories
  <1>4. ~edits'.raced /\ flow' # NoFlow => flow'.schedule = edits'.count
    BY <1>1, <1>3 DEF ImportIInv, ScheduleSurvives
  <1> QED  BY <1>1, <1>2, <1>3, <1>4, DeletionKeeps

LEMMA DeleteFlowKeeps == ASSUME ImportIInv, DeleteFlow PROVE ImportIInv'
  <1>1. /\ tasks \in [ImportTables -> Ids] /\ edits \in Histories /\ flow' = NoFlow
        /\ edits' = [edits EXCEPT !.count = 0, !.raced = FALSE, !.deletes = @ + 1]
        /\ UNCHANGED <<scripts, tasks, apply, made>>
    BY DEF DeleteFlow, ImportIInv, ImportShape
  <1>2. edits' \in Histories /\ edits'.deletes # 0 /\ edits'.overlap = edits.overlap
    <2> DEFINE d == edits.deletes + 1
    <2>1. edits.overlap \in BOOLEAN /\ d \in Nat /\ d # 0
      BY <1>1 DEF Histories
    <2>2. edits' = [count |-> 0, raced |-> FALSE, deletes |-> d, overlap |-> edits.overlap]
      BY <1>1 DEF Histories
    <2> HIDE DEF d
    <2>3. edits'.deletes = d /\ edits'.overlap = edits.overlap
      BY <2>2
    <2>4. edits' \in Histories
      BY <2>1, <2>2 DEF Histories
    <2> QED  BY <2>1, <2>3, <2>4
  <1> QED  BY <1>1, <1>2, DeletionKeeps

LEMMA ImportInitially == ImportInit => ImportIInv
  <1> SUFFICES ASSUME ImportInit PROVE ImportIInv
    OBVIOUS
  <1>1. /\ tasks = [t \in ImportTables |-> 0] /\ flow = NoFlow /\ made = [i \in 1..MaxIds |-> "unused"]
        /\ edits = [count |-> 0, raced |-> FALSE, deletes |-> 0, overlap |-> FALSE]
    BY DEF ImportInit
  <1>2. 0 \in Ids /\ MaxIds \in Nat /\ NoFlow \in Flows
    BY ImportBounds DEF Ids, NoFlow, Flows
  <1> DEFINE out == [Start EXCEPT !.pc = "rejected"]
  <1>3. \/ apply = [a \in Appliers |-> out] \/ apply = [a \in Appliers |-> Start]
    BY DEF ImportInit
  <1>4. /\ out \in Applies /\ out.pc = "rejected" /\ out.flow = Start.flow
        /\ out.seen = Start.seen /\ out.applied = Start.applied
    BY StartIs DEF Applies, ApplySteps
  <1> HIDE DEF out
  <1>5. \A a \in Appliers : apply[a] \in {Start, out}
    BY <1>3
  <1>6. \A a \in Appliers : /\ apply[a] \in Applies /\ apply[a].pc \in {"ready", "rejected"}
                            /\ apply[a].flow = NoFlow /\ (apply[a].pc = "ready" => apply[a] = Start)
                            /\ \A t \in ImportTables : apply[a].seen[t] = 0 /\ apply[a].applied[t] = 0
    BY <1>4, <1>5, StartIs
  <1>7. scripts \in [DidaTasks -> [ImportTables -> (SUBSET Predicates) \union {Untouched}]]
    <2>1. (CHOOSE p \in Predicates : TRUE) \in Predicates
      BY ImportBounds
    <2> DEFINE c == CHOOSE p \in Predicates : TRUE
    <2>2. \/ scripts \in [DidaTasks -> [ImportTables -> (SUBSET Predicates) \union {Untouched}]]
          \/ scripts = [d \in DidaTasks |-> [t \in ImportTables |-> {c}]]
      BY DEF ImportInit
    <2>3. {c} \in SUBSET Predicates
      BY <2>1
    <2> HIDE DEF c
    <2> QED  BY <2>2, <2>3
  <1>8. apply \in [Appliers -> Applies]
    BY <1>3, <1>4, StartIs
  <1>9. ImportShape
    BY <1>1, <1>2, <1>7, <1>8 DEF ImportShape, Histories
  <1>10. IdsInOrder
    BY <1>1, <1>2 DEF IdsInOrder
  <1>11. StoredIs /\ FlowCoversTables /\ ScheduleSurvives
    BY <1>1 DEF StoredIs, FlowCoversTables, ScheduleSurvives
  <1>12. AppliersAre
    BY <1>6 DEF AppliersAre, ApplierIs
  <1>13. OneAtATime /\ StartingOverConverges
    BY <1>6 DEF OneAtATime, StartingOverConverges, AtWork
  <1> QED  BY <1>9, <1>10, <1>11, <1>12, <1>13 DEF ImportIInv

LEMMA ImportStep == ImportIInv /\ [ImportNext]_importVars => ImportIInv'
  <1> SUFFICES ASSUME ImportIInv, [ImportNext]_importVars PROVE ImportIInv'
    OBVIOUS
  <1>1. CASE UNCHANGED importVars
    <2>1. UNCHANGED <<scripts, tasks, flow, apply, made, edits>>
      BY <1>1 DEF importVars
    <2>2. Applicable' = Applicable
      BY <2>1 DEF Applicable, Sure, Unfound, Found, WritersOf
    <2>3. ImportShape' /\ IdsInOrder' /\ StoredIs' /\ OneAtATime' /\ ScheduleSurvives' /\ StartingOverConverges'
      BY <2>1 DEF ImportIInv, ImportShape, IdsInOrder, StoredIs, OneAtATime, ScheduleSurvives,
                  StartingOverConverges
    <2>4. AppliersAre' /\ FlowCoversTables'
      BY <2>1, <2>2 DEF ImportIInv, AppliersAre, ApplierIs, FlowCoversTables
    <2> QED  BY <2>3, <2>4 DEF ImportIInv
  <1> QED  BY <1>1, SnapshotTasksKeeps, SnapshotFlowKeeps, PlanKeeps, ReadFlowKeeps, ApplyFlowKeeps,
              RequestFailsKeeps, StartOverKeeps, ApplyTaskKeeps, EditScheduleKeeps, DeleteFlowKeeps,
              DeleteImportedKeeps DEF ImportNext

LEMMA ImportImplied == ImportIInv => ImportInv
  <1> SUFFICES ASSUME ImportIInv PROVE ImportInv
    OBVIOUS
  <1>1. ManifestUnanimous
    BY SureIsUnanimous DEF ImportIInv
  <1>2. ImportTypeOK
    <2>1. \A t \in ImportTables : tasks[t] # 0 => made[tasks[t]] = t
      BY DEF ImportIInv, StoredIs, MadeFor
    <2>2. flow.id # 0 => made[flow.id] = "flow"
      BY DEF ImportIInv, StoredIs, MadeFor, NoFlow
    <2>3. \A a \in Appliers : apply[a].pc \in {"workflow", "done"}
                              => \A t \in Applicable : apply[a].applied[t] # 0
      BY DEF ImportIInv, AppliersAre, ApplierIs
    <2> QED  BY <2>1, <2>2, <2>3 DEF ImportTypeOK
  <1> QED  BY <1>1, <1>2 DEF ImportIInv, ImportInv

(* An import of any export by any number of operators, with requests that    *)
(* fail or whose answer is lost and with users deleting and rescheduling     *)
(* meanwhile: starting over meets no conflict of its own making, the workflow*)
(* runs one task for each applied table, a schedule changed between imports  *)
(* survives, and only what the scripts agree on is applied.                  *)
THEOREM ImportIsSafe == ImportSpec => []ImportInv
  <1>1. ImportSpec => []ImportIInv
    BY ImportInitially, ImportStep, PTL DEF ImportSpec
  <1> QED  BY <1>1, ImportImplied, PTL
==============================================================================
