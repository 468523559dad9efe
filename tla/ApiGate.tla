------------------------------ MODULE ApiGate ------------------------------
(* What a request passes before its handler runs (authentication, license,   *)
(* rate limit), and the license behind the second gate: the file, the row    *)
(* the launcher and the upload endpoint write, and the mode the API process  *)
(* caches under a lock while it reads the row.  One user, one limiter group. *)
EXTENDS Integers, FiniteSets

CONSTANTS Callers,       \* requests in flight at a time
          Uploads,       \* license uploads
          Kinds,         \* kinds of request
          Files,         \* contents of license.lic: "good" or "bad"
          CacheTtl,      \* LICENSE_MODE_CACHE_TTL_SECONDS
          Window,        \* window_seconds of the rate limiter
          RateLimit,     \* its limit
          GraceDays,     \* _GRACE_DAYS
          TrialDays,     \* the trial's length
          Expiry,        \* expires_at of a good license
          MaxNow,        \* bound: the clock
          MaxStarts      \* bound: starts of the API process

ASSUME GateBounds ==
    /\ {CacheTtl, Window, RateLimit, GraceDays, TrialDays, Expiry, MaxNow, MaxStarts} \subseteq Nat
    /\ Files \subseteq {"good", "bad"}
    /\ Kinds \subseteq {"public", "read", "write", "export", "license", "backup", "restore"}

VARIABLES file, row, cache, locked, enforced, hits, admitted, caller, upload, now,
          starts, crossed   \* TRUE: two uploads were in flight since the start

gateVars == <<file, row, cache, locked, enforced, hits, admitted, caller, upload,
              now, starts, crossed>>

NoCache == [mode |-> "none", until |-> 0]
Gone == [stage |-> "idle"]
Hits == [at : 0..MaxNow, no : Nat]
NoLicenseRow == [mode |-> "none", expires |-> 0, of |-> "none"]

GateInit ==
    /\ file = "absent" /\ row = NoLicenseRow /\ cache = NoCache /\ locked = FALSE
    /\ enforced \in BOOLEAN
    /\ hits = {} /\ admitted = {}
    /\ caller = [c \in Callers |-> Gone]
    /\ upload = [u \in Uploads |-> Gone]
    /\ now = 0 /\ starts = 0 /\ crossed = FALSE

GateTypeOK ==
    /\ file \in {"absent"} \union Files
    /\ row.mode \in {"none", "trial", "valid", "in_grace", "repair"}
    /\ cache.mode \in {"none", "trial", "valid", "in_grace", "repair"}
    /\ cache.until \in 0..(MaxNow + CacheTtl)
    /\ hits \subseteq Hits /\ Cardinality(hits) <= RateLimit
    /\ \A h \in hits : h.at <= now
    /\ starts = 0 => row = NoLicenseRow

----------------------------------------------------------------------------
(* The license row.                                                          *)

(* verify_license: no file is a trial; a file that does not parse or verify, *)
(* and one whose grace has passed, need repair.                              *)
VerifyLicense(f) ==
    LET License(mode, expires) == [mode |-> mode, expires |-> expires, of |-> f]
    IN  IF f = "absent" THEN License("trial", now + TrialDays)
        ELSE IF f = "bad" THEN License("repair", 0)
        ELSE IF now <= Expiry THEN License("valid", Expiry)
        ELSE IF now <= Expiry + GraceDays THEN License("in_grace", Expiry)
        ELSE License("repair", 0)

(* _sync_license_state: a trial that goes on keeps its end.                  *)
Synced(old, state) ==
    IF state.mode = "trial" /\ old.mode = "trial"
    THEN [state EXCEPT !.expires = old.expires] ELSE state

(* The launcher synchronises the row and starts the API, whose memory is     *)
(* empty: in-flight requests, the cache and the limiter's hits are gone.     *)
StartApi ==
    /\ starts < MaxStarts
    /\ starts' = starts + 1
    /\ row' = Synced(row, VerifyLicense(file))
    /\ cache' = NoCache /\ locked' = FALSE /\ hits' = {} /\ admitted' = {}
    /\ caller' = [c \in Callers |-> Gone]
    /\ upload' = [u \in Uploads |-> IF upload[u].stage = "idle" THEN Gone ELSE [stage |-> "done"]]
    /\ crossed' = FALSE
    /\ UNCHANGED <<file, enforced, now>>

Uploading == {u \in Uploads : upload[u].stage \notin {"idle", "done"}}

(* put_admin_license in the steps another upload or a reader can fall        *)
(* between: the file, its verification, the row, the cache.                  *)
UploadFile(u, f) ==
    /\ starts > 0 /\ upload[u].stage = "idle"
    /\ file' = f
    /\ upload' = [upload EXCEPT ![u] = [stage |-> "verify"]]
    /\ crossed' = (crossed \/ Uploading # {})
    /\ UNCHANGED <<row, cache, locked, enforced, hits, admitted, caller, now, starts>>

UploadVerify(u) ==
    /\ upload[u].stage = "verify"
    /\ upload' = [upload EXCEPT ![u] = [stage |-> "row", state |-> VerifyLicense(file)]]
    /\ UNCHANGED <<file, row, cache, locked, enforced, hits, admitted, caller, now, starts, crossed>>

UploadRow(u) ==
    /\ upload[u].stage = "row"
    /\ row' = upload[u].state
    /\ upload' = [upload EXCEPT ![u] = [stage |-> "invalidate"]]
    /\ UNCHANGED <<file, cache, locked, enforced, hits, admitted, caller, now, starts, crossed>>

MayInvalidateAnytime == TRUE
(* invalidate_license_mode_cache takes the lock a reader holds.              *)
MayInvalidate == ~locked

UploadInvalidate(u) ==
    /\ upload[u].stage = "invalidate" /\ MayInvalidate
    /\ cache' = NoCache
    /\ upload' = [upload EXCEPT ![u] = [stage |-> "done"]]
    /\ UNCHANGED <<file, row, locked, enforced, hits, admitted, caller, now, starts, crossed>>

PutSystemSettings(b) ==
    /\ starts > 0 /\ b # enforced
    /\ enforced' = b
    /\ UNCHANGED <<file, row, cache, locked, hits, admitted, caller, upload, now, starts, crossed>>

----------------------------------------------------------------------------
(* A request.                                                                *)

(* _authenticate lets the request on: a public path, or a token that decodes *)
(* and is not revoked.                                                       *)
Authenticate(c, kind) ==
    /\ starts > 0 /\ caller[c].stage = "idle"
    /\ caller' = [caller EXCEPT ![c] = [stage |-> "license", kind |-> kind]]
    /\ UNCHANGED <<file, row, cache, locked, enforced, hits, admitted, upload, now, starts, crossed>>

RepairRestricted(kind) == kind \in {"write", "export"}
InGraceRestricted(kind) == kind \in {"write", "export", "restore"}

Refuses(mode, kind) ==
    \/ mode = "repair" /\ RepairRestricted(kind)
    \/ mode = "in_grace" /\ InGraceRestricted(kind)

Judge(c, mode) ==
    caller' = [caller EXCEPT ![c] =
        IF Refuses(mode, caller[c].kind) THEN Gone ELSE [stage |-> "rate", kind |-> caller[c].kind]]

(* _check_license: a public path, or enforcement switched off.               *)
LicenseSkipped(c) ==
    /\ caller[c].stage = "license"
    /\ caller[c].kind = "public" \/ ~enforced
    /\ caller' = [caller EXCEPT ![c] = [stage |-> "rate", kind |-> caller[c].kind]]
    /\ UNCHANGED <<file, row, cache, locked, enforced, hits, admitted, upload, now, starts, crossed>>

Cached == cache.mode # "none" /\ now < cache.until

LicenseCached(c) ==
    /\ caller[c].stage = "license" /\ caller[c].kind # "public" /\ enforced
    /\ ~locked /\ Cached
    /\ Judge(c, cache.mode)
    /\ UNCHANGED <<file, row, cache, locked, enforced, hits, admitted, upload, now, starts, crossed>>

(* current_license_mode holds the lock from before it reads the row until it *)
(* has cached what it read; the cache's age counts from before the read.     *)
LicenseRead(c) ==
    /\ caller[c].stage = "license" /\ caller[c].kind # "public" /\ enforced
    /\ ~locked /\ ~Cached
    /\ locked' = TRUE
    /\ caller' = [caller EXCEPT ![c] = [stage |-> "caching", kind |-> caller[c].kind,
                                        mode |-> IF row.mode = "none" THEN "trial" ELSE row.mode,
                                        began |-> now]]
    /\ UNCHANGED <<file, row, cache, enforced, hits, admitted, upload, now, starts, crossed>>

LicenseStore(c) ==
    /\ caller[c].stage = "caching"
    /\ cache' = [mode |-> caller[c].mode, until |-> caller[c].began + CacheTtl]
    /\ locked' = FALSE
    /\ Judge(c, caller[c].mode)
    /\ UNCHANGED <<file, row, enforced, hits, admitted, upload, now, starts, crossed>>

(* RateLimiter.check keeps the hits that are not older than the window.      *)
Recent(h) == h.at >= now - Window

Kept == {h \in hits : Recent(h)}

(* Requests of one instant are told apart by their number.                   *)
ThisHit == [at |-> now, no |-> Cardinality({h \in admitted : h.at = now}) + 1]

RateAdmits(c) ==
    /\ caller[c].stage = "rate" /\ Cardinality(Kept) < RateLimit
    /\ hits' = Kept \union {ThisHit}
    /\ admitted' = {h \in admitted : Recent(h)} \union {ThisHit}
    /\ caller' = [caller EXCEPT ![c] = [stage |-> "handle", kind |-> caller[c].kind]]
    /\ UNCHANGED <<file, row, cache, locked, enforced, upload, now, starts, crossed>>

RateRefuses(c) ==
    /\ caller[c].stage = "rate" /\ Cardinality(Kept) >= RateLimit
    /\ hits' = Kept
    /\ caller' = [caller EXCEPT ![c] = Gone]
    /\ UNCHANGED <<file, row, cache, locked, enforced, admitted, upload, now, starts, crossed>>

(* dispatch: the handler answers or raises; both end the request.            *)
Handled(c) ==
    /\ caller[c].stage = "handle"
    /\ caller' = [caller EXCEPT ![c] = Gone]
    /\ UNCHANGED <<file, row, cache, locked, enforced, hits, admitted, upload, now, starts, crossed>>

TimePasses ==
    /\ now < MaxNow /\ now' = now + 1
    /\ UNCHANGED <<file, row, cache, locked, enforced, hits, admitted, caller, upload, starts, crossed>>

GateNext ==
    \/ StartApi \/ TimePasses \/ \E b \in BOOLEAN : PutSystemSettings(b)
    \/ \E u \in Uploads :
          \/ UploadVerify(u) \/ UploadRow(u) \/ UploadInvalidate(u)
          \/ \E f \in Files : UploadFile(u, f)
    \/ \E c \in Callers :
          \/ \E k \in Kinds : Authenticate(c, k)
          \/ LicenseSkipped(c) \/ LicenseCached(c) \/ LicenseRead(c) \/ LicenseStore(c)
          \/ RateAdmits(c) \/ RateRefuses(c) \/ Handled(c)

GateSpec == GateInit /\ [][GateNext]_gateVars

----------------------------------------------------------------------------
(* Properties.                                                               *)

(* The mode the API process caches is the row's, except while an upload has  *)
(* committed the row and not yet invalidated the cache: a reader that was    *)
(* under way cannot put the old mode back, since it holds the lock from      *)
(* before its read until the mode is cached.                                 *)
ModeFresh ==
    \/ cache.mode = "none" \/ cache.mode = row.mode
    \/ \E u \in Uploads : upload[u].stage = "invalidate"

(* Once its upload has finished, the row was computed from the file that is  *)
(* on disk; only overlapping uploads break it, where the slower one writes   *)
(* the verdict on a file that has been replaced, until the next start.       *)
RowFollowsFile ==
    Uploading = {} /\ ~crossed /\ starts > 0 => row.of = file

(* The rate limiter never admits more than its limit in any window, closed   *)
(* at both ends, of one run of the process.                                  *)
RateHolds ==
    Cardinality({h \in admitted : Recent(h)}) <= RateLimit

(* The gate in front of every route: the licence mode a request is judged   *)
(* by is the row's unless an upload is about to invalidate it, the row      *)
(* follows the licence file unless uploads overlapped, and the limiter      *)
(* never lets more than its limit through a window (services.py, admin.py). *)
GateInv ==
    /\ GateTypeOK /\ ModeFresh /\ RowFollowsFile /\ RateHolds
=============================================================================
