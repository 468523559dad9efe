------------------------------ MODULE Accounts ------------------------------
(* Users, their second factor, tokens and projects.  A request reads the     *)
(* user's row in one step and writes it in another, as the endpoints do: the *)
(* read takes no lock (only verify_user_totp reads FOR UPDATE), and a seed   *)
(* is deleted from the secret store after the row was committed.             *)
(* One tick of the clock is one TOTP step and one second of a token's iat.   *)
EXTENDS Integers, FiniteSets

CONSTANTS Users,      \* user ids
          Projects,   \* project ids
          Requests,   \* the requests that are made
          MaxSeeds,   \* bound: TOTP seeds ever generated
          MaxTime     \* bound: the clock

ASSUME AccountsBounds == MaxSeeds \in Nat \ {0} /\ MaxTime \in Nat

VARIABLES user, project, seeds, made, codes, token, clock, req,
          accepted,   \* <<seed, counter>> pairs a login was let in with
          again,      \* users one of whose codes was accepted twice
          racedProjects       \* users and projects two requests wrote at a time

accountVars == <<user, project, seeds, made, codes, token, clock, req,
                 accepted, again, racedProjects>>

None == <<>>
Never == -1
NoUser == [exists |-> FALSE, gone |-> FALSE]
GoneUser == [exists |-> FALSE, gone |-> TRUE]
NoProject == [exists |-> FALSE, gone |-> FALSE]
GoneProject == [exists |-> FALSE, gone |-> TRUE]
NoReq == [op |-> "none"]
Done == [op |-> "done"]
(* A seed's reference; the user is kept with it to state what leaks.         *)
Seeds == Users \X (1..MaxSeeds)

AddedUser == [exists |-> TRUE, mfa |-> None, pending |-> None, counter |-> Never,
              revoked |-> Never]

(* command_admin_create inserts the administrator, a project and its owner's *)
(* membership in one transaction.                                            *)
AccountsInit ==
    /\ \E u \in Users, p \in Projects :
          /\ user = [x \in Users |-> IF x = u THEN AddedUser ELSE NoUser]
          /\ project = [x \in Projects |->
                IF x = p THEN [exists |-> TRUE, owner |-> u, members |-> {u}] ELSE NoProject]
    /\ seeds = {} /\ made = 0 /\ token = {} /\ clock = 0
    /\ codes = [u \in Users |-> 0]
    /\ req = [r \in Requests |-> NoReq]
    /\ accepted = {} /\ again = {} /\ racedProjects = {}

AccountsTypeOK ==
    /\ \A u \in Users : user[u].exists =>
          /\ user[u].mfa \in {None} \union Seeds /\ user[u].pending \in {None} \union Seeds
          /\ user[u].counter \in Never..(MaxTime + 1) /\ user[u].revoked \in Never..MaxTime
    /\ \A p \in Projects : project[p].exists =>
          project[p].owner \in Users /\ project[p].members \subseteq Users
    /\ seeds \subseteq Seeds /\ made \in 0..MaxSeeds
    /\ codes \in [Users -> 0..1]

----------------------------------------------------------------------------
(* Requests in flight.                                                       *)

Idle(r) == req[r].op = "none"

Subject(q) == IF q.op = "patch" THEN q.project ELSE q.user

InFlight(x) == {r \in Requests : req[r] \notin {NoReq, Done} /\ Subject(req[r]) = x}

(* _require_user: 404 unless the row is there.                               *)
Begins(r, q) ==
    /\ Idle(r)
    /\ req' = [req EXCEPT ![r] = q]
    /\ racedProjects' = IF InFlight(Subject(q)) = {} THEN racedProjects ELSE racedProjects \union {Subject(q)}

Ends(r) == req' = [req EXCEPT ![r] = Done]

At(r, op, stage) == req[r].op = op /\ req[r].stage = stage

----------------------------------------------------------------------------
(* The second factor.                                                        *)

(* accepted_totp_counter: the code of the step before, of this one and of    *)
(* the next one is accepted (window = 1).                                    *)
AcceptedCounters == {k \in (clock - 1)..(clock + 1) : k >= 0}

(* The test verify_user_totp makes on the locked row.                        *)
Fresh(u, k) == k > user[u].counter

(* verify_user_totp succeeds with counter k against the seed s.              *)
TotpPasses(u, s, k) == s \in seeds /\ user[u].exists /\ k \in AcceptedCounters /\ Fresh(u, k)

Accept(s, k) ==
    /\ accepted' = accepted \union {<<s, k>>}
    /\ again' = IF <<s, k>> \in accepted THEN again \union {s[1]} ELSE again

EnrollBegins(r, u) ==
    /\ user[u].exists /\ user[u].mfa = None
    /\ Begins(r, [op |-> "enroll", stage |-> "write", user |-> u, ref |-> user[u].pending])
    /\ UNCHANGED <<user, project, seeds, made, codes, token, clock, accepted, again>>

EnrollWrites(r) ==
    LET u == req[r].user IN
    /\ At(r, "enroll", "write") /\ made < MaxSeeds
    /\ made' = made + 1
    /\ seeds' = seeds \union {<<u, made + 1>>}
    /\ user' = IF user[u].exists THEN [user EXCEPT ![u].pending = <<u, made + 1>>] ELSE user
    /\ req' = [req EXCEPT ![r].stage = "drop"]
    /\ UNCHANGED <<project, codes, token, clock, accepted, again, racedProjects>>

(* The seeds a finished request deletes from the secret store.               *)
DropsCurrent(q) ==
    IF user[q.user].exists THEN {user[q.user].pending, user[q.user].mfa} ELSE {}
Drops(q) == IF q.op = "adminMfa" THEN {q.ref, q.pending} ELSE {q.ref}

SeedsDropped(r) ==
    /\ \E op \in {"enroll", "disable", "adminMfa"} : At(r, op, "drop")
    /\ seeds' = seeds \ Drops(req[r])
    /\ Ends(r)
    /\ UNCHANGED <<user, project, made, codes, token, clock, accepted, again, racedProjects>>

VerifyBegins(r, u, k) ==
    /\ user[u].exists /\ user[u].mfa = None /\ user[u].pending \in seeds
    /\ k \in AcceptedCounters
    /\ Begins(r, [op |-> "verify", stage |-> "write", user |-> u, ref |-> user[u].pending,
                  counter |-> k])
    /\ UNCHANGED <<user, project, seeds, made, codes, token, clock, accepted, again>>

(* The counter that confirmed the enrolment is spent with it.                *)
Confirmed(row, q) == [row EXCEPT !.mfa = q.ref, !.pending = None, !.counter = q.counter]

VerifyWrites(r) ==
    LET u == req[r].user IN
    /\ At(r, "verify", "write")
    /\ IF user[u].exists
       THEN /\ user' = [user EXCEPT ![u] = Confirmed(@, req[r])]
            /\ codes' = [codes EXCEPT ![u] = 1]
            /\ Accept(req[r].ref, req[r].counter)
       ELSE UNCHANGED <<user, codes, accepted, again>>
    /\ Ends(r)
    /\ UNCHANGED <<project, seeds, made, token, clock, racedProjects>>

(* disable_account_mfa and regenerate_account_recovery_codes read the row,   *)
(* then check the code against the seed they read.                           *)
FactorCallBegins(r, u, op) ==
    /\ op \in {"disable", "regenerate"}
    /\ user[u].exists /\ user[u].mfa # None
    /\ Begins(r, [op |-> op, stage |-> "write", user |-> u, ref |-> user[u].mfa])
    /\ UNCHANGED <<user, project, seeds, made, codes, token, clock, accepted, again>>

CodeRefused(r) ==
    /\ \E op \in {"disable", "regenerate"} : At(r, op, "write")
    /\ Ends(r)
    /\ UNCHANGED <<user, project, seeds, made, codes, token, clock, accepted, again, racedProjects>>

DisableWrites(r, k) ==
    LET u == req[r].user IN
    /\ At(r, "disable", "write")
    /\ TotpPasses(u, req[r].ref, k)
    /\ user' = [user EXCEPT ![u].counter = k, ![u].mfa = None, ![u].pending = None]
    /\ codes' = [codes EXCEPT ![u] = 0]
    /\ Accept(req[r].ref, k)
    /\ req' = [req EXCEPT ![r].stage = "drop"]
    /\ UNCHANGED <<project, seeds, made, token, clock, racedProjects>>

RegenerateWrites(r, k) ==
    LET u == req[r].user IN
    /\ At(r, "regenerate", "write")
    /\ TotpPasses(u, req[r].ref, k)
    /\ user' = [user EXCEPT ![u].counter = k]
    /\ codes' = [codes EXCEPT ![u] = 1]
    /\ Accept(req[r].ref, k)
    /\ Ends(r)
    /\ UNCHANGED <<project, seeds, made, token, clock, racedProjects>>

AdminMfaBegins(r, u) ==
    /\ user[u].exists
    /\ Begins(r, [op |-> "adminMfa", stage |-> "write", user |-> u,
                  ref |-> user[u].mfa, pending |-> user[u].pending])
    /\ UNCHANGED <<user, project, seeds, made, codes, token, clock, accepted, again>>

AdminMfaWrites(r) ==
    LET u == req[r].user IN
    /\ At(r, "adminMfa", "write")
    /\ IF user[u].exists
       THEN /\ user' = [user EXCEPT ![u].mfa = None, ![u].pending = None]
            /\ codes' = [codes EXCEPT ![u] = 0]
            /\ req' = [req EXCEPT ![r].stage = "drop"]
       ELSE Ends(r) /\ UNCHANGED <<user, codes>>
    /\ UNCHANGED <<project, seeds, made, token, clock, accepted, again, racedProjects>>

----------------------------------------------------------------------------
(* Login and tokens.                                                         *)

LoginBegins(r, u) ==
    /\ user[u].exists
    /\ Begins(r, [op |-> "login", stage |-> IF user[u].mfa = None THEN "token" ELSE "mfa",
                  user |-> u, ref |-> user[u].mfa])
    /\ UNCHANGED <<user, project, seeds, made, codes, token, clock, accepted, again>>

LoginTotp(r, k) ==
    LET u == req[r].user IN
    /\ At(r, "login", "mfa")
    /\ TotpPasses(u, req[r].ref, k)
    /\ user' = [user EXCEPT ![u].counter = k]
    /\ Accept(req[r].ref, k)
    /\ req' = [req EXCEPT ![r].stage = "token"]
    /\ UNCHANGED <<project, seeds, made, codes, token, clock, racedProjects>>

(* consume_recovery_code reads the unused codes, hashes the one it was given *)
(* against each and only then marks the one that matched.                    *)
LoginReadsCodes(r) ==
    /\ At(r, "login", "mfa") /\ req[r].ref \in seeds
    /\ codes[req[r].user] = 1
    /\ req' = [req EXCEPT ![r].stage = "recover"]
    /\ UNCHANGED <<user, project, seeds, made, codes, token, clock, accepted, again, racedProjects>>

LoginConsumes(r) ==
    LET u == req[r].user IN
    /\ At(r, "login", "recover")
    /\ codes' = [codes EXCEPT ![u] = 0]
    /\ again' = IF codes[u] = 0 /\ user[u].exists THEN again \union {u} ELSE again
    /\ req' = [req EXCEPT ![r].stage = "token"]
    /\ UNCHANGED <<user, project, seeds, made, token, clock, accepted, racedProjects>>

(* No code, a wrong code, or a seed the secret store no longer has.          *)
LoginRefused(r) ==
    /\ At(r, "login", "mfa")
    /\ Ends(r)
    /\ UNCHANGED <<user, project, seeds, made, codes, token, clock, accepted, again, racedProjects>>

LoginSucceeds(r) ==
    /\ At(r, "login", "token")
    /\ token' = token \union {[user |-> req[r].user, iat |-> clock, out |-> FALSE]}
    /\ Ends(r)
    /\ UNCHANGED <<user, project, seeds, made, codes, clock, accepted, again, racedProjects>>

(* revoke_user_tokens; the tokens issued so far are to be refused.           *)
ForceLogout(u) ==
    /\ user[u].exists
    /\ user' = [user EXCEPT ![u].revoked = clock]
    /\ token' = {IF t.user = u THEN [t EXCEPT !.out = TRUE] ELSE t : t \in token}
    /\ UNCHANGED <<project, seeds, made, codes, clock, req, accepted, again, racedProjects>>

(* is_token_revoked.                                                         *)
Revoked(t) == ~user[t.user].exists \/ t.iat <= user[t.user].revoked

----------------------------------------------------------------------------
(* Users and projects.                                                       *)

CreateUser(u) ==
    /\ user[u] = NoUser
    /\ user' = [user EXCEPT ![u] = AddedUser]
    /\ UNCHANGED <<project, seeds, made, codes, token, clock, req, accepted, again, racedProjects>>

OwnedProjects(u) == {p \in Projects : project[p].exists /\ project[p].owner = u}

(* The seeds of a deleted user stay in the secret store.                     *)
DeleteUser(u) ==
    /\ user[u].exists /\ OwnedProjects(u) = {}
    /\ user' = [user EXCEPT ![u] = GoneUser]
    /\ codes' = [codes EXCEPT ![u] = 0]
    /\ project' = [p \in Projects |->
          IF project[p].exists THEN [project[p] EXCEPT !.members = @ \ {u}] ELSE project[p]]
    /\ UNCHANGED <<seeds, made, token, clock, req, accepted, again, racedProjects>>

(* _replace_project_members: the owner is always one of them.                *)
Members(owner, members) == {owner} \union members

CreateProject(p, u, members) ==
    /\ project[p] = NoProject /\ \A m \in Members(u, members) : user[m].exists
    /\ project' = [project EXCEPT ![p] =
          [exists |-> TRUE, owner |-> u, members |-> Members(u, members)]]
    /\ UNCHANGED <<user, seeds, made, codes, token, clock, req, accepted, again, racedProjects>>

(* patch_admin_project reads the current owner, and writes an owner whatever *)
(* the request changes; the members are replaced when either was given.      *)
PatchBegins(r, p, u, members, replace) ==
    /\ project[p].exists /\ user[u].exists
    /\ ~replace => u = project[p].owner /\ members = {}
    /\ Begins(r, [op |-> "patch", stage |-> "write", project |-> p, owner |-> u,
                  members |-> members, replace |-> replace])
    /\ UNCHANGED <<user, project, seeds, made, codes, token, clock, accepted, again>>

PatchWrites(r) ==
    LET p == req[r].project
        u == req[r].owner
    IN
    /\ At(r, "patch", "write")
    /\ project' =
         IF project[p].exists /\ \A m \in Members(u, req[r].members) : user[m].exists
         THEN [project EXCEPT ![p].owner = u,
                 ![p].members = IF req[r].replace THEN Members(u, req[r].members) ELSE @]
         ELSE project
    /\ Ends(r)
    /\ UNCHANGED <<user, seeds, made, codes, token, clock, accepted, again, racedProjects>>

DeleteProject(p) ==
    /\ project[p].exists
    /\ project' = [project EXCEPT ![p] = GoneProject]
    /\ UNCHANGED <<user, seeds, made, codes, token, clock, req, accepted, again, racedProjects>>

Tick ==
    /\ clock < MaxTime
    /\ clock' = clock + 1
    /\ UNCHANGED <<user, project, seeds, made, codes, token, req, accepted, again, racedProjects>>

AccountsNext ==
    \/ \E r \in Requests, u \in Users :
          \/ EnrollBegins(r, u) \/ AdminMfaBegins(r, u) \/ LoginBegins(r, u)
          \/ \E op \in {"disable", "regenerate"} : FactorCallBegins(r, u, op)
          \/ \E k \in AcceptedCounters : VerifyBegins(r, u, k)
    \/ \E r \in Requests :
          \/ EnrollWrites(r) \/ SeedsDropped(r) \/ VerifyWrites(r) \/ CodeRefused(r)
          \/ AdminMfaWrites(r) \/ LoginReadsCodes(r) \/ LoginConsumes(r)
          \/ LoginRefused(r) \/ LoginSucceeds(r) \/ PatchWrites(r)
          \/ \E k \in AcceptedCounters :
                DisableWrites(r, k) \/ RegenerateWrites(r, k) \/ LoginTotp(r, k)
    \/ \E u \in Users : ForceLogout(u) \/ CreateUser(u) \/ DeleteUser(u)
    \/ \E p \in Projects : DeleteProject(p)
    \/ \E p \in Projects, u \in Users, m \in SUBSET Users :
          \/ CreateProject(p, u, m)
          \/ \E r \in Requests, b \in BOOLEAN : PatchBegins(r, p, u, m, b)
    \/ Tick

AccountsSpec == AccountsInit /\ [][AccountsNext]_accountVars

----------------------------------------------------------------------------
(* Properties.                                                               *)

(* A user whose second factor is on can use it: the seed verify_user_totp    *)
(* reveals is in the secret store.  Only overlapping requests of one user    *)
(* break it: a second enrolment deletes the pending seed that a verification *)
(* read before is about to make the user's factor.                           *)
SeedPresent ==
    \A u \in Users \ racedProjects :
        user[u].exists => {user[u].mfa, user[u].pending} \subseteq seeds \union {None}

(* No seed is left behind: every one in the secret store is in its user's    *)
(* row or about to be deleted by a request in flight, unless two requests    *)
(* overlapped or the user was deleted (delete_admin_user drops no seed).     *)
SeedsReclaimed ==
    \A s \in seeds :
        \/ s[1] \in racedProjects \/ user[s[1]] = GoneUser
        \/ s \in {user[s[1]].mfa, user[s[1]].pending}
        \/ \E r \in Requests : req[r].op \in {"enroll", "disable", "adminMfa"} /\ req[r].stage = "drop"
                               /\ s \in Drops(req[r])

(* A TOTP code or a recovery code lets a user in once, even when the clock   *)
(* still accepts it; only overlapping requests of one user can spend one     *)
(* twice (consume_recovery_code ignores that its update changed no row).     *)
CodeServesOnce ==
    again \subseteq racedProjects

(* A token issued before a forced logout is refused from then on, although   *)
(* iat holds whole seconds and tokens_revoked_after does not.                *)
LogoutHolds == \A t \in token : t.out => Revoked(t)

(* The owner of a project exists and is one of its members.  Only two        *)
(* overlapping changes of the project break it: a change of the name writes  *)
(* back the owner it read without writing the members.                       *)
OwnerIsMember ==
    \A p \in Projects \ racedProjects : project[p].exists =>
        user[project[p].owner].exists /\ project[p].owner \in project[p].members

(* Second factors, sessions and projects, as long as requests of one user   *)
(* or project do not overlap: a confirmed seed is there and a replaced one  *)
(* is not, a one-time code is accepted once, and the owner is a member of   *)
(* the project; a forced logout ends the earlier tokens in any case         *)
(* (account.py, services.py, admin.py).                                     *)
AccountsInv ==
    /\ AccountsTypeOK
    /\ SeedPresent
    /\ SeedsReclaimed
    /\ CodeServesOnce
    /\ LogoutHolds
    /\ OwnerIsMember
=============================================================================
