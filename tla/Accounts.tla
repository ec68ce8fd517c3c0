------------------------------ MODULE Accounts ------------------------------
(***************************************************************************)
(* Accounts, and the mails that prove who owns them.                       *)
(*                                                                         *)
(* Each request (internal/transport/http/handlers/auth and .../user, over  *)
(* internal/app/auth and internal/app/user) is a sequence of statements    *)
(* against Postgres and perhaps a publish on the email queue.  A statement *)
(* is one step, a transaction the step that commits it; other requests run *)
(* in between, and the API process may die there.  The email worker        *)
(* (internal/worker/email_worker.go) sends what was published; the owner   *)
(* clicks what was sent.                                                   *)
(***************************************************************************)
EXTENDS Integers, FiniteSets

CONSTANTS
    Emails, Passwords,
    Ids,         \* user ids the database will draw, never twice
    Tokens,      \* tokens GenerateToken will draw, never twice
    Clients,     \* requests served at once
    Nothing,     \* no row, no token, no answer
    Faults,      \* which failures the environment may inject
    MaxVersion,  \* bound on the updates of one account
    MaxOutages   \* bound on all failures, expiries and deaths together

VARIABLES
    users,      \* the row of each id, or Nothing
    spent,      \* ids whose row was deleted
    profiles, quotas,  \* the ids with a row there
    verifier,   \* the verifier row of each id, or Nothing
    reseter,    \* the reseter row of each id, or Nothing
    issued,     \* who and what each token was drawn for, or Nothing
    mail,       \* what became of the mail that carries each token
    inbox,      \* the tokens that reached their mailbox
    sessions,   \* ids a JWT was issued for
    flight,     \* the request each client waits for
    answer,     \* what the API claimed in the last step, or Nothing
    outages

sideVars == <<profiles, quotas>>
linkVars == <<verifier, reseter>>
mailVars == <<issued, mail, inbox>>
tables   == <<users, spent, sideVars, linkVars>>
vars     == <<tables, mailVars, sessions, flight, answer, outages>>

\* The database stores what GetTokenHash makes of a token, never the token.
Hash(t)   == <<"sha256", t>>
Account   == [email : Emails, password : Passwords, verified : BOOLEAN, version : Nat]
Row       == [hash : {Hash(t) : t \in Tokens}, live : BOOLEAN]

\* Nothing stands for a row that is not there, so it is none of those that are.
ASSUME AccountsAssumption ==
    /\ Faults \subseteq {"db", "mq", "smtp", "crash", "expire"}
    /\ MaxVersion \in Nat /\ MaxOutages \in Nat
    /\ Nothing \notin Ids \cup Account \cup Row

MailFates == {"new", "drawn", "queued", "sent", "acked", "dead", "lost"}
RequestPcs == {"idle", "signup", "publish", "verify", "find", "unlink", "link", "forgot",
               "change", "delete", "edit", "patch"}

\* A request between two statements: what it read, and whether it has written.
Idle == [pc |-> "idle", id |-> Nothing, email |-> Nothing, password |-> Nothing,
         hash |-> Nothing, token |-> Nothing, version |-> 0, code |-> 0, wrote |-> FALSE]

Init ==
    /\ users = [i \in Ids |-> Nothing] /\ spent = {}
    /\ profiles = {} /\ quotas = {}
    /\ verifier = [i \in Ids |-> Nothing] /\ reseter = [i \in Ids |-> Nothing]
    /\ issued = [t \in Tokens |-> Nothing] /\ mail = [t \in Tokens |-> "new"]
    /\ inbox = {} /\ sessions = {}
    /\ flight = [c \in Clients |-> Idle]
    /\ answer = Nothing
    /\ outages = 0

-----------------------------------------------------------------------------
(* The statements of the repositories.                                     *)

Outage(kind) == kind \in Faults /\ outages < MaxOutages /\ outages' = outages + 1

\* A transaction: all of its writes, or none and the failure's answer.  The outages include
\* what repeatable read (txManager.With) refuses: a write to a row that another transaction
\* changed since this one's snapshot.
With(commit, rollback) ==
    \/ commit /\ UNCHANGED outages
    \/ Outage("db") /\ rollback /\ UNCHANGED tables

GetByEmail(e) == {i \in Ids : users[i] # Nothing /\ users[i].email = e}
GetById(i)    == users[i] # Nothing
\* A profile being updated holds its users row; writers of it wait.
Locked(i)     == \E c \in Clients : flight[c].pc = "patch" /\ flight[c].id = i
FreeIds       == {i \in Ids : users[i] = Nothing /\ i \notin spent}
Busy(pcs)     == {c \in Clients : flight[c].pc \in pcs}

\* The bounds: nobody asks for an id or a token when none is left, and one that runs
\* out on the way fails like a failed write; a version is left for every edit.
NewTokens == {t \in Tokens : mail[t] = "new"}
\* Ids and tokens are random: which one is drawn makes no difference to anybody.
NewId     == CHOOSE i \in FreeIds : TRUE
NewToken  == CHOOSE t \in NewTokens : TRUE
RoomToChange(i) ==
    GetById(i) => users[i].version
                    + Cardinality({c \in Busy({"change", "edit", "patch"}) : flight[c].id = i})
                    < MaxVersion

Create(i, e, p) ==
    users' = [users EXCEPT ![i] =
                  [email |-> e, password |-> p, verified |-> FALSE, version |-> 0]]
SetProfile(i)     == profiles' = profiles \cup {i}
CreateQuota(i)    == quotas' = quotas \cup {i}
SetVerified(i)    ==
    users' = IF GetById(i) THEN [users EXCEPT ![i].verified = TRUE] ELSE users
UpdatePassword(i, p) ==
    users' = IF GetById(i) THEN [users EXCEPT ![i].password = p] ELSE users
ChangeHash(i, p)  ==
    users' = IF GetById(i) THEN [users EXCEPT ![i].password = p, ![i].version = @ + 1]
                           ELSE users
PatchUser(i)      == users' = [users EXCEPT ![i].version = @ + 1]

\* Deleting a users row cascades to every table that references it.
DeleteById(i) ==
    /\ users' = [users EXCEPT ![i] = Nothing]
    /\ spent' = IF GetById(i) THEN spent \cup {i} ELSE spent
    /\ profiles' = profiles \ {i} /\ quotas' = quotas \ {i}
    /\ verifier' = [verifier EXCEPT ![i] = Nothing]
    /\ reseter' = [reseter EXCEPT ![i] = Nothing]

RowsWith(table, h) == {i \in Ids : table[i] # Nothing /\ table[i].hash = h}
\* Mutant: the hash is not compared.
GetByHash_Any(h)   == {i \in Ids : verifier[i] # Nothing /\ verifier[i].live}
GetByHash(h)       == {i \in RowsWith(verifier, h) : verifier[i].live}
GetByToken(h)      == {i \in RowsWith(reseter, h) : reseter[i].live}
CreateVerifier(i, h) == verifier' = [verifier EXCEPT ![i] = [hash |-> h, live |-> TRUE]]
DeleteVerifier(h)  ==
    verifier' = [i \in Ids |-> IF i \in RowsWith(verifier, h) THEN Nothing ELSE verifier[i]]
\* The upsert replaces the hash of an old row and leaves its expiry.
CreateReseter(i, h) ==
    reseter' = [reseter EXCEPT ![i] =
                    [hash |-> h, live |-> IF @ = Nothing THEN TRUE ELSE @.live]]
DeleteReseter(i)   == reseter' = [reseter EXCEPT ![i] = Nothing]

\* GenerateToken: a token nobody has seen, for the row and the mail of one user.
GenerateToken(t, kind, i) ==
    /\ NewTokens # {} /\ t = NewToken
    /\ mail' = [mail EXCEPT ![t] = "drawn"]
    /\ issued' = [issued EXCEPT ![t] = <<kind, i>>]
    /\ UNCHANGED inbox

-----------------------------------------------------------------------------
(* Requests and answers.                                                   *)

At(c, pc)     == flight[c].pc = pc
Start(c, request) == flight' = [flight EXCEPT ![c] = request] /\ answer' = Nothing
Goto(c, pc)   == flight' = [flight EXCEPT ![c].pc = pc] /\ answer' = Nothing
Answer(c, op, code, wrote, hash) ==
    /\ flight' = [flight EXCEPT ![c] = Idle]
    /\ answer' = [op |-> op, code |-> code, id |-> flight[c].id, wrote |-> wrote,
                  hash |-> hash]
\* A refusal by a request that wrote nothing claims nothing to keep a record of.
Refuse(c, op, code) ==
    IF flight[c].wrote
    THEN Answer(c, op, code, TRUE, Nothing)
    ELSE flight' = [flight EXCEPT ![c] = Idle] /\ answer' = Nothing
\* The status each handler sends for what the service returned.  A failed publish
\* is no failure to the caller of these.
SignupCode(err) == CASE err \in {"none", "mq"} -> 201 [] err = "exists" -> 409 [] OTHER -> 500
VerifyCode(err) == CASE err = "none" -> 200 [] err = "invalid" -> 410 [] OTHER -> 500
ResendCode(err) == CASE err \in {"none", "mq"} -> 202 [] err = "notFound" -> 404
                     [] err = "fetch" -> 403 [] OTHER -> 500
ForgotCode(err) == CASE err \in {"none", "mq", "notFound"} -> 202
                     [] err = "notVerified" -> 403 [] OTHER -> 500
ResetGetCode(err)  == IF err = "none" THEN 200 ELSE 410
ResetPostCode(err) == CASE err \in {"none", "mq"} -> 200 [] err = "fetch" -> 410 [] OTHER -> 500
LoginCode(err)  == CASE err = "none" -> 200 [] err = "notVerified" -> 403
                     [] err = "credential" -> 401 [] OTHER -> 500
ChangeCode(err) == CASE err = "none" -> 200 [] err = "notFound" -> 404
                     [] err = "credential" -> 401 [] OTHER -> 500
DeleteCode(err) == CASE err = "none" -> 200 [] err = "notFound" -> 404
                     [] err = "credential" -> 401 [] OTHER -> 500
ProfileCode(err) == CASE err = "none" -> 200 [] err = "notFound" -> 404 [] OTHER -> 500
PatchCode(err)  == CASE err = "none" -> 200 [] err = "etag" -> 412 [] OTHER -> 500

-----------------------------------------------------------------------------
(* Signup: one transaction of four inserts, then the mail.                 *)

Signup(c, e, p) ==
    /\ At(c, "idle") /\ NewTokens # {} /\ FreeIds # {}
    /\ IF GetByEmail(e) # {}
       THEN Refuse(c, "signup", SignupCode("exists"))
       ELSE Start(c, [Idle EXCEPT !.pc = "signup", !.email = e, !.password = p])
    /\ UNCHANGED <<tables, mailVars, sessions, outages>>

\* Another signup may have taken the email since the transaction looked.
SignupTaken(c) ==
    /\ At(c, "signup")
    /\ GetByEmail(flight[c].email) # {} \/ FreeIds = {} \/ NewTokens = {}
    /\ Refuse(c, "signup", SignupCode("create"))
    /\ UNCHANGED <<tables, mailVars, sessions, outages>>

SignupRows(c, i, t) ==
    /\ i = NewId
    /\ Create(i, flight[c].email, flight[c].password)
    /\ CreateVerifier(i, Hash(t))
    /\ SetProfile(i)
    /\ CreateQuota(i)
    /\ GenerateToken(t, "verify", i)
    /\ Start(c, [Idle EXCEPT !.pc = "publish", !.id = i, !.token = t, !.code = SignupCode("none"),
                 !.wrote = TRUE])
    /\ UNCHANGED <<spent, reseter>>

\* Mutant: the inserts commit one by one, and one may fail after the first.
SignupTx_NoTx(c) ==
    /\ At(c, "signup")
    /\ GetByEmail(flight[c].email) = {}
    /\ \E i \in FreeIds, t \in NewTokens :
          \/ SignupRows(c, i, t) /\ UNCHANGED outages
          \/ /\ Outage("db")
             /\ Create(i, flight[c].email, flight[c].password)
             /\ Refuse(c, "signup", SignupCode("create"))
             /\ UNCHANGED <<spent, sideVars, linkVars, mailVars>>
    /\ UNCHANGED sessions

SignupTx(c) ==
    /\ At(c, "signup")
    /\ GetByEmail(flight[c].email) = {}
    /\ \E i \in FreeIds, t \in NewTokens :
          With(SignupRows(c, i, t),
               Refuse(c, "signup", SignupCode("create")) /\ UNCHANGED mailVars)
    /\ UNCHANGED sessions

\* PublishEmail: the answer is the same whether the broker takes the mail or not.
PublishEmail(c) ==
    /\ At(c, "publish")
    /\ \/ mail' = [mail EXCEPT ![flight[c].token] = "queued"] /\ UNCHANGED outages
       \/ mail' = [mail EXCEPT ![flight[c].token] = "lost"] /\ Outage("mq")
    /\ Answer(c, "mailed", flight[c].code, TRUE, Hash(flight[c].token))
    /\ UNCHANGED <<tables, issued, inbox, sessions>>

-----------------------------------------------------------------------------
(* Verify and ResendVerify.                                                *)

\* Mutant: the token is looked up without hashing it.
Verify_Raw(c, t) ==
    /\ At(c, "idle") /\ t \in inbox
    /\ IF GetByHash(t) = {}
       THEN Refuse(c, "verify", VerifyCode("invalid"))
       ELSE \E i \in GetByHash(t) : Start(c, [Idle EXCEPT !.pc = "verify", !.id = i, !.hash = t])
    /\ UNCHANGED <<tables, mailVars, sessions, outages>>

\* The row is read outside the transaction that consumes it.
Verify(c, t) ==
    /\ At(c, "idle") /\ t \in inbox
    /\ \/ /\ UNCHANGED outages
          /\ IF GetByHash(Hash(t)) = {}
             THEN Refuse(c, "verify", VerifyCode("invalid"))
             ELSE \E i \in GetByHash(Hash(t)) :
                     Start(c, [Idle EXCEPT !.pc = "verify", !.id = i, !.hash = Hash(t)])
       \/ Outage("db") /\ Refuse(c, "verify", VerifyCode("fetch"))
    /\ UNCHANGED <<tables, mailVars, sessions>>

\* Mutant: a failed transaction is answered as a success.
VerifyTx_IgnoresError(c) ==
    LET f == flight[c] IN
    /\ At(c, "verify") /\ ~Locked(f.id)
    /\ \/ /\ SetVerified(f.id) /\ DeleteVerifier(f.hash)
          /\ UNCHANGED <<spent, sideVars, reseter, outages>>
       \/ Outage("db") /\ UNCHANGED tables
    /\ Answer(c, "verify", VerifyCode("none"), TRUE, f.hash)
    /\ UNCHANGED <<mailVars, sessions>>

VerifyTx(c) ==
    LET f == flight[c] IN
    /\ At(c, "verify") /\ ~Locked(f.id)
    /\ With(/\ SetVerified(f.id)
            /\ DeleteVerifier(f.hash)
            /\ Answer(c, "verify", VerifyCode("none"), TRUE, f.hash)
            /\ UNCHANGED <<spent, sideVars, reseter>>,
            Refuse(c, "verify", VerifyCode("write")))
    /\ UNCHANGED <<mailVars, sessions>>

ResendVerify(c, e) ==
    /\ At(c, "idle") /\ NewTokens # {}
    /\ \/ /\ UNCHANGED outages
          /\ IF GetByEmail(e) = {}
             THEN Refuse(c, "resend", ResendCode("notFound"))
             ELSE \E i \in GetByEmail(e) :
                     IF users[i].verified
                     THEN Refuse(c, "resend", ResendCode("verified"))
                     ELSE Start(c, [Idle EXCEPT !.pc = "find", !.id = i])
       \/ Outage("db") /\ Refuse(c, "resend", ResendCode("db"))
    /\ UNCHANGED <<tables, mailVars, sessions>>

\* GetById takes an expired row too.  A failed read is answered as "not verified".
ResendFind(c) ==
    LET old == verifier[flight[c].id] IN
    /\ At(c, "find")
    /\ \/ /\ IF old = Nothing
             THEN Goto(c, "link")
             ELSE /\ flight' = [flight EXCEPT ![c].pc = "unlink", ![c].hash = old.hash]
                  /\ answer' = Nothing
          /\ UNCHANGED outages
       \/ Outage("db") /\ Refuse(c, "resend", ResendCode("fetch"))
    /\ UNCHANGED <<tables, mailVars, sessions>>

ResendDelete(c) ==
    /\ At(c, "unlink")
    /\ \/ /\ DeleteVerifier(flight[c].hash)
          /\ flight' = [flight EXCEPT ![c].pc = "link", ![c].wrote = TRUE]
          /\ answer' = Nothing
          /\ UNCHANGED outages
       \/ Outage("db") /\ Refuse(c, "resend", ResendCode("db")) /\ UNCHANGED verifier
    /\ UNCHANGED <<users, spent, sideVars, reseter, mailVars, sessions>>

\* Mutant: the new link is stored and never published.
ResendCreate_NoMail(c) ==
    LET i == flight[c].id IN
    /\ At(c, "link") /\ GetById(i) /\ verifier[i] = Nothing
    /\ \E t \in Tokens :
          /\ GenerateToken(t, "verify", i)
          /\ CreateVerifier(i, Hash(t))
          /\ Answer(c, "resend", ResendCode("none"), TRUE, Nothing)
    /\ UNCHANGED <<users, spent, sideVars, reseter, sessions, outages>>

\* The user may be gone, or another request may have made the user's one row.
ResendCreate(c) ==
    LET i == flight[c].id IN
    /\ At(c, "link") /\ ~Locked(i)
    /\ \/ /\ GetById(i) /\ verifier[i] = Nothing
          /\ \E t \in Tokens :
                /\ GenerateToken(t, "verify", i)
                /\ CreateVerifier(i, Hash(t))
                /\ Start(c, [Idle EXCEPT !.pc = "publish", !.id = i, !.token = t,
                             !.code = ResendCode("none"), !.wrote = TRUE])
          /\ UNCHANGED outages
       \/ /\ \/ (~GetById(i) \/ verifier[i] # Nothing \/ NewTokens = {}) /\ UNCHANGED outages
             \/ Outage("db")
          /\ Refuse(c, "resend", ResendCode("create"))
          /\ UNCHANGED <<verifier, mailVars>>
    /\ UNCHANGED <<users, spent, sideVars, reseter, sessions>>

-----------------------------------------------------------------------------
(* ForgotPassword and the two ends of its link.                            *)

ForgotPassword(c, e) ==
    /\ At(c, "idle") /\ NewTokens # {}
    /\ \/ /\ UNCHANGED outages
          /\ IF GetByEmail(e) = {}
             THEN Refuse(c, "forgot", ForgotCode("notFound"))
             ELSE \E i \in GetByEmail(e) :
                     IF users[i].verified
                     THEN Start(c, [Idle EXCEPT !.pc = "forgot", !.id = i])
                     ELSE Refuse(c, "forgot", ForgotCode("notVerified"))
       \/ Outage("db") /\ Refuse(c, "forgot", ForgotCode("db"))
    /\ UNCHANGED <<tables, mailVars, sessions>>

\* The row read first is not used; the upsert needs the user to be there still.
ForgotUpsert(c) ==
    LET i == flight[c].id IN
    /\ At(c, "forgot") /\ ~Locked(i)
    /\ \/ /\ GetById(i)
          /\ \E t \in Tokens :
                /\ GenerateToken(t, "reset", i)
                /\ CreateReseter(i, Hash(t))
                /\ Start(c, [Idle EXCEPT !.pc = "publish", !.id = i, !.token = t,
                             !.code = ForgotCode("none"), !.wrote = TRUE])
          /\ UNCHANGED outages
       \/ /\ \/ (~GetById(i) \/ NewTokens = {}) /\ UNCHANGED outages
             \/ Outage("db")
          /\ Refuse(c, "forgot", ForgotCode("create"))
          /\ UNCHANGED <<reseter, mailVars>>
    /\ UNCHANGED <<users, spent, sideVars, verifier, sessions>>

\* Both look the token up as it came, while the row holds its hash.
ResetPasswordGet(c, t) ==
    /\ At(c, "idle") /\ t \in inbox
    /\ Answer(c, "reset", ResetGetCode(IF GetByToken(t) = {} THEN "fetch" ELSE "none"),
              FALSE, Hash(t))
    /\ UNCHANGED <<tables, mailVars, sessions, outages>>

ResetPasswordPost(c, t, p) ==
    /\ At(c, "idle") /\ t \in inbox
    /\ IF GetByToken(t) = {}
       THEN /\ Answer(c, "reset", ResetPostCode("fetch"), FALSE, Hash(t))
            /\ UNCHANGED <<tables, outages>>
       ELSE \E i \in GetByToken(t) :
               /\ ~Locked(i)
               /\ With(/\ UpdatePassword(i, p)
                       /\ DeleteReseter(i)
                       /\ Answer(c, "reset", ResetPostCode("none"), TRUE, Hash(t))
                       /\ UNCHANGED <<spent, sideVars, verifier>>,
                       Refuse(c, "reset", ResetPostCode("db")))
    /\ UNCHANGED <<mailVars, sessions>>

-----------------------------------------------------------------------------
(* Requests with a JWT.  Its bearer may have no account any more.          *)

Login(c, e, p) ==
    /\ At(c, "idle")
    /\ \/ /\ UNCHANGED outages
          /\ IF \E i \in GetByEmail(e) : users[i].verified /\ users[i].password = p
             THEN /\ sessions' = sessions \cup GetByEmail(e)
                  /\ Refuse(c, "login", LoginCode("none"))
             ELSE /\ Refuse(c, "login",
                         LoginCode(IF \E i \in GetByEmail(e) : ~users[i].verified
                                   THEN "notVerified" ELSE "credential"))
                  /\ UNCHANGED sessions
       \/ /\ Outage("db")
          /\ Refuse(c, "login", LoginCode("credential"))
          /\ UNCHANGED sessions
    /\ UNCHANGED <<tables, mailVars>>

\* The current password is compared with the row as it was read.
ChangePassword(c, i, current, p) ==
    /\ At(c, "idle") /\ i \in sessions /\ RoomToChange(i)
    /\ \/ /\ UNCHANGED outages
          /\ CASE ~GetById(i) -> Refuse(c, "change", ChangeCode("notFound"))
               [] GetById(i) /\ current = p -> Refuse(c, "change", ChangeCode("same"))
               [] GetById(i) /\ current # p /\ users[i].password # current ->
                    Refuse(c, "change", ChangeCode("credential"))
               [] OTHER -> Start(c, [Idle EXCEPT !.pc = "change", !.id = i, !.password = p])
       \/ Outage("db") /\ Refuse(c, "change", ChangeCode("db"))
    /\ UNCHANGED <<tables, mailVars, sessions>>

ChangeWrite(c) ==
    LET f == flight[c] IN
    /\ At(c, "change") /\ ~Locked(f.id)
    /\ \/ /\ ChangeHash(f.id, f.password)
          /\ Answer(c, "change", ChangeCode("none"), TRUE, Nothing)
          /\ UNCHANGED outages
       \/ Outage("db") /\ Refuse(c, "change", ChangeCode("db")) /\ UNCHANGED users
    /\ UNCHANGED <<spent, sideVars, linkVars, mailVars, sessions>>

\* Any error of the read counts as "not found".
DeleteUser(c, i, p) ==
    /\ At(c, "idle") /\ i \in sessions
    /\ \/ /\ UNCHANGED outages
          /\ CASE ~GetById(i) -> Refuse(c, "delete", DeleteCode("notFound"))
               [] GetById(i) /\ users[i].password # p ->
                    Refuse(c, "delete", DeleteCode("credential"))
               [] OTHER -> Start(c, [Idle EXCEPT !.pc = "delete", !.id = i])
       \/ Outage("db") /\ Refuse(c, "delete", DeleteCode("notFound"))
    /\ UNCHANGED <<tables, mailVars, sessions>>

DeleteWrite(c) ==
    /\ At(c, "delete") /\ ~Locked(flight[c].id)
    /\ \/ /\ DeleteById(flight[c].id)
          /\ Answer(c, "delete", DeleteCode("none"), TRUE, Nothing)
          /\ UNCHANGED outages
       \/ Outage("db") /\ Refuse(c, "delete", DeleteCode("db")) /\ UNCHANGED tables
    /\ UNCHANGED <<mailVars, sessions>>

\* GET hands out the ETag; the client keeps it, without its quotes, while it edits.
GetProfile(c, i) ==
    /\ At(c, "idle") /\ i \in sessions /\ RoomToChange(i)
    /\ IF GetById(i)
       THEN Start(c, [Idle EXCEPT !.pc = "edit", !.id = i, !.version = users[i].version])
       ELSE Refuse(c, "profile", ProfileCode("notFound"))
    /\ UNCHANGED <<tables, mailVars, sessions, outages>>

\* PATCH with that ETag: select for update and compare (one that a client left in quotes
\* matches no version) ...
UpdateProfile(c) ==
    LET i == flight[c].id IN
    /\ At(c, "edit") /\ ~Locked(i)
    /\ \/ /\ UNCHANGED outages
          /\ CASE ~GetById(i) -> Refuse(c, "patch", PatchCode("noRows"))
               [] GetById(i) /\ users[i].version # flight[c].version ->
                    Refuse(c, "patch", PatchCode("etag"))
               [] OTHER -> Goto(c, "patch") \/ Refuse(c, "patch", PatchCode("etag"))
       \/ Outage("db") /\ Refuse(c, "patch", PatchCode("db"))
    /\ UNCHANGED <<tables, mailVars, sessions>>

\* ... then update, and commit or roll back.
UpdateProfileTx(c) ==
    /\ At(c, "patch")
    /\ With(/\ PatchUser(flight[c].id)
            /\ Answer(c, "patch", PatchCode("none"), TRUE, Nothing)
            /\ UNCHANGED <<spent, sideVars, linkVars>>,
            Refuse(c, "patch", PatchCode("db")))
    /\ UNCHANGED <<mailVars, sessions>>

-----------------------------------------------------------------------------
(* The email worker, and what the environment does.                        *)

\* handle: a mail that cannot be sent is dead-lettered at once ...
Send(t) ==
    /\ mail[t] = "queued"
    /\ \/ /\ mail' = [mail EXCEPT ![t] = "sent"]
          /\ inbox' = inbox \cup {t}
          /\ UNCHANGED outages
       \/ mail' = [mail EXCEPT ![t] = "dead"] /\ Outage("smtp") /\ UNCHANGED inbox
    /\ answer' = Nothing
    /\ UNCHANGED <<tables, issued, sessions, flight>>

\* ... and one that was sent is acked.
Ack(t) ==
    /\ mail[t] = "sent"
    /\ mail' = [mail EXCEPT ![t] = "acked"]
    /\ answer' = Nothing
    /\ UNCHANGED <<tables, issued, inbox, sessions, flight, outages>>

\* The worker dies, or its channel closes: what is not settled is delivered again.
WorkerCrash ==
    /\ Outage("crash")
    /\ mail' = [t \in Tokens |-> IF mail[t] = "sent" THEN "queued" ELSE mail[t]]
    /\ answer' = Nothing
    /\ UNCHANGED <<tables, issued, inbox, sessions, flight>>

\* The API dies: requests end unanswered, open transactions roll back.
ApiCrash ==
    /\ Outage("crash")
    /\ flight' = [c \in Clients |-> Idle]
    /\ answer' = Nothing
    /\ mail' = [t \in Tokens |-> IF mail[t] = "drawn" THEN "lost" ELSE mail[t]]
    /\ UNCHANGED <<tables, issued, inbox, sessions>>

Expire(i) ==
    /\ Outage("expire")
    /\ \/ /\ verifier[i] # Nothing /\ verifier[i].live
          /\ verifier' = [verifier EXCEPT ![i].live = FALSE]
          /\ UNCHANGED reseter
       \/ /\ reseter[i] # Nothing /\ reseter[i].live
          /\ reseter' = [reseter EXCEPT ![i].live = FALSE]
          /\ UNCHANGED verifier
    /\ answer' = Nothing
    /\ UNCHANGED <<users, spent, sideVars, mailVars, sessions, flight>>

Server(c) ==
    \/ SignupTaken(c) \/ SignupTx(c) \/ PublishEmail(c)
    \/ VerifyTx(c) \/ ResendFind(c) \/ ResendDelete(c) \/ ResendCreate(c)
    \/ ForgotUpsert(c) \/ ChangeWrite(c) \/ DeleteWrite(c) \/ UpdateProfileTx(c)

\* The routes of anybody, and those of a JWT.
Client(c) ==
    \/ \E e \in Emails, p \in Passwords : Signup(c, e, p) \/ Login(c, e, p)
    \/ \E t \in Tokens : Verify(c, t) \/ ResetPasswordGet(c, t)
    \/ \E t \in Tokens, p \in Passwords : ResetPasswordPost(c, t, p)
    \/ \E e \in Emails : ResendVerify(c, e) \/ ForgotPassword(c, e)

Bearer(c) ==
    \/ \E i \in Ids, p, q \in Passwords : ChangePassword(c, i, p, q)
    \/ \E i \in Ids, p \in Passwords : DeleteUser(c, i, p)
    \/ \E i \in Ids : GetProfile(c, i)
    \/ UpdateProfile(c)

Next ==
    \/ \E c \in Clients : Server(c) \/ Client(c) \/ Bearer(c)
    \/ \E t \in Tokens : Send(t) \/ Ack(t)
    \/ WorkerCrash \/ ApiCrash
    \/ \E i \in Ids : Expire(i)

Spec == Init /\ [][Next]_vars

\* A request the API has taken up goes on, the worker works, and whoever finds a
\* link in the mailbox clicks it until it has been served.
Fairness ==
    /\ \A c \in Clients : WF_vars(Server(c))
    /\ \A t \in Tokens : WF_vars(Send(t)) /\ WF_vars(Ack(t))
    /\ \A t \in Tokens : SF_vars(\E c \in Clients : Verify(c, t))

FairSpec == Spec /\ Fairness

-----------------------------------------------------------------------------
(* Properties.                                                             *)

TypeOK ==
    /\ users \in [Ids -> Account \cup {Nothing}]
    /\ spent \subseteq Ids /\ profiles \subseteq Ids /\ quotas \subseteq Ids
    /\ verifier \in [Ids -> Row \cup {Nothing}]
    /\ reseter \in [Ids -> Row \cup {Nothing}]
    /\ issued \in [Tokens -> ({"verify", "reset"} \X Ids) \cup {Nothing}]
    /\ mail \in [Tokens -> MailFates]
    /\ inbox \subseteq Tokens /\ sessions \subseteq Ids
    /\ \A c \in Clients : flight[c].pc \in RequestPcs
    /\ outages \in 0..MaxOutages

\* Signup's four rows appear together and go together, whatever statement of the
\* transaction fails and whoever deletes the account: every account has a profile
\* and a quota, and no other row of anybody is left behind.
AccountsAreWhole ==
    LET accounts == {i \in Ids : GetById(i)} IN
    /\ profiles = accounts /\ quotas = accounts
    /\ \A i \in Ids \ accounts : verifier[i] = Nothing /\ reseter[i] = Nothing

\* Two signups may both find the email free; one account comes of it.
OneAccountPerEmail == \A e \in Emails : Cardinality(GetByEmail(e)) <= 1

\* An account is verified by a link drawn for it and delivered to its mailbox, not
\* by one of an account that had the email before, nor by a reset link.
VerifiedByOwnLink ==
    \A i \in Ids : GetById(i) /\ users[i].verified =>
        \E t \in inbox : issued[t] = <<"verify", i>>

\* Through two resends at once, failed publishes and crashes: a link in a table was
\* drawn for that account, and a request is on its way to publish it until its mail
\* is queued, or known to be lost.
StoredLinkIsMailed ==
    \A i \in Ids, t \in Tokens :
        \A kind \in {"verify", "reset"} :
            i \in RowsWith(IF kind = "verify" THEN verifier ELSE reseter, Hash(t)) =>
                /\ issued[t] = <<kind, i>>
                /\ mail[t] = "drawn" =>
                      \E c \in Clients : At(c, "publish") /\ flight[c].token = t

\* What the caller reads is so: a 4xx means this request wrote nothing, not even in
\* an earlier statement; "check mail" and "user created" that the mail was handed
\* over or lost; "account verified" that it is and that the link is used up; "user
\* deleted" that no account is left.
AnswersAreTrue ==
    answer # Nothing =>
        /\ answer.code \in 400..499 => ~answer.wrote
        /\ answer.op = "mailed" =>
              \A t \in Tokens : answer.hash = Hash(t) => mail[t] \notin {"new", "drawn"}
        /\ answer.op = "verify" /\ answer.code = 200 =>
              /\ RowsWith(verifier, answer.hash) = {}
              /\ GetById(answer.id) => users[answer.id].verified
        /\ answer.op = "delete" /\ answer.code = 200 => ~GetById(answer.id)

\* Between the select for update and the update nobody changes the row: the ETag the
\* client sent is still the row's, so no other edit is overwritten unseen.
PatchSeesItsVersion ==
    \A c \in Clients : At(c, "patch") =>
        /\ GetById(flight[c].id)
        /\ users[flight[c].id].version = flight[c].version

\* A verification link that was mailed verifies its account, unless it expired or
\* was replaced first, or its mail could not be sent.
MailedLinkWorks ==
    \A i \in Ids, t \in Tokens :
        mail[t] = "queued" /\ i \in GetByHash(Hash(t)) ~>
            \/ GetById(i) /\ users[i].verified
            \/ i \notin GetByHash(Hash(t))
            \/ mail[t] = "dead"

\* The tables of the accounts agree with one another and with the edits in flight.
TablesAgree == TypeOK /\ AccountsAreWhole /\ OneAccountPerEmail /\ PatchSeesItsVersion
=============================================================================
