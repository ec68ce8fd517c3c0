---------------------------- MODULE AccountsProofs ----------------------------
(***************************************************************************)
(* Theorems about Accounts, for any emails, ids, tokens, clients, faults   *)
(* and bounds: the tables agree with one another and with the edits in     *)
(* flight, only a link an account was mailed verifies it, a stored link is *)
(* handed on or given up, and what the API answers is so.                  *)
(***************************************************************************)
EXTENDS Accounts, TLAPS, FiniteSetTheorems

-----------------------------------------------------------------------------
(* What a request knows between two statements.                            *)

Hashes == {Hash(t) : t \in Tokens}
Flights == [pc : RequestPcs, id : Ids \cup {Nothing}, email : Emails \cup {Nothing},
            password : Passwords \cup {Nothing}, hash : Hashes \cup {Nothing},
            token : Tokens \cup {Nothing}, version : Nat, code : Nat, wrote : BOOLEAN]

\* A link of account i that reached its mailbox.
Mailed(i, h) == \E t \in inbox : h = Hash(t) /\ issued[t] = <<"verify", i>>

Knows(f) ==
    /\ f \in Flights
    /\ f.pc \notin {"idle", "signup"} => f.id \in Ids
    /\ f.pc = "signup" => f.email \in Emails /\ f.password \in Passwords
    /\ f.pc = "change" => f.password \in Passwords
    /\ f.pc = "publish" => f.token \in Tokens
    /\ f.pc = "verify" => Mailed(f.id, f.hash)

FlightInv == flight \in [Clients -> Flights] /\ \A c \in Clients : Knows(flight[c])

LEMMA HashType ==
    /\ \A t \in Tokens : Hash(t) \in Hashes
    /\ \A s, t : Hash(s) = Hash(t) => s = t
    /\ Row = [hash : Hashes, live : BOOLEAN]
<1>1. \A s, t : Hash(s) = Hash(t) => s = t
  BY DEF Hash
<1>2. QED
  BY <1>1 DEF Hashes, Row

\* Tokens are drawn once, for one purpose, and a mail that arrived stays.
LinksStay == inbox \subseteq inbox' /\ \A t \in inbox : issued'[t] = issued[t]

LEMMA KnowsStays == ASSUME LinksStay, NEW f, Knows(f) PROVE Knows(f)'
BY DEF LinksStay, Knows, Mailed

\* Every flight step moves one request, or ends all.
LEMMA Moves ==
    ASSUME FlightInv, LinksStay, NEW c \in Clients, NEW f, Knows(f)', flight' = [flight EXCEPT ![c] = f]
    PROVE  FlightInv' /\ flight'[c] = f /\ \A d \in Clients \ {c} : flight'[d] = flight[d]
<1>1. f \in Flights
  BY DEF Knows
<1>2. /\ flight' \in [Clients -> Flights] /\ flight'[c] = f
      /\ \A d \in Clients \ {c} : flight'[d] = flight[d]
  BY <1>1 DEF FlightInv
<1>3. \A d \in Clients \ {c} : Knows(flight[d])'
  BY KnowsStays DEF FlightInv
<1>4. QED
  BY <1>2, <1>3 DEF FlightInv, Knows

LEMMA IdleKnows == Knows(Idle) /\ Knows(Idle)' /\ Idle.pc = "idle" /\ Idle \in Flights
BY DEF Knows, Idle, Flights, RequestPcs


\* What is asked of a request that goes on, other than to a profile's update.
Moved(c) == \E f : Knows(f) /\ f.pc # "patch" /\ flight' = [flight EXCEPT ![c] = f]

LEMMA Ends ==
    ASSUME NEW c \in Clients, NEW op, NEW code, NEW wrote, NEW h,
           Refuse(c, op, code) \/ Answer(c, op, code, wrote, h)
    PROVE  Moved(c)
BY IdleKnows DEF Refuse, Answer, Moved

LEMMA OutageType ==
    ASSUME outages \in 0..MaxOutages, NEW kind, UNCHANGED outages \/ Outage(kind)
    PROVE  outages' \in 0..MaxOutages
BY AccountsAssumption DEF Outage

-----------------------------------------------------------------------------
(* The invariant.                                                          *)

TableTypes ==
    /\ users \in [Ids -> Account \cup {Nothing}]
    /\ spent \subseteq Ids /\ profiles \subseteq Ids /\ quotas \subseteq Ids
    /\ verifier \in [Ids -> Row \cup {Nothing}]
    /\ reseter \in [Ids -> Row \cup {Nothing}]

MailTypes ==
    /\ issued \in [Tokens -> ({"verify", "reset"} \X Ids) \cup {Nothing}]
    /\ mail \in [Tokens -> MailFates]
    /\ inbox \subseteq Tokens

EmailsDiffer ==
    \A i, j \in Ids : GetById(i) /\ GetById(j) /\ users[i].email = users[j].email => i = j

\* A link in the table was drawn for its account; a new token is in nobody's hands.
LinksOwn ==
    /\ \A i \in Ids, t \in Tokens :
          verifier[i] # Nothing /\ verifier[i].hash = Hash(t) =>
              issued[t] = <<"verify", i>> /\ mail[t] # "new"
    /\ \A t \in inbox : mail[t] # "new"

\* No two edits hold one row.
OnePatch ==
    \A c, d \in Clients :
        At(c, "patch") /\ At(d, "patch") /\ flight[c].id = flight[d].id => c = d

AccountInv ==
    /\ TableTypes /\ MailTypes
    /\ sessions \subseteq Ids /\ outages \in 0..MaxOutages
    /\ FlightInv
    /\ AccountsAreWhole /\ EmailsDiffer /\ VerifiedByOwnLink
    /\ LinksOwn
    /\ PatchSeesItsVersion /\ OnePatch

\* Accounts go or keep their email, and become verified by a link of theirs only.
Kept ==
    \A i \in Ids : users'[i] # Nothing =>
        /\ users[i] # Nothing /\ users'[i].email = users[i].email
        /\ users'[i].verified => users[i].verified \/ \E t \in inbox : issued[t] = <<"verify", i>>

LEMMA KeptUsers ==
    ASSUME EmailsDiffer, VerifiedByOwnLink, LinksStay, Kept
    PROVE  EmailsDiffer' /\ VerifiedByOwnLink'
<1>1. \A i \in Ids : GetById(i)' => GetById(i) /\ users'[i].email = users[i].email
  BY DEF Kept, GetById
<1>2. EmailsDiffer'
  BY <1>1 DEF EmailsDiffer
<1>3. ASSUME NEW i \in Ids, GetById(i)', users'[i].verified
      PROVE  \E t \in inbox' : issued'[t] = <<"verify", i>>
  <2>1. \E t \in inbox : issued[t] = <<"verify", i>>
    BY <1>1, <1>3 DEF Kept, VerifiedByOwnLink, GetById
  <2>2. QED
    BY <2>1 DEF LinksStay
<1>4. QED
  BY <1>2, <1>3 DEF VerifiedByOwnLink

\* Rows another edit holds are left alone.
HeldStay(c) ==
    \A d \in Clients \ {c} : At(d, "patch") => users'[flight[d].id] = users[flight[d].id]

LEMMA PatchesStay ==
    ASSUME FlightInv, PatchSeesItsVersion, OnePatch, LinksStay, NEW c \in Clients, Moved(c), HeldStay(c)
    PROVE  FlightInv' /\ PatchSeesItsVersion' /\ OnePatch'
<1>1. PICK f : Knows(f) /\ f.pc # "patch" /\ flight' = [flight EXCEPT ![c] = f]
  BY DEF Moved
<1>2. FlightInv' /\ flight'[c] = f /\ \A d \in Clients \ {c} : flight'[d] = flight[d]
  BY <1>1, KnowsStays, Moves
<1>3. \A d \in Clients : At(d, "patch")' => d # c /\ At(d, "patch") /\ flight'[d] = flight[d]
  BY <1>1, <1>2 DEF At
<1>4. OnePatch'
  BY <1>3 DEF OnePatch
<1>5. PatchSeesItsVersion'
  BY <1>3 DEF PatchSeesItsVersion, HeldStay, GetById
<1>6. QED
  BY <1>2, <1>4, <1>5

\* A step of one request that writes rows of accounts that are there.
LEMMA WriteStep ==
    ASSUME AccountInv, NEW c \in Clients, Moved(c), HeldStay(c), LinksStay, Kept,
           TableTypes', MailTypes', AccountsAreWhole', LinksOwn',
           sessions' \subseteq Ids, outages' \in 0..MaxOutages
    PROVE  AccountInv'
<1>1. EmailsDiffer' /\ VerifiedByOwnLink'
  BY KeptUsers DEF AccountInv
<1>2. FlightInv' /\ PatchSeesItsVersion' /\ OnePatch'
  BY PatchesStay DEF AccountInv
<1>3. QED
  BY <1>1, <1>2 DEF AccountInv

\* A step of one request that writes no table.
LEMMA QuietStep ==
    ASSUME AccountInv, NEW c \in Clients, Moved(c), UNCHANGED <<tables, mailVars>>,
           sessions' \subseteq Ids, outages' \in 0..MaxOutages
    PROVE  AccountInv'
<1>1. LinksStay /\ Kept /\ HeldStay(c)
  BY DEF LinksStay, Kept, HeldStay, tables, mailVars
<1>2. TableTypes' /\ MailTypes'
  BY DEF AccountInv, TableTypes, MailTypes, tables, mailVars, sideVars, linkVars
<1>3. AccountsAreWhole'
  BY DEF AccountInv, AccountsAreWhole, GetById, tables, sideVars, linkVars
<1>4. LinksOwn'
  BY DEF AccountInv, LinksOwn, tables, mailVars, linkVars
<1>5. QED
  BY <1>1, <1>2, <1>3, <1>4, WriteStep

-----------------------------------------------------------------------------
(* Requests that read, and refusals.                                       *)

\* A request that goes on knows what its next statement needs.
LEMMA Starts ==
    ASSUME NEW c \in Clients, NEW f, Start(c, f), Knows(f), f.pc # "patch"
    PROVE  Moved(c)
BY DEF Start, Moved

LEMMA SignupQuiet ==
    ASSUME AccountInv, NEW c \in Clients, NEW e \in Emails, NEW p \in Passwords, Signup(c, e, p)
    PROVE  AccountInv'
<1> DEFINE f == [Idle EXCEPT !.pc = "signup", !.email = e, !.password = p]
<1>1. Knows(f) /\ f.pc # "patch"
  BY DEF Knows, Idle, Flights, RequestPcs
<1>2. Moved(c)
  BY <1>1, Starts, Ends DEF Signup
<1>3. UNCHANGED <<tables, mailVars, sessions, outages>>
  BY DEF Signup
<1>4. QED
  BY <1>2, <1>3, QuietStep DEF AccountInv

LEMMA VerifyQuiet ==
    ASSUME AccountInv, NEW c \in Clients, NEW t \in Tokens, Verify(c, t) \/ ResetPasswordGet(c, t)
    PROVE  AccountInv'
<1>1. UNCHANGED <<tables, mailVars, sessions>> /\ outages' \in 0..MaxOutages
  BY OutageType DEF Verify, ResetPasswordGet, AccountInv
<1>2. ASSUME NEW i \in Ids, i \in GetByHash(Hash(t)), t \in inbox,
             Start(c, [Idle EXCEPT !.pc = "verify", !.id = i, !.hash = Hash(t)])
      PROVE  Moved(c)
  <2> DEFINE f == [Idle EXCEPT !.pc = "verify", !.id = i, !.hash = Hash(t)]
  <2>1. issued[t] = <<"verify", i>>
    BY <1>2 DEF GetByHash, RowsWith, AccountInv, LinksOwn
  <2>2. Mailed(i, Hash(t))
    BY <1>2, <2>1 DEF Mailed
  <2>3. f \in Flights /\ f.pc = "verify" /\ f.id = i /\ f.hash = Hash(t)
    BY HashType DEF Idle, Flights, RequestPcs
  <2>4. Knows(f)
    BY <2>2, <2>3 DEF Knows
  <2>5. QED
    BY <1>2, <2>3, <2>4, Starts
<1>3. GetByHash(Hash(t)) \subseteq Ids
  BY DEF GetByHash, RowsWith
<1>4. CASE ResetPasswordGet(c, t)
  <2>1. Moved(c)
    BY <1>4, Ends DEF ResetPasswordGet
  <2>2. QED
    BY <1>1, <2>1, QuietStep DEF AccountInv
<1>5. CASE Verify(c, t)
  <2>1. Moved(c)
    BY <1>2, <1>3, <1>5, Ends DEF Verify
  <2>2. QED
    BY <1>1, <2>1, QuietStep DEF AccountInv
<1>6. QED
  BY <1>4, <1>5

\* The requests that find an account by its email.
LEMMA LinkQuiet ==
    ASSUME AccountInv, NEW c \in Clients, NEW e \in Emails, ResendVerify(c, e) \/ ForgotPassword(c, e)
    PROVE  AccountInv'
<1>1. UNCHANGED <<tables, mailVars, sessions>> /\ outages' \in 0..MaxOutages
  BY OutageType DEF ResendVerify, ForgotPassword, AccountInv
<1>2. ASSUME NEW i \in Ids, NEW pc \in {"find", "forgot"}, Start(c, [Idle EXCEPT !.pc = pc, !.id = i])
      PROVE  Moved(c)
  <2> DEFINE f == [Idle EXCEPT !.pc = pc, !.id = i]
  <2>1. Knows(f) /\ f.pc # "patch"
    BY DEF Knows, Idle, Flights, RequestPcs
  <2>2. QED
    BY <1>2, <2>1, Starts
<1>3. GetByEmail(e) \subseteq Ids
  BY DEF GetByEmail
<1>4. Moved(c)
  BY <1>2, <1>3, Ends DEF ResendVerify, ForgotPassword
<1>5. QED
  BY <1>1, <1>4, QuietStep DEF AccountInv

LEMMA FindQuiet ==
    ASSUME AccountInv, NEW c \in Clients, ResendFind(c)
    PROVE  AccountInv'
<1> DEFINE g == [flight[c] EXCEPT !.pc = "link"]
           h == [flight[c] EXCEPT !.pc = "unlink", !.hash = verifier[flight[c].id].hash]
<1>1. UNCHANGED <<tables, mailVars, sessions>> /\ outages' \in 0..MaxOutages
  BY OutageType DEF ResendFind, AccountInv
<1>2. flight \in [Clients -> Flights] /\ flight[c] \in Flights /\ flight[c].id \in Ids
  BY DEF ResendFind, At, AccountInv, FlightInv, Knows
<1>3. Knows(g) /\ g.pc # "patch"
  BY <1>2 DEF Knows, Flights, RequestPcs
<1>4. verifier[flight[c].id] # Nothing => Knows(h) /\ h.pc # "patch"
  <2>1. verifier[flight[c].id] # Nothing => verifier[flight[c].id].hash \in Hashes
    BY <1>2, HashType DEF AccountInv, TableTypes
  <2>2. QED
    BY <1>2, <2>1 DEF Knows, Flights, RequestPcs
<1>5. \/ \E op, code : Refuse(c, op, code)
      \/ flight' = [flight EXCEPT ![c] = g]
      \/ verifier[flight[c].id] # Nothing /\ flight' = [flight EXCEPT ![c] = h]
  BY <1>2 DEF ResendFind, Goto
<1>6. Moved(c)
  BY <1>3, <1>4, <1>5, Ends DEF Moved
<1>7. QED
  BY <1>1, <1>6, QuietStep DEF AccountInv

LEMMA LoginQuiet ==
    ASSUME AccountInv, NEW c \in Clients, NEW e \in Emails, NEW p \in Passwords, Login(c, e, p)
    PROVE  AccountInv'
<1>1. UNCHANGED <<tables, mailVars>> /\ outages' \in 0..MaxOutages /\ sessions' \subseteq Ids
  BY OutageType DEF Login, AccountInv, GetByEmail
<1>2. Moved(c)
  BY Ends DEF Login
<1>3. QED
  BY <1>1, <1>2, QuietStep

LEMMA ChangeQuiet ==
    ASSUME AccountInv, NEW c \in Clients, NEW i \in Ids, NEW p \in Passwords, NEW q \in Passwords,
           ChangePassword(c, i, p, q)
    PROVE  AccountInv'
<1> DEFINE f == [Idle EXCEPT !.pc = "change", !.id = i, !.password = q]
<1>1. UNCHANGED <<tables, mailVars, sessions>> /\ outages' \in 0..MaxOutages
  BY OutageType DEF ChangePassword, AccountInv
<1>2. Knows(f) /\ f.pc # "patch"
  BY DEF Knows, Idle, Flights, RequestPcs
<1>3. (\E op, code : Refuse(c, op, code)) \/ Start(c, f)
  BY DEF ChangePassword
<1>4. QED
  BY <1>1, <1>2, <1>3, Starts, Ends, QuietStep DEF AccountInv

LEMMA DeleteQuiet ==
    ASSUME AccountInv, NEW c \in Clients, NEW i \in Ids, NEW p \in Passwords, DeleteUser(c, i, p)
    PROVE  AccountInv'
<1> DEFINE f == [Idle EXCEPT !.pc = "delete", !.id = i]
<1>1. UNCHANGED <<tables, mailVars, sessions>> /\ outages' \in 0..MaxOutages
  BY OutageType DEF DeleteUser, AccountInv
<1>2. Knows(f) /\ f.pc # "patch"
  BY DEF Knows, Idle, Flights, RequestPcs
<1>3. (\E op, code : Refuse(c, op, code)) \/ Start(c, f)
  BY DEF DeleteUser
<1>4. QED
  BY <1>1, <1>2, <1>3, Starts, Ends, QuietStep DEF AccountInv

LEMMA ProfileQuiet ==
    ASSUME AccountInv, NEW c \in Clients, NEW i \in Ids, GetProfile(c, i)
    PROVE  AccountInv'
<1> DEFINE f == [Idle EXCEPT !.pc = "edit", !.id = i, !.version = users[i].version]
<1>1. UNCHANGED <<tables, mailVars, sessions, outages>>
  BY DEF GetProfile
<1>2. GetById(i) => users[i].version \in Nat
  BY DEF AccountInv, TableTypes, GetById, Account
<1>3. GetById(i) => Knows(f) /\ f.pc # "patch"
  BY <1>2 DEF Knows, Idle, Flights, RequestPcs
<1>4. (\E op, code : Refuse(c, op, code)) \/ (GetById(i) /\ Start(c, f))
  BY DEF GetProfile
<1>5. QED
  BY <1>1, <1>3, <1>4, Starts, Ends, QuietStep DEF AccountInv

-----------------------------------------------------------------------------
(* Requests that write.                                                    *)

\* What a statement may do to the row of an account that is there.
Edited(i) ==
    \/ UNCHANGED users
    \/ \E row \in Account :
          /\ GetById(i) /\ row.email = users[i].email
          /\ row.verified => users[i].verified \/ \E t \in inbox : issued[t] = <<"verify", i>>
          /\ users' = [users EXCEPT ![i] = row]

LEMMA EditKeeps ==
    ASSUME AccountInv, NEW i \in Ids, Edited(i)
    PROVE  /\ Kept
           /\ users' \in [Ids -> Account \cup {Nothing}]
           /\ \A j \in Ids : GetById(j)' <=> GetById(j)
           /\ \A j \in Ids \ {i} : users'[j] = users[j]
<1>1. users \in [Ids -> Account \cup {Nothing}] /\ Nothing \notin Account
  BY AccountsAssumption DEF AccountInv, TableTypes
<1>2. CASE UNCHANGED users
  BY <1>1, <1>2 DEF Kept, GetById
<1>3. ASSUME NEW row \in Account, GetById(i), row.email = users[i].email,
             row.verified => users[i].verified \/ \E t \in inbox : issued[t] = <<"verify", i>>,
             users' = [users EXCEPT ![i] = row]
      PROVE  /\ Kept
             /\ users' \in [Ids -> Account \cup {Nothing}]
             /\ \A j \in Ids : GetById(j)' <=> GetById(j)
             /\ \A j \in Ids \ {i} : users'[j] = users[j]
  BY <1>1, <1>3 DEF Kept, GetById
<1>4. QED
  BY <1>2, <1>3 DEF Edited

\* The updates of the repository are edits.
LEMMA UpdatesEdit ==
    ASSUME AccountInv, NEW i \in Ids, NEW p,
           \/ SetVerified(i) /\ \E t \in inbox : issued[t] = <<"verify", i>>
           \/ p \in Passwords /\ (UpdatePassword(i, p) \/ ChangeHash(i, p))
           \/ PatchUser(i) /\ GetById(i)
    PROVE  Edited(i)
<1>1. users \in [Ids -> Account \cup {Nothing}] /\ (GetById(i) => users[i] \in Account)
  BY DEF AccountInv, TableTypes, GetById
<1> DEFINE verified == [users[i] EXCEPT !.verified = TRUE]
           moved    == [users[i] EXCEPT !.password = p]
           changed  == [users[i] EXCEPT !.password = p, !.version = @ + 1]
           patched  == [users[i] EXCEPT !.version = @ + 1]
<1>2. GetById(i) => /\ verified \in Account /\ patched \in Account
                    /\ p \in Passwords => moved \in Account /\ changed \in Account
  <2>1. ASSUME GetById(i) PROVE users[i].version + 1 \in Nat
    BY <1>1, <2>1 DEF Account
  <2>2. GetById(i) => verified \in Account
    BY <1>1 DEF Account
  <2>3. GetById(i) => patched \in Account
    BY <1>1, <2>1 DEF Account
  <2>4. GetById(i) /\ p \in Passwords => moved \in Account
    BY <1>1 DEF Account
  <2>5. GetById(i) /\ p \in Passwords => changed \in Account
    BY <1>1, <2>1 DEF Account
  <2>6. QED
    BY <2>2, <2>3, <2>4, <2>5
<1>3. GetById(i) => \A row \in {verified, moved, changed, patched} : row.email = users[i].email
  BY <1>1 DEF Account
<1>4. GetById(i) => \A row \in {moved, changed, patched} : row.verified = users[i].verified
  BY <1>1 DEF Account
<1>5. CASE SetVerified(i) /\ \E t \in inbox : issued[t] = <<"verify", i>>
  <2>1. UNCHANGED users \/ (GetById(i) /\ users' = [users EXCEPT ![i] = verified])
    BY <1>1, <1>5 DEF SetVerified
  <2>2. QED
    BY <1>2, <1>3, <1>5, <2>1 DEF Edited
<1>6. CASE p \in Passwords /\ UpdatePassword(i, p)
  <2>1. UNCHANGED users \/ (GetById(i) /\ users' = [users EXCEPT ![i] = moved])
    BY <1>1, <1>6 DEF UpdatePassword
  <2>2. QED
    BY <1>2, <1>3, <1>4, <1>6, <2>1 DEF Edited
<1>7. CASE p \in Passwords /\ ChangeHash(i, p)
  <2>1. UNCHANGED users \/ (GetById(i) /\ users' = [users EXCEPT ![i] = changed])
    BY <1>1, <1>7 DEF ChangeHash
  <2>2. QED
    BY <1>2, <1>3, <1>4, <1>7, <2>1 DEF Edited
<1>8. CASE PatchUser(i) /\ GetById(i)
  <2>1. users' = [users EXCEPT ![i] = patched]
    BY <1>1, <1>8 DEF PatchUser
  <2>2. QED
    BY <1>2, <1>3, <1>4, <1>8, <2>1 DEF Edited
<1>9. QED
  BY <1>5, <1>6, <1>7, <1>8

\* Rows of links may go, change their life, or be written for an account that is there.
LEMMA WholeStays ==
    ASSUME AccountsAreWhole, UNCHANGED sideVars,
           \A i \in Ids : GetById(i)' <=> GetById(i),
           \A i \in Ids : verifier'[i] # Nothing => verifier[i] # Nothing \/ GetById(i),
           \A i \in Ids : reseter'[i] # Nothing => reseter[i] # Nothing \/ GetById(i)
    PROVE  AccountsAreWhole'
<1>1. {i \in Ids : GetById(i)}' = {i \in Ids : GetById(i)}
  OBVIOUS
<1>2. QED
  BY <1>1 DEF AccountsAreWhole, sideVars

\* The fate of a mail moves on, and rows are taken away or keep their hash.
LEMMA LinksKept ==
    ASSUME AccountInv, UNCHANGED issued,
           \A i \in Ids : verifier'[i] # Nothing =>
               verifier[i] # Nothing /\ verifier'[i].hash = verifier[i].hash,
           \A t \in Tokens : mail'[t] = "new" => mail[t] = "new",
           inbox \subseteq inbox', \A t \in inbox' \ inbox : t \in Tokens /\ mail[t] # "new"
    PROVE  LinksOwn' /\ LinksStay
BY DEF AccountInv, MailTypes, LinksOwn, LinksStay

\* A token drawn for one account is in no other's row, and in no mailbox.
LEMMA LinksDrawn ==
    ASSUME AccountInv, NEW t \in Tokens, NEW i \in Ids, NEW kind \in {"verify", "reset"},
           GenerateToken(t, kind, i),
           (kind = "verify" /\ CreateVerifier(i, Hash(t))) \/ UNCHANGED verifier
    PROVE  /\ LinksOwn' /\ LinksStay /\ MailTypes'
           /\ verifier' \in [Ids -> Row \cup {Nothing}]
           /\ \A j \in Ids \ {i} : verifier'[j] = verifier[j]
<1>1. t \in NewTokens
  BY DEF GenerateToken, NewToken
<1>2. mail[t] = "new" /\ t \notin inbox
  BY <1>1 DEF NewTokens, AccountInv, LinksOwn
<1>3. /\ issued' = [issued EXCEPT ![t] = <<kind, i>>] /\ mail' = [mail EXCEPT ![t] = "drawn"]
      /\ inbox' = inbox
  BY DEF GenerateToken
<1>4. MailTypes' /\ LinksStay
  BY <1>2, <1>3 DEF AccountInv, MailTypes, LinksStay, MailFates
<1> DEFINE row == [hash |-> Hash(t), live |-> TRUE]
<1>5. verifier' = [verifier EXCEPT ![i] = row] \/ verifier' = verifier
  BY DEF CreateVerifier
<1>6. row \in Row /\ row.hash = Hash(t) /\ Nothing \notin Row
  BY AccountsAssumption, HashType
<1>7. verifier \in [Ids -> Row \cup {Nothing}]
  BY DEF AccountInv, TableTypes
<1>8. /\ verifier' \in [Ids -> Row \cup {Nothing}]
      /\ \A j \in Ids \ {i} : verifier'[j] = verifier[j]
  BY <1>5, <1>6, <1>7
<1>9. \A j \in Ids : verifier[j] # Nothing => verifier[j].hash # Hash(t)
  BY <1>2 DEF AccountInv, LinksOwn
<1>10. ASSUME NEW j \in Ids, NEW s \in Tokens, verifier'[j] # Nothing, verifier'[j].hash = Hash(s)
       PROVE  issued'[s] = <<"verify", j>> /\ mail'[s] # "new"
  <2>1. CASE verifier'[j] = verifier[j]
    <3>1. s # t /\ issued[s] = <<"verify", j>> /\ mail[s] # "new"
      BY <1>9, <1>10, <2>1 DEF AccountInv, LinksOwn
    <3>2. QED
      BY <1>3, <3>1 DEF AccountInv, MailTypes
  <2>2. CASE kind = "verify" /\ j = i /\ verifier'[j] = row
    <3>1. s = t
      BY <1>6, <1>10, <2>2, HashType
    <3>2. QED
      BY <1>3, <2>2, <3>1 DEF AccountInv, MailTypes
  <2>3. QED
    BY <1>7, <2>1, <2>2 DEF CreateVerifier
<1>11. \A s \in inbox' : mail'[s] # "new"
  BY <1>2, <1>3 DEF AccountInv, LinksOwn, MailTypes
<1>12. QED
  BY <1>4, <1>8, <1>10, <1>11 DEF LinksOwn

\* One edits at a time, and whoever is not the editor finds the row not locked.
LEMMA EditHolds ==
    ASSUME AccountInv, NEW c \in Clients, NEW i \in Ids, Edited(i),
           UNCHANGED users \/ ~Locked(i) \/ (At(c, "patch") /\ flight[c].id = i)
    PROVE  HeldStay(c)
<1>1. ASSUME NEW d \in Clients \ {c}, At(d, "patch"), ~UNCHANGED users PROVE flight[d].id \in Ids \ {i}
  <2>1. flight[d].id \in Ids
    BY <1>1 DEF AccountInv, FlightInv, Knows, At
  <2>2. flight[d].id # i
    BY <1>1 DEF Locked, At, AccountInv, OnePatch
  <2>3. QED
    BY <2>1, <2>2
<1>2. QED
  BY <1>1, EditKeeps DEF HeldStay

\* A statement that writes one account and takes away rows of links.
LEMMA EditStep ==
    ASSUME AccountInv, NEW c \in Clients, Moved(c), NEW i \in Ids, Edited(i),
           UNCHANGED users \/ ~Locked(i) \/ (At(c, "patch") /\ flight[c].id = i),
           UNCHANGED <<spent, sideVars, mailVars, sessions>>, outages' \in 0..MaxOutages,
           \A j \in Ids : verifier'[j] \in {verifier[j], Nothing} /\ reseter'[j] \in {reseter[j], Nothing},
           DOMAIN verifier' = Ids, DOMAIN reseter' = Ids,
           verifier' = [j \in Ids |-> verifier'[j]], reseter' = [j \in Ids |-> reseter'[j]]
    PROVE  AccountInv'
<1>1. HeldStay(c) /\ Kept /\ users' \in [Ids -> Account \cup {Nothing}]
      /\ \A j \in Ids : GetById(j)' <=> GetById(j)
  BY EditHolds, EditKeeps
<1>2. verifier' \in [Ids -> Row \cup {Nothing}] /\ reseter' \in [Ids -> Row \cup {Nothing}]
  BY DEF AccountInv, TableTypes
<1>3. TableTypes' /\ MailTypes'
  BY <1>1, <1>2 DEF AccountInv, TableTypes, MailTypes, sideVars, mailVars
<1>4. AccountsAreWhole'
  BY <1>1, WholeStays DEF AccountInv
<1>5. LinksOwn' /\ LinksStay
  BY LinksKept DEF mailVars
<1>6. QED
  BY <1>1, <1>3, <1>4, <1>5, WriteStep DEF AccountInv

LEMMA VerifyStep ==
    ASSUME AccountInv, NEW c \in Clients, VerifyTx(c)
    PROVE  AccountInv'
<1> DEFINE i == flight[c].id
<1>1. i \in Ids /\ ~Locked(i) /\ Mailed(i, flight[c].hash) /\ outages' \in 0..MaxOutages
  BY OutageType DEF VerifyTx, With, At, AccountInv, FlightInv, Knows
<1>2. Moved(c) /\ UNCHANGED <<mailVars, sessions>>
  BY Ends DEF VerifyTx, With
<1>3. CASE UNCHANGED tables
  BY <1>1, <1>2, <1>3, QuietStep DEF AccountInv
<1>4. CASE SetVerified(i) /\ DeleteVerifier(flight[c].hash) /\ UNCHANGED <<spent, sideVars, reseter>>
  <2>1. Edited(i)
    <3>1. SetVerified(i) /\ \E t \in inbox : issued[t] = <<"verify", i>>
      BY <1>1, <1>4 DEF Mailed
    <3>2. QED
      BY <1>1, <3>1, UpdatesEdit
  <2>2. /\ \A j \in Ids : verifier'[j] \in {verifier[j], Nothing}
        /\ DOMAIN verifier' = Ids /\ verifier' = [j \in Ids |-> verifier'[j]]
    BY <1>4 DEF DeleteVerifier
  <2>3. DOMAIN reseter' = Ids /\ reseter' = [j \in Ids |-> reseter'[j]] /\ reseter' = reseter
    BY <1>4 DEF AccountInv, TableTypes
  <2>4. QED
    BY <1>1, <1>2, <1>4, <2>1, <2>2, <2>3, EditStep
<1>5. QED
  BY <1>3, <1>4 DEF VerifyTx, With

LEMMA TablesAreFunctions ==
    ASSUME AccountInv
    PROVE  /\ DOMAIN verifier = Ids /\ verifier = [j \in Ids |-> verifier[j]]
           /\ DOMAIN reseter = Ids /\ reseter = [j \in Ids |-> reseter[j]]
BY DEF AccountInv, TableTypes

LEMMA ResetStep ==
    ASSUME AccountInv, NEW c \in Clients, NEW t \in Tokens, NEW p \in Passwords, ResetPasswordPost(c, t, p)
    PROVE  AccountInv'
<1>1. Moved(c) /\ UNCHANGED <<mailVars, sessions>> /\ outages' \in 0..MaxOutages
  BY Ends, OutageType DEF ResetPasswordPost, With, AccountInv
<1>2. CASE UNCHANGED tables
  BY <1>1, <1>2, QuietStep DEF AccountInv
<1>3. ASSUME NEW i \in Ids, ~Locked(i), UpdatePassword(i, p), DeleteReseter(i),
             UNCHANGED <<spent, sideVars, verifier>>
      PROVE  AccountInv'
  <2>1. Edited(i)
    BY <1>3, UpdatesEdit
  <2>2. reseter' = [reseter EXCEPT ![i] = Nothing]
    BY <1>3 DEF DeleteReseter
  <2>3. /\ \A j \in Ids : reseter'[j] \in {reseter[j], Nothing}
        /\ DOMAIN reseter' = Ids /\ reseter' = [j \in Ids |-> reseter'[j]]
    BY <2>2, TablesAreFunctions
  <2>4. DOMAIN verifier' = Ids /\ verifier' = [j \in Ids |-> verifier'[j]] /\ verifier' = verifier
    BY <1>3, TablesAreFunctions
  <2>5. QED
    BY <1>1, <1>3, <2>1, <2>3, <2>4, EditStep
<1>4. GetByToken(t) \subseteq Ids
  BY DEF GetByToken, RowsWith
<1>5. QED
  BY <1>2, <1>3, <1>4 DEF ResetPasswordPost, With

LEMMA ChangeStep ==
    ASSUME AccountInv, NEW c \in Clients, ChangeWrite(c) \/ UpdateProfileTx(c)
    PROVE  AccountInv'
<1> DEFINE i == flight[c].id
           p == flight[c].password
<1>1. i \in Ids /\ outages' \in 0..MaxOutages
  BY OutageType DEF ChangeWrite, UpdateProfileTx, With, At, AccountInv, FlightInv, Knows
<1>2. Moved(c) /\ UNCHANGED <<spent, sideVars, linkVars, mailVars, sessions>>
  BY Ends DEF ChangeWrite, UpdateProfileTx, With, tables
<1>3. Edited(i)
  <2>1. CASE ChangeWrite(c)
    <3>1. p \in Passwords
      BY <2>1 DEF ChangeWrite, At, AccountInv, FlightInv, Knows
    <3>2. QED
      BY <1>1, <2>1, <3>1, UpdatesEdit DEF ChangeWrite, Edited
  <2>2. CASE UpdateProfileTx(c)
    <3>1. GetById(i)
      BY <2>2 DEF UpdateProfileTx, AccountInv, PatchSeesItsVersion
    <3>2. QED
      BY <1>1, <2>2, <3>1, UpdatesEdit DEF UpdateProfileTx, With, Edited, tables
  <2>3. QED
    BY <2>1, <2>2
<1>4. ~Locked(i) \/ (At(c, "patch") /\ flight[c].id = i)
  BY DEF ChangeWrite, UpdateProfileTx
<1>5. /\ DOMAIN verifier' = Ids /\ verifier' = [j \in Ids |-> verifier'[j]] /\ verifier' = verifier
      /\ DOMAIN reseter' = Ids /\ reseter' = [j \in Ids |-> reseter'[j]] /\ reseter' = reseter
  BY <1>2, TablesAreFunctions DEF linkVars
<1>6. QED
  BY <1>1, <1>2, <1>3, <1>4, <1>5, EditStep

LEMMA UnlinkStep ==
    ASSUME AccountInv, NEW c \in Clients, ResendDelete(c)
    PROVE  AccountInv'
<1> DEFINE g == [flight[c] EXCEPT !.pc = "link", !.wrote = TRUE]
           i == flight[c].id
<1>1. flight[c] \in Flights /\ i \in Ids /\ flight \in [Clients -> Flights] /\ outages' \in 0..MaxOutages
  BY OutageType DEF ResendDelete, At, AccountInv, FlightInv, Knows
<1>2. Knows(g) /\ g.pc # "patch"
  BY <1>1 DEF Knows, Flights, RequestPcs
<1>3. (\E op, code : Refuse(c, op, code)) \/ flight' = [flight EXCEPT ![c] = g]
  BY <1>1 DEF ResendDelete
<1>4. Moved(c)
  BY <1>2, <1>3, Ends DEF Moved
<1>5. /\ \A j \in Ids : verifier'[j] \in {verifier[j], Nothing}
      /\ DOMAIN verifier' = Ids /\ verifier' = [j \in Ids |-> verifier'[j]]
  BY TablesAreFunctions DEF ResendDelete, DeleteVerifier
<1>6. DOMAIN reseter' = Ids /\ reseter' = [j \in Ids |-> reseter'[j]] /\ reseter' = reseter
  BY TablesAreFunctions DEF ResendDelete
<1>7. Edited(i) /\ UNCHANGED <<users, spent, sideVars, mailVars, sessions>>
  BY DEF ResendDelete, Edited, mailVars
<1>8. QED
  BY <1>1, <1>4, <1>5, <1>6, <1>7, EditStep

\* The row of a deleted account goes with all that references it.
LEMMA DeleteStep ==
    ASSUME AccountInv, NEW c \in Clients, DeleteWrite(c)
    PROVE  AccountInv'
<1> DEFINE i == flight[c].id
<1>1. i \in Ids /\ ~Locked(i) /\ outages' \in 0..MaxOutages
  BY OutageType DEF DeleteWrite, At, AccountInv, FlightInv, Knows
<1>2. Moved(c) /\ UNCHANGED <<mailVars, sessions>>
  BY Ends DEF DeleteWrite
<1>3. CASE UNCHANGED tables
  BY <1>1, <1>2, <1>3, QuietStep DEF AccountInv
<1>4. CASE DeleteById(i)
  <2>1. /\ users' = [users EXCEPT ![i] = Nothing]
        /\ verifier' = [verifier EXCEPT ![i] = Nothing] /\ reseter' = [reseter EXCEPT ![i] = Nothing]
        /\ profiles' = profiles \ {i} /\ quotas' = quotas \ {i}
        /\ spent' \subseteq spent \cup {i}
    BY <1>4 DEF DeleteById
  <2>2. TableTypes' /\ MailTypes'
    BY <1>1, <1>2, <2>1 DEF AccountInv, TableTypes, MailTypes, mailVars
  <2>3. Kept
    BY <1>1, <2>1 DEF Kept, AccountInv, TableTypes
  <2>4. AccountsAreWhole'
    <3>1. {j \in Ids : GetById(j)}' = {j \in Ids : GetById(j)} \ {i}
      BY <1>1, <2>1 DEF GetById, AccountInv, TableTypes
    <3>2. \A j \in Ids : (j = i \/ ~GetById(j)) => verifier'[j] = Nothing /\ reseter'[j] = Nothing
      BY <1>1, <2>1 DEF AccountInv, AccountsAreWhole, TableTypes
    <3>3. QED
      BY <2>1, <3>1, <3>2 DEF AccountInv, AccountsAreWhole
  <2>5. LinksOwn' /\ LinksStay
    <3>1. \A j \in Ids : verifier'[j] # Nothing => verifier'[j] = verifier[j]
      BY <1>1, <2>1 DEF AccountInv, TableTypes
    <3>2. QED
      BY <1>2, <3>1, LinksKept DEF mailVars
  <2>6. HeldStay(c)
    <3>1. ASSUME NEW d \in Clients, At(d, "patch") PROVE flight[d].id \in Ids \ {i}
      BY <1>1, <3>1 DEF AccountInv, FlightInv, Knows, Locked, At
    <3>2. QED
      BY <1>1, <2>1, <3>1 DEF HeldStay, AccountInv, TableTypes
  <2>7. QED
    BY <1>1, <1>2, <2>2, <2>3, <2>4, <2>5, <2>6, WriteStep DEF AccountInv
<1>5. QED
  BY <1>3, <1>4 DEF DeleteWrite

-----------------------------------------------------------------------------
(* Requests that draw a token, and its mail.                               *)

LEMMA PublishRecord ==
    ASSUME NEW i \in Ids, NEW t \in Tokens, NEW code \in Nat
    PROVE  LET f == [Idle EXCEPT !.pc = "publish", !.id = i, !.token = t, !.code = code, !.wrote = TRUE]
           IN  Knows(f) /\ f.pc # "patch"
BY DEF Knows, Idle, Flights, RequestPcs

LEMMA ResendStep ==
    ASSUME AccountInv, NEW c \in Clients, ResendCreate(c)
    PROVE  AccountInv'
<1> DEFINE i == flight[c].id
<1>1. i \in Ids /\ outages' \in 0..MaxOutages
  BY OutageType DEF ResendCreate, At, AccountInv, FlightInv, Knows
<1>2. ASSUME UNCHANGED <<verifier, mailVars>>, NEW op, NEW code, Refuse(c, op, code)
      PROVE  AccountInv'
  <2>1. Moved(c) /\ UNCHANGED <<tables, mailVars, sessions>>
    BY <1>2, Ends DEF ResendCreate, tables, linkVars
  <2>2. QED
    BY <1>1, <2>1, QuietStep DEF AccountInv
<1>3. ASSUME NEW t \in Tokens, GetById(i), GenerateToken(t, "verify", i), CreateVerifier(i, Hash(t)),
             Start(c, [Idle EXCEPT !.pc = "publish", !.id = i, !.token = t,
                           !.code = ResendCode("none"), !.wrote = TRUE])
      PROVE  AccountInv'
  <2>1. ResendCode("none") \in Nat
    BY DEF ResendCode
  <2>2. Moved(c)
    BY <1>1, <1>3, <2>1, PublishRecord, Starts
  <2>3. LinksOwn' /\ LinksStay /\ MailTypes' /\ verifier' \in [Ids -> Row \cup {Nothing}]
        /\ \A j \in Ids \ {i} : verifier'[j] = verifier[j]
    BY <1>1, <1>3, LinksDrawn
  <2>4. UNCHANGED <<users, spent, sideVars, reseter, sessions>>
    BY DEF ResendCreate
  <2>5. Kept /\ HeldStay(c)
    BY <2>4 DEF Kept, HeldStay
  <2>6. TableTypes'
    BY <2>3, <2>4 DEF AccountInv, TableTypes, sideVars
  <2>7. AccountsAreWhole'
    BY <1>3, <2>3, <2>4, WholeStays DEF AccountInv, GetById
  <2>8. QED
    BY <1>1, <2>2, <2>3, <2>4, <2>5, <2>6, <2>7, WriteStep DEF AccountInv
<1>4. QED
  BY <1>2, <1>3 DEF ResendCreate

LEMMA ForgotStep ==
    ASSUME AccountInv, NEW c \in Clients, ForgotUpsert(c)
    PROVE  AccountInv'
<1> DEFINE i == flight[c].id
<1>1. i \in Ids /\ outages' \in 0..MaxOutages
  BY OutageType DEF ForgotUpsert, At, AccountInv, FlightInv, Knows
<1>2. ASSUME UNCHANGED <<reseter, mailVars>>, NEW op, NEW code, Refuse(c, op, code)
      PROVE  AccountInv'
  <2>1. Moved(c) /\ UNCHANGED <<tables, mailVars, sessions>>
    BY <1>2, Ends DEF ForgotUpsert, tables, linkVars
  <2>2. QED
    BY <1>1, <2>1, QuietStep DEF AccountInv
<1>3. ASSUME NEW t \in Tokens, GetById(i), GenerateToken(t, "reset", i), CreateReseter(i, Hash(t)),
             Start(c, [Idle EXCEPT !.pc = "publish", !.id = i, !.token = t,
                           !.code = ForgotCode("none"), !.wrote = TRUE])
      PROVE  AccountInv'
  <2>1. ForgotCode("none") \in Nat
    BY DEF ForgotCode
  <2>2. Moved(c)
    BY <1>1, <1>3, <2>1, PublishRecord, Starts
  <2>3. UNCHANGED <<users, spent, sideVars, verifier, sessions>>
    BY DEF ForgotUpsert
  <2>4. LinksOwn' /\ LinksStay /\ MailTypes'
    BY <1>1, <1>3, <2>3, LinksDrawn
  <2> DEFINE row == [hash |-> Hash(t), live |-> IF reseter[i] = Nothing THEN TRUE ELSE reseter[i].live]
  <2>5. reseter' = [reseter EXCEPT ![i] = row] /\ row \in Row /\ reseter \in [Ids -> Row \cup {Nothing}]
    BY <1>1, <1>3, HashType DEF CreateReseter, AccountInv, TableTypes
  <2>6. reseter' \in [Ids -> Row \cup {Nothing}] /\ \A j \in Ids \ {i} : reseter'[j] = reseter[j]
    <3> HIDE DEF row
    <3> QED
      BY <2>5
  <2>7. Kept /\ HeldStay(c)
    BY <2>3 DEF Kept, HeldStay
  <2>8. TableTypes'
    BY <2>3, <2>6 DEF AccountInv, TableTypes, sideVars
  <2>9. AccountsAreWhole'
    BY <1>3, <2>3, <2>6, WholeStays DEF AccountInv, GetById
  <2>10. QED
    BY <1>1, <2>2, <2>3, <2>4, <2>7, <2>8, <2>9, WriteStep DEF AccountInv
<1>4. QED
  BY <1>2, <1>3 DEF ForgotUpsert

\* The one account that appears has an email that no other has.
LEMMA SignupStep ==
    ASSUME AccountInv, NEW c \in Clients, SignupTx(c)
    PROVE  AccountInv'
<1> DEFINE e == flight[c].email
           p == flight[c].password
           row == [email |-> e, password |-> p, verified |-> FALSE, version |-> 0]
<1>1. /\ e \in Emails /\ p \in Passwords /\ GetByEmail(e) = {}
      /\ outages' \in 0..MaxOutages /\ UNCHANGED sessions
  BY OutageType DEF SignupTx, With, At, AccountInv, FlightInv, Knows
<1>2. ASSUME UNCHANGED <<tables, mailVars>>, NEW op, NEW code, Refuse(c, op, code) PROVE AccountInv'
  BY <1>1, <1>2, Ends, QuietStep DEF AccountInv
<1>3. ASSUME NEW i \in FreeIds, NEW t \in NewTokens, SignupRows(c, i, t) PROVE AccountInv'
  <2>1. i \in Ids /\ ~GetById(i) /\ t \in Tokens
    BY DEF FreeIds, NewTokens, GetById
  <2>2. /\ users' = [users EXCEPT ![i] = row]
        /\ CreateVerifier(i, Hash(t)) /\ GenerateToken(t, "verify", i)
        /\ profiles' = profiles \cup {i} /\ quotas' = quotas \cup {i}
        /\ UNCHANGED <<spent, reseter>>
    BY <1>3 DEF SignupRows, Create, SetProfile, CreateQuota
  <2>3. row \in Account /\ row.email = e /\ ~row.verified /\ row # Nothing
    <3>1. row \in Account /\ row.email = e /\ ~row.verified
      BY <1>1 DEF Account
    <3>2. QED
      BY <3>1, AccountsAssumption
  <2> HIDE DEF row
  <2>4. Moved(c)
    <3>1. SignupCode("none") \in Nat
      BY DEF SignupCode
    <3>2. QED
      BY <1>3, <2>1, <3>1, PublishRecord, Starts DEF SignupRows
  <2>5. LinksOwn' /\ LinksStay /\ MailTypes' /\ verifier' \in [Ids -> Row \cup {Nothing}]
        /\ \A j \in Ids \ {i} : verifier'[j] = verifier[j]
    BY <2>1, <2>2, LinksDrawn
  <2>6. /\ users \in [Ids -> Account \cup {Nothing}]
        /\ users'[i] = row /\ \A j \in Ids \ {i} : users'[j] = users[j]
    BY <2>1, <2>2 DEF AccountInv, TableTypes
  <2>7. TableTypes'
    BY <2>1, <2>2, <2>3, <2>5, <2>6 DEF AccountInv, TableTypes
  <2>8. HeldStay(c)
    <3>1. ASSUME NEW d \in Clients, At(d, "patch") PROVE flight[d].id \in Ids \ {i}
      BY <2>1, <3>1 DEF AccountInv, FlightInv, Knows, PatchSeesItsVersion, At
    <3>2. QED
      BY <2>6, <3>1 DEF HeldStay
  <2>9. AccountsAreWhole'
    <3>1. {j \in Ids : GetById(j)}' = {j \in Ids : GetById(j)} \cup {i}
      BY <2>1, <2>3, <2>6 DEF GetById
    <3>2. \A j \in Ids \ {i} : ~GetById(j) => verifier'[j] = Nothing /\ reseter'[j] = Nothing
      BY <2>2, <2>5 DEF AccountInv, AccountsAreWhole
    <3>3. QED
      BY <2>2, <3>1, <3>2 DEF AccountInv, AccountsAreWhole
  <2>10. EmailsDiffer'
    <3>1. \A j \in Ids : GetById(j) => users[j].email # e
      BY <1>1 DEF GetByEmail, GetById
    <3>2. QED
      BY <2>3, <2>6, <3>1 DEF AccountInv, EmailsDiffer, GetById
  <2>11. VerifiedByOwnLink'
    BY <2>3, <2>5, <2>6 DEF AccountInv, VerifiedByOwnLink, GetById, LinksStay
  <2>12. FlightInv' /\ PatchSeesItsVersion' /\ OnePatch'
    BY <2>4, <2>5, <2>8, PatchesStay DEF AccountInv
  <2>13. QED
    BY <1>1, <2>5, <2>7, <2>9, <2>10, <2>11, <2>12 DEF AccountInv
<1>4. QED
  BY <1>2, <1>3 DEF SignupTx, With

LEMMA PublishStep ==
    ASSUME AccountInv, NEW c \in Clients, PublishEmail(c)
    PROVE  AccountInv'
<1> DEFINE t == flight[c].token
<1>1. t \in Tokens /\ Moved(c) /\ outages' \in 0..MaxOutages
  BY Ends, OutageType DEF PublishEmail, At, AccountInv, FlightInv, Knows
<1>2. UNCHANGED <<users, spent, sideVars, linkVars, issued, inbox, sessions>>
  BY DEF PublishEmail, tables
<1>3. PICK fate \in {"queued", "lost"} : mail' = [mail EXCEPT ![t] = fate]
  BY DEF PublishEmail
<1>4. MailTypes' /\ \A s \in Tokens : mail'[s] = "new" => mail[s] = "new"
  BY <1>1, <1>2, <1>3 DEF AccountInv, MailTypes, MailFates
<1>5. LinksOwn' /\ LinksStay
  BY <1>2, <1>4, LinksKept DEF linkVars
<1>6. TableTypes' /\ AccountsAreWhole' /\ Kept /\ HeldStay(c)
  BY <1>2 DEF AccountInv, TableTypes, AccountsAreWhole, GetById, Kept, HeldStay, sideVars, linkVars
<1>7. QED
  BY <1>1, <1>2, <1>4, <1>5, <1>6, WriteStep DEF AccountInv

\* The profile's row is locked for one edit at a time, and has the version it compared.
LEMMA SelectStep ==
    ASSUME AccountInv, NEW c \in Clients, UpdateProfile(c)
    PROVE  AccountInv'
<1> DEFINE i == flight[c].id
           g == [flight[c] EXCEPT !.pc = "patch"]
<1>1. /\ flight \in [Clients -> Flights] /\ flight[c] \in Flights /\ i \in Ids /\ At(c, "edit") /\ ~Locked(i)
      /\ UNCHANGED <<tables, mailVars, sessions>> /\ outages' \in 0..MaxOutages
  BY OutageType DEF UpdateProfile, At, AccountInv, FlightInv, Knows
<1>2. ASSUME NEW op, NEW code, Refuse(c, op, code) PROVE AccountInv'
  BY <1>1, <1>2, Ends, QuietStep DEF AccountInv
<1>3. ASSUME GetById(i), users[i].version = flight[c].version, flight' = [flight EXCEPT ![c] = g]
      PROVE  AccountInv'
  <2>1. LinksStay /\ Knows(g)
    BY <1>1 DEF LinksStay, mailVars, Knows, Flights, RequestPcs
  <2>2. FlightInv' /\ flight'[c] = g /\ \A d \in Clients \ {c} : flight'[d] = flight[d]
    BY <1>3, <2>1, KnowsStays, Moves DEF AccountInv
  <2>3. g.pc = "patch" /\ g.id = i /\ g.version = flight[c].version
    BY <1>1 DEF Flights
  <2>4. \A d \in Clients \ {c} : At(d, "patch")' => At(d, "patch") /\ flight[d].id # i
    BY <1>1, <2>2 DEF At, Locked
  <2>5. OnePatch'
    <3>1. OnePatch /\ ~At(c, "patch")
      BY <1>1 DEF AccountInv, At
    <3>2. ASSUME NEW a \in Clients, NEW b \in Clients, At(a, "patch")', At(b, "patch")',
                 flight'[a].id = flight'[b].id
          PROVE  a = b
      <4>1. CASE a = c \/ b = c
        <5>1. \A d \in Clients \ {c} : At(d, "patch")' => flight'[d].id # i
          BY <2>2, <2>4
        <5>2. flight'[c].id = i
          BY <2>2, <2>3
        <5>3. QED
          BY <3>2, <4>1, <5>1, <5>2
      <4>2. CASE a # c /\ b # c
        BY <2>2, <2>4, <3>1, <3>2, <4>2 DEF OnePatch
      <4>3. QED
        BY <4>1, <4>2
    <3>3. QED
      BY <3>2 DEF OnePatch
  <2>6. PatchSeesItsVersion'
    BY <1>1, <1>3, <2>2, <2>3, <2>4 DEF AccountInv, PatchSeesItsVersion, GetById, tables, At
  <2>7. TableTypes' /\ MailTypes' /\ AccountsAreWhole' /\ LinksOwn'
    BY <1>1 DEF AccountInv, TableTypes, MailTypes, AccountsAreWhole, LinksOwn, GetById, tables, mailVars,
                sideVars, linkVars
  <2>8. EmailsDiffer' /\ VerifiedByOwnLink'
    BY <1>1 DEF AccountInv, EmailsDiffer, VerifiedByOwnLink, GetById, tables, mailVars
  <2>9. QED
    BY <1>1, <2>2, <2>5, <2>6, <2>7, <2>8 DEF AccountInv
<1>4. (\E op, code : Refuse(c, op, code))
      \/ (GetById(i) /\ users[i].version = flight[c].version /\ flight' = [flight EXCEPT ![c] = g])
  BY <1>1 DEF UpdateProfile, Goto
<1>5. QED
  BY <1>2, <1>3, <1>4

-----------------------------------------------------------------------------
(* The email worker, and what befalls the system.                          *)

\* Whatever happens to mails and links while every account stays as it is.
LEMMA WorldStep ==
    ASSUME AccountInv, LinksStay, UNCHANGED <<users, spent, sideVars, sessions>>,
           UNCHANGED flight \/ flight' = [c \in Clients |-> Idle],
           verifier' \in [Ids -> Row \cup {Nothing}], reseter' \in [Ids -> Row \cup {Nothing}],
           \A i \in Ids : verifier'[i] # Nothing => verifier[i] # Nothing,
           \A i \in Ids : reseter'[i] # Nothing => reseter[i] # Nothing,
           MailTypes', LinksOwn', outages' \in 0..MaxOutages
    PROVE  AccountInv'
<1>1. TableTypes'
  BY DEF AccountInv, TableTypes, sideVars
<1>2. AccountsAreWhole'
  BY WholeStays DEF AccountInv, GetById
<1>3. EmailsDiffer' /\ VerifiedByOwnLink'
  BY KeptUsers DEF AccountInv, Kept
<1>4. \A c \in Clients : flight'[c] \in {flight[c], Idle}
  OBVIOUS
<1>5. FlightInv'
  <2>1. \A c \in Clients : Knows(flight[c])' /\ flight'[c] \in Flights
    BY <1>4, IdleKnows, KnowsStays DEF AccountInv, FlightInv, Knows
  <2>2. QED
    BY <2>1 DEF AccountInv, FlightInv
<1>6. \A c \in Clients : At(c, "patch")' => At(c, "patch") /\ flight'[c] = flight[c]
  BY <1>4, IdleKnows DEF At
<1>7. PatchSeesItsVersion' /\ OnePatch'
  BY <1>6 DEF AccountInv, PatchSeesItsVersion, OnePatch, GetById
<1>8. QED
  BY <1>1, <1>2, <1>3, <1>5, <1>7 DEF AccountInv

LEMMA MailStep ==
    ASSUME AccountInv,
           \/ \E t \in Tokens : Send(t) \/ Ack(t)
           \/ WorkerCrash \/ ApiCrash
    PROVE  AccountInv'
<1>1. /\ UNCHANGED <<users, spent, sideVars, linkVars, sessions, issued>>
      /\ UNCHANGED flight \/ flight' = [c \in Clients |-> Idle]
      /\ outages' \in 0..MaxOutages
  BY OutageType DEF Send, Ack, WorkerCrash, ApiCrash, tables, AccountInv
<1>2. /\ mail' \in [Tokens -> MailFates] /\ \A t \in Tokens : mail'[t] = "new" => mail[t] = "new"
      /\ inbox \subseteq inbox' /\ inbox' \subseteq Tokens /\ \A t \in inbox' \ inbox : mail[t] # "new"
  <2>1. ASSUME NEW t \in Tokens, Send(t) \/ Ack(t)
        PROVE  /\ mail' \in [Tokens -> MailFates] /\ \A s \in Tokens : mail'[s] = "new" => mail[s] = "new"
               /\ inbox \subseteq inbox' /\ inbox' \subseteq Tokens /\ \A s \in inbox' \ inbox : mail[s] # "new"
    BY <2>1 DEF Send, Ack, AccountInv, MailTypes, MailFates
  <2>2. CASE WorkerCrash \/ ApiCrash
    BY <2>2 DEF WorkerCrash, ApiCrash, AccountInv, MailTypes, MailFates
  <2>3. QED
    BY <2>1, <2>2
<1>3. MailTypes'
  BY <1>1, <1>2 DEF AccountInv, MailTypes
<1>4. LinksOwn' /\ LinksStay
  BY <1>1, <1>2, LinksKept DEF linkVars
<1>5. QED
  BY <1>1, <1>3, <1>4, WorldStep DEF AccountInv, TableTypes, linkVars

LEMMA ExpireStep ==
    ASSUME AccountInv, NEW i \in Ids, Expire(i)
    PROVE  AccountInv'
<1>1. /\ UNCHANGED <<users, spent, sideVars, mailVars, sessions, flight>> /\ outages' \in 0..MaxOutages
  BY OutageType DEF Expire, AccountInv
<1>2. verifier \in [Ids -> Row \cup {Nothing}] /\ reseter \in [Ids -> Row \cup {Nothing}] /\ Nothing \notin Row
  BY AccountsAssumption DEF AccountInv, TableTypes
<1> DEFINE ended(table) == [table[i] EXCEPT !.live = FALSE]
<1>3. verifier[i] # Nothing => ended(verifier) \in Row /\ ended(verifier).hash = verifier[i].hash
  BY <1>2, HashType
<1>4. reseter[i] # Nothing => ended(reseter) \in Row
  BY <1>2, HashType
<1>5. \/ verifier[i] # Nothing /\ verifier' = [verifier EXCEPT ![i] = ended(verifier)] /\ reseter' = reseter
      \/ reseter[i] # Nothing /\ reseter' = [reseter EXCEPT ![i] = ended(reseter)] /\ verifier' = verifier
  BY <1>2 DEF Expire
<1> HIDE DEF ended
<1>6. /\ verifier' \in [Ids -> Row \cup {Nothing}] /\ reseter' \in [Ids -> Row \cup {Nothing}]
      /\ \A j \in Ids : reseter'[j] # Nothing => reseter[j] # Nothing
      /\ \A j \in Ids : verifier'[j] # Nothing => verifier[j] # Nothing /\ verifier'[j].hash = verifier[j].hash
  BY <1>2, <1>3, <1>4, <1>5
<1>7. LinksOwn' /\ LinksStay /\ MailTypes'
  BY <1>1, <1>6, LinksKept DEF mailVars, AccountInv, MailTypes
<1>8. QED
  BY <1>1, <1>6, <1>7, WorldStep

-----------------------------------------------------------------------------
LEMMA AccountInit == Init => AccountInv
<1> SUFFICES ASSUME Init PROVE AccountInv
  OBVIOUS
<1>1. TableTypes /\ MailTypes /\ sessions \subseteq Ids
  BY DEF Init, TableTypes, MailTypes, MailFates
<1>2. FlightInv
  BY IdleKnows DEF Init, FlightInv
<1>3. AccountsAreWhole /\ EmailsDiffer /\ VerifiedByOwnLink /\ LinksOwn
  BY DEF Init, AccountsAreWhole, EmailsDiffer, VerifiedByOwnLink, LinksOwn, GetById
<1>4. PatchSeesItsVersion /\ OnePatch
  BY IdleKnows DEF Init, PatchSeesItsVersion, OnePatch, At
<1>5. outages \in 0..MaxOutages
  BY AccountsAssumption DEF Init
<1>6. QED
  BY <1>1, <1>2, <1>3, <1>4, <1>5 DEF AccountInv

LEMMA AccountStep == ASSUME AccountInv, [Next]_vars PROVE AccountInv'
<1>1. ASSUME NEW c \in Clients, Server(c) PROVE AccountInv'
  <2>1. CASE SignupTaken(c)
    <3>1. Moved(c) /\ UNCHANGED <<tables, mailVars, sessions, outages>>
      BY <2>1, Ends DEF SignupTaken
    <3>2. QED
      BY <3>1, QuietStep DEF AccountInv
  <2>2. CASE ResendFind(c)
    BY <2>2, FindQuiet
  <2>3. QED
    BY <1>1, <2>1, <2>2, SignupStep, PublishStep, VerifyStep, UnlinkStep, ResendStep, ForgotStep,
       ChangeStep, DeleteStep DEF Server
<1>2. ASSUME NEW c \in Clients, Client(c) PROVE AccountInv'
  BY <1>2, SignupQuiet, LoginQuiet, VerifyQuiet, ResetStep, LinkQuiet DEF Client
<1>3. ASSUME NEW c \in Clients, Bearer(c) PROVE AccountInv'
  BY <1>3, ChangeQuiet, DeleteQuiet, ProfileQuiet, SelectStep DEF Bearer
<1>4. CASE UNCHANGED vars
  <2>1. /\ UNCHANGED <<users, spent, sideVars, sessions, flight, outages, mailVars, linkVars>>
    BY <1>4 DEF vars, tables
  <2>2. MailTypes' /\ LinksOwn' /\ LinksStay
    BY <2>1 DEF AccountInv, MailTypes, LinksOwn, LinksStay, mailVars, linkVars
  <2>3. QED
    BY <2>1, <2>2, WorldStep DEF AccountInv, TableTypes, linkVars
<1>5. QED
  BY <1>1, <1>2, <1>3, <1>4, MailStep, ExpireStep DEF Next

LEMMA AccountInvAlways == Spec => []AccountInv
BY AccountInit, AccountStep, PTL DEF Spec

\* In every state an account has all its rows and an email of its own, no row of a
\* deleted account is left, and an edit writes over the version its ETag names: for any
\* number of clients, accounts and failures.
THEOREM TablesAgreeAlways == Spec => []TablesAgree
<1>1. AccountInv => TablesAgree
  <2> SUFFICES ASSUME AccountInv PROVE TablesAgree
    OBVIOUS
  <2>1. TypeOK
    BY DEF AccountInv, TableTypes, MailTypes, FlightInv, Flights, TypeOK
  <2>2. OneAccountPerEmail
    <3> SUFFICES ASSUME NEW e \in Emails PROVE Cardinality(GetByEmail(e)) <= 1
      BY DEF OneAccountPerEmail
    <3>1. CASE GetByEmail(e) = {}
      BY <3>1, FS_EmptySet
    <3>2. CASE GetByEmail(e) # {}
      <4>1. PICK i : GetByEmail(e) = {i}
        BY <3>2 DEF GetByEmail, AccountInv, EmailsDiffer, GetById
      <4>2. QED
        BY <4>1, FS_Singleton
    <3>3. QED
      BY <3>1, <3>2
  <2>3. QED
    BY <2>1, <2>2 DEF AccountInv, TablesAgree
<1>2. QED
  BY <1>1, AccountInvAlways, PTL

\* An account that is verified got a link drawn for it in its mailbox: no link of an
\* earlier account of that email, and none to reset a password, verifies it.
THEOREM VerifiedByOwnLinkAlways == Spec => []VerifiedByOwnLink
<1>1. AccountInv => VerifiedByOwnLink
  BY DEF AccountInv
<1>2. QED
  BY <1>1, AccountInvAlways, PTL

-----------------------------------------------------------------------------
(***************************************************************************)
(* Every link in a table was drawn for its account, and its mail was handed *)
(* on, given up, or is on some request's way: for any number of clients,   *)
(* resends and failures.                                                   *)
(***************************************************************************)

\* A token that is drawn is held by a request about to publish it.
DrawnIsHeld ==
    \A t \in Tokens : mail[t] = "drawn" => \E c \in Clients : At(c, "publish") /\ flight[c].token = t

ResetsOwn ==
    \A i \in Ids, t \in Tokens :
        reseter[i] # Nothing /\ reseter[i].hash = Hash(t) => issued[t] = <<"reset", i>> /\ mail[t] # "new"

LinkInv == DrawnIsHeld /\ ResetsOwn

Others(c)  == \A d \in Clients \ {c} : flight'[d] = flight[d]
ResetsStay == \A i \in Ids : reseter'[i] # Nothing => reseter[i] # Nothing /\ reseter'[i].hash = reseter[i].hash

-----------------------------------------------------------------------------
\* A request that publishes nothing and draws nothing.
LEMMA Unrelated ==
    ASSUME LinkInv, NEW c \in Clients, ~At(c, "publish"), Others(c), ResetsStay, UNCHANGED mailVars
    PROVE  LinkInv'
<1>1. DrawnIsHeld'
  BY DEF LinkInv, DrawnIsHeld, Others, At, mailVars
<1>2. ResetsOwn'
  BY DEF LinkInv, ResetsOwn, ResetsStay, mailVars
<1>3. QED
  BY <1>1, <1>2 DEF LinkInv

\* Requests and answers are one client's.
LEMMA OthersStay ==
    ASSUME AccountInv, NEW c \in Clients,
           \/ \E f : flight' = [flight EXCEPT ![c] = f]
           \/ \E f : Start(c, f)
           \/ \E op, code : Refuse(c, op, code)
           \/ \E op, code, wrote, h : Answer(c, op, code, wrote, h)
    PROVE  Others(c)
<1>1. PICK f : flight' = [flight EXCEPT ![c] = f]
  BY DEF Start, Refuse, Answer
<1>2. QED
  BY <1>1 DEF Others, AccountInv, FlightInv

LEMMA SignedUnrelated ==
    ASSUME AccountInv, LinkInv, NEW c \in Clients, NEW e \in Emails, NEW p \in Passwords,
           Signup(c, e, p) \/ Login(c, e, p)
    PROVE  LinkInv'
<1>1. At(c, "idle") /\ UNCHANGED <<tables, mailVars>>
  BY DEF Signup, Login
<1>2. Others(c)
  BY OthersStay DEF Signup, Login
<1>3. QED
  BY <1>1, <1>2, Unrelated DEF At, ResetsStay, tables, linkVars

LEMMA LinkUnrelated ==
    ASSUME AccountInv, LinkInv, NEW c \in Clients, NEW e \in Emails,
           ResendVerify(c, e) \/ ForgotPassword(c, e)
    PROVE  LinkInv'
<1>1. At(c, "idle") /\ UNCHANGED <<tables, mailVars>>
  BY DEF ResendVerify, ForgotPassword
<1>2. Others(c)
  BY OthersStay DEF ResendVerify, ForgotPassword
<1>3. QED
  BY <1>1, <1>2, Unrelated DEF At, ResetsStay, tables, linkVars

LEMMA ClickedUnrelated ==
    ASSUME AccountInv, LinkInv, NEW c \in Clients, NEW t \in Tokens,
           Verify(c, t) \/ ResetPasswordGet(c, t)
    PROVE  LinkInv'
<1>1. At(c, "idle") /\ UNCHANGED <<tables, mailVars>>
  BY DEF Verify, ResetPasswordGet
<1>2. Others(c)
  BY OthersStay DEF Verify, ResetPasswordGet
<1>3. QED
  BY <1>1, <1>2, Unrelated DEF At, ResetsStay, tables, linkVars

LEMMA ResetUnrelated ==
    ASSUME AccountInv, LinkInv, NEW c \in Clients, NEW p \in Passwords, NEW t \in Tokens,
           ResetPasswordPost(c, t, p)
    PROVE  LinkInv'
<1>1. At(c, "idle") /\ UNCHANGED mailVars
  BY DEF ResetPasswordPost
<1>2. Others(c)
  BY OthersStay DEF ResetPasswordPost, With
<1>3. ResetsStay
  BY DEF ResetPasswordPost, With, ResetsStay, DeleteReseter, tables, linkVars, AccountInv, TableTypes
<1>4. QED
  BY <1>1, <1>2, <1>3, Unrelated DEF At

LEMMA BearerUnrelated ==
    ASSUME AccountInv, LinkInv, NEW c \in Clients, Bearer(c)
    PROVE  LinkInv'
<1>1. ~At(c, "publish") /\ UNCHANGED <<tables, mailVars>>
  BY DEF Bearer, ChangePassword, DeleteUser, GetProfile, UpdateProfile, At
<1>2. Others(c)
  BY OthersStay DEF Bearer, ChangePassword, DeleteUser, GetProfile, UpdateProfile, Goto
<1>3. QED
  BY <1>1, <1>2, Unrelated DEF ResetsStay, tables, linkVars

LEMMA WriteUnrelated ==
    ASSUME AccountInv, LinkInv, NEW c \in Clients,
           \/ SignupTaken(c) \/ VerifyTx(c) \/ ResendFind(c) \/ ResendDelete(c)
           \/ ChangeWrite(c) \/ DeleteWrite(c) \/ UpdateProfileTx(c)
    PROVE  LinkInv'
<1>1. ~At(c, "publish") /\ UNCHANGED mailVars
  BY DEF SignupTaken, VerifyTx, ResendFind, ResendDelete, ChangeWrite, DeleteWrite, UpdateProfileTx, At
<1>2. Others(c)
  BY OthersStay DEF SignupTaken, VerifyTx, With, ResendFind, Goto, ResendDelete, ChangeWrite, DeleteWrite,
                    UpdateProfileTx
<1>3. ResetsStay
  BY DEF SignupTaken, VerifyTx, With, ResendFind, ResendDelete, ChangeWrite, DeleteWrite, UpdateProfileTx,
         DeleteById, ResetsStay, tables, linkVars, AccountInv, TableTypes
<1>4. QED
  BY <1>1, <1>2, <1>3, Unrelated

-----------------------------------------------------------------------------
\* Whoever draws a token goes on to publish it.
LEMMA DrawHolds ==
    ASSUME AccountInv, LinkInv, NEW c \in Clients, ~At(c, "publish"),
           NEW t \in Tokens, NEW i \in Ids, NEW kind \in {"verify", "reset"}, GenerateToken(t, kind, i),
           NEW code, Start(c, [Idle EXCEPT !.pc = "publish", !.id = i, !.token = t, !.code = code,
                                           !.wrote = TRUE]),
           UNCHANGED reseter \/ (kind = "reset" /\ CreateReseter(i, Hash(t)))
    PROVE  LinkInv'
<1>1. t \in NewTokens /\ mail[t] = "new"
  BY DEF GenerateToken, NewToken, NewTokens
<1>2. /\ issued' = [issued EXCEPT ![t] = <<kind, i>>] /\ mail' = [mail EXCEPT ![t] = "drawn"]
      /\ mail \in [Tokens -> MailFates] /\ DOMAIN issued = Tokens
  BY DEF GenerateToken, AccountInv, MailTypes
<1>3. Others(c) /\ At(c, "publish")' /\ flight'[c].token = t
  BY OthersStay DEF Start, At, Idle, AccountInv, FlightInv
<1>4. DrawnIsHeld'
  BY <1>2, <1>3 DEF LinkInv, DrawnIsHeld, Others, At
<1>5. \A j \in Ids : reseter[j] # Nothing => reseter[j].hash # Hash(t)
  BY <1>1 DEF LinkInv, ResetsOwn
<1> DEFINE row == [hash |-> Hash(t), live |-> IF reseter[i] = Nothing THEN TRUE ELSE reseter[i].live]
<1>6. row.hash = Hash(t) /\ (UNCHANGED reseter \/ (kind = "reset" /\ reseter' = [reseter EXCEPT ![i] = row]))
  BY DEF CreateReseter
<1> HIDE DEF row
<1>7. ASSUME NEW j \in Ids, NEW s \in Tokens, reseter'[j] # Nothing, reseter'[j].hash = Hash(s)
      PROVE  issued'[s] = <<"reset", j>> /\ mail'[s] # "new"
  <2>1. CASE reseter'[j] = reseter[j]
    <3>1. s # t /\ issued[s] = <<"reset", j>> /\ mail[s] # "new"
      BY <1>5, <1>7, <2>1 DEF LinkInv, ResetsOwn
    <3>2. QED
      BY <1>2, <3>1
  <2>2. CASE kind = "reset" /\ j = i /\ reseter'[j] = row
    <3>1. s = t
      BY <1>6, <1>7, <2>2, HashType
    <3>2. QED
      BY <1>2, <2>2, <3>1
  <2>3. QED
    BY <1>6, <2>1, <2>2 DEF AccountInv, TableTypes
<1>8. QED
  BY <1>4, <1>7 DEF LinkInv, ResetsOwn

LEMMA DrawStep ==
    ASSUME AccountInv, LinkInv, NEW c \in Clients, SignupTx(c) \/ ResendCreate(c) \/ ForgotUpsert(c)
    PROVE  LinkInv'
<1>1. ~At(c, "publish")
  BY DEF SignupTx, ResendCreate, ForgotUpsert, At
<1>2. ASSUME UNCHANGED <<reseter, mailVars>>, NEW op, NEW code, Refuse(c, op, code) PROVE LinkInv'
  BY <1>1, <1>2, OthersStay, Unrelated DEF ResetsStay
<1>3. CASE SignupTx(c)
  <2>1. ASSUME NEW i \in FreeIds, NEW t \in NewTokens, SignupRows(c, i, t) PROVE LinkInv'
    <3>1. i \in Ids /\ t \in Tokens /\ UNCHANGED reseter
      BY <2>1 DEF FreeIds, NewTokens, SignupRows
    <3>2. QED
      BY <1>1, <2>1, <3>1, DrawHolds DEF SignupRows
  <2>2. QED
    BY <1>2, <1>3, <2>1 DEF SignupTx, With, tables, linkVars
<1>4. CASE ResendCreate(c)
  <2>1. flight[c].id \in Ids
    BY <1>4 DEF ResendCreate, At, AccountInv, FlightInv, Knows
  <2>2. QED
    BY <1>1, <1>2, <1>4, <2>1, DrawHolds DEF ResendCreate
<1>5. CASE ForgotUpsert(c)
  <2>1. flight[c].id \in Ids
    BY <1>5 DEF ForgotUpsert, At, AccountInv, FlightInv, Knows
  <2>2. QED
    BY <1>1, <1>2, <1>5, <2>1, DrawHolds DEF ForgotUpsert
<1>6. QED
  BY <1>3, <1>4, <1>5

LEMMA PublishMoves ==
    ASSUME AccountInv, LinkInv, NEW c \in Clients, PublishEmail(c)
    PROVE  LinkInv'
<1>1. PICK fate \in {"queued", "lost"} : mail' = [mail EXCEPT ![flight[c].token] = fate]
  BY DEF PublishEmail
<1>2. Others(c) /\ UNCHANGED <<issued, reseter>>
  BY OthersStay DEF PublishEmail, tables, linkVars
<1>3. mail \in [Tokens -> MailFates]
  BY DEF AccountInv, MailTypes
<1>4. ASSUME NEW t \in Tokens, mail'[t] = "drawn"
      PROVE  \E d \in Clients : At(d, "publish")' /\ flight'[d].token = t
  <2>1. mail[t] = "drawn" /\ t # flight[c].token
    BY <1>1, <1>3, <1>4
  <2>2. PICK d \in Clients : At(d, "publish") /\ flight[d].token = t
    BY <2>1 DEF LinkInv, DrawnIsHeld
  <2>3. QED
    BY <1>2, <2>1, <2>2 DEF Others, At
<1>5. \A t \in Tokens : mail'[t] = "new" => mail[t] = "new"
  BY <1>1, <1>3
<1>6. QED
  BY <1>2, <1>4, <1>5 DEF LinkInv, DrawnIsHeld, ResetsOwn

\* The worker sends what was published; the API's death gives up what was drawn.
LEMMA EnvironmentMoves ==
    ASSUME AccountInv, LinkInv,
           \/ \E t \in Tokens : Send(t) \/ Ack(t)
           \/ WorkerCrash \/ ApiCrash \/ \E i \in Ids : Expire(i)
    PROVE  LinkInv'
<1>1. mail \in [Tokens -> MailFates] /\ reseter \in [Ids -> Row \cup {Nothing}] /\ Nothing \notin Row
  BY AccountsAssumption DEF AccountInv, MailTypes, TableTypes
<1>2. UNCHANGED issued
  BY DEF Send, Ack, WorkerCrash, ApiCrash, Expire, mailVars
<1>3. \A t \in Tokens : mail'[t] = "new" => mail[t] = "new"
  BY <1>1 DEF Send, Ack, WorkerCrash, ApiCrash, Expire, mailVars
<1>4. ResetsStay
  <2>1. CASE UNCHANGED reseter
    BY <2>1 DEF ResetsStay
  <2>2. ASSUME NEW i \in Ids, reseter[i] # Nothing, reseter' = [reseter EXCEPT ![i].live = FALSE]
        PROVE  ResetsStay
    <3> DEFINE row == [reseter[i] EXCEPT !.live = FALSE]
    <3>1. row \in Row /\ row.hash = reseter[i].hash /\ reseter' = [reseter EXCEPT ![i] = row]
      BY <1>1, <2>2, HashType
    <3> HIDE DEF row
    <3>2. QED
      BY <1>1, <2>2, <3>1 DEF ResetsStay
  <2>3. QED
    BY <2>1, <2>2 DEF Send, Ack, WorkerCrash, ApiCrash, Expire, tables, linkVars
<1>5. DrawnIsHeld'
  <2>1. CASE UNCHANGED flight
    <3>1. \A t \in Tokens : mail'[t] = "drawn" => mail[t] = "drawn"
      BY <1>1 DEF Send, Ack, WorkerCrash, ApiCrash, Expire, mailVars
    <3>2. QED
      BY <2>1, <3>1 DEF LinkInv, DrawnIsHeld, At
  <2>2. CASE ApiCrash
    <3>1. \A t \in Tokens : mail'[t] # "drawn"
      BY <2>2 DEF ApiCrash
    <3>2. QED
      BY <3>1 DEF DrawnIsHeld
  <2>3. QED
    BY <2>1, <2>2 DEF Send, Ack, WorkerCrash, Expire
<1>6. QED
  BY <1>2, <1>3, <1>4, <1>5 DEF LinkInv, ResetsOwn, ResetsStay

-----------------------------------------------------------------------------
LEMMA LinkInit == Init => LinkInv
BY DEF Init, LinkInv, DrawnIsHeld, ResetsOwn

LEMMA LinkStep == ASSUME AccountInv, LinkInv, [Next]_vars PROVE LinkInv'
<1>1. ASSUME NEW c \in Clients, Server(c) PROVE LinkInv'
  BY <1>1, WriteUnrelated, DrawStep, PublishMoves DEF Server
<1>2. ASSUME NEW c \in Clients, Client(c) PROVE LinkInv'
  <2>1. CASE \E e \in Emails, p \in Passwords : Signup(c, e, p) \/ Login(c, e, p)
    BY <2>1, SignedUnrelated
  <2>2. CASE \E t \in Tokens : Verify(c, t) \/ ResetPasswordGet(c, t)
    BY <2>2, ClickedUnrelated
  <2>3. QED
    BY <1>2, <2>1, <2>2, ResetUnrelated, LinkUnrelated DEF Client
<1>3. CASE UNCHANGED vars
  BY <1>3 DEF vars, tables, linkVars, mailVars, LinkInv, DrawnIsHeld, ResetsOwn, At
<1>4. QED
  BY <1>1, <1>2, <1>3, BearerUnrelated, EnvironmentMoves DEF Next

\* Whatever resends, failed publishes and crashes come together: a link in a table was
\* drawn for its account, and is on a request's way to the queue as long as its mail
\* is neither queued nor known to be lost.
THEOREM StoredLinkIsMailedAlways == Spec => []StoredLinkIsMailed
<1>1. AccountInv /\ LinkInv => StoredLinkIsMailed
  BY DEF AccountInv, LinksOwn, LinkInv, DrawnIsHeld, ResetsOwn, StoredLinkIsMailed, RowsWith
<1>2. Spec => []LinkInv
  BY LinkInit, LinkStep, AccountInvAlways, PTL DEF Spec
<1>3. QED
  BY <1>1, <1>2, AccountInvAlways, PTL

(***************************************************************************)
(* What the API claims is so.                                              *)
(***************************************************************************)

\* Only the second write of a request finds one of its own before it, and a request that
\* publishes has its success to announce.
Honest(f)  == (f.wrote => f.pc \in {"publish", "link"}) /\ (f.pc = "publish" => f.code \in {201, 202})
HonestInv  == \A c \in Clients : Honest(flight[c])
Silent(c)  == \E f : Honest(f) /\ flight' = [flight EXCEPT ![c] = f] /\ answer' = Nothing
Truthful   == HonestInv' /\ AnswersAreTrue'

LEMMA IdleHonest == Honest(Idle)
BY DEF Honest, Idle

LEMMA HonestMoves ==
    ASSUME AccountInv, HonestInv, NEW c \in Clients, NEW f, Honest(f), flight' = [flight EXCEPT ![c] = f]
    PROVE  HonestInv'
BY DEF AccountInv, FlightInv, HonestInv, Honest

LEMMA SilentTrue ==
    ASSUME AccountInv, HonestInv, NEW c \in Clients, Silent(c)
    PROVE  Truthful
<1>1. PICK f : Honest(f) /\ flight' = [flight EXCEPT ![c] = f] /\ answer' = Nothing
  BY DEF Silent
<1>2. QED
  BY <1>1, HonestMoves DEF Truthful, AnswersAreTrue

LEMMA StartSilent ==
    ASSUME NEW c \in Clients, NEW f, Honest(f), Start(c, f)
    PROVE  Silent(c)
BY DEF Start, Silent

\* A refusal by a request that wrote nothing.
LEMMA RefuseSilent ==
    ASSUME HonestInv, NEW c \in Clients, flight[c].pc \notin {"publish", "link"},
           NEW op, NEW code, Refuse(c, op, code)
    PROVE  Silent(c)
BY IdleHonest DEF HonestInv, Honest, Refuse, Silent

\* An answer that makes none of the claims but its code.
LEMMA AnswerTrue ==
    ASSUME AccountInv, HonestInv, NEW c \in Clients, NEW op, NEW code, NEW wrote, NEW h,
           Answer(c, op, code, wrote, h), op \notin {"mailed", "verify", "delete"},
           code \in 400..499 => ~wrote
    PROVE  Truthful
<1>1. answer' = [op |-> op, code |-> code, id |-> flight[c].id, wrote |-> wrote, hash |-> h]
      /\ flight' = [flight EXCEPT ![c] = Idle]
  BY DEF Answer
<1>2. HonestInv'
  BY <1>1, IdleHonest, HonestMoves
<1>3. answer'.op = op /\ answer'.code = code /\ answer'.wrote = wrote
  BY <1>1
<1>4. AnswersAreTrue'
  BY <1>3 DEF AnswersAreTrue
<1>5. QED
  BY <1>2, <1>4 DEF Truthful

-----------------------------------------------------------------------------
\* The first statement of a request has nothing to claim.
LEMMA SignTrue ==
    ASSUME AccountInv, HonestInv, NEW c \in Clients, NEW e \in Emails, NEW p \in Passwords,
           Signup(c, e, p) \/ Login(c, e, p)
    PROVE  Truthful
<1>1. flight[c].pc = "idle"
  BY DEF Signup, Login, At
<1>2. \/ \E op, code : Refuse(c, op, code)
      \/ Start(c, [Idle EXCEPT !.pc = "signup", !.email = e, !.password = p])
  BY DEF Signup, Login
<1>3. Honest([Idle EXCEPT !.pc = "signup", !.email = e, !.password = p])
  BY DEF Honest, Idle
<1>4. Silent(c)
  BY <1>1, <1>2, <1>3, RefuseSilent, StartSilent
<1>5. QED
  BY <1>4, SilentTrue

LEMMA ClickTrue ==
    ASSUME AccountInv, HonestInv, NEW c \in Clients, NEW t \in Tokens, Verify(c, t)
    PROVE  Truthful
<1>1. flight[c].pc = "idle"
  BY DEF Verify, At
<1>2. \/ \E op, code : Refuse(c, op, code)
      \/ \E i : Start(c, [Idle EXCEPT !.pc = "verify", !.id = i, !.hash = Hash(t)])
  BY DEF Verify
<1>3. ASSUME NEW i, Start(c, [Idle EXCEPT !.pc = "verify", !.id = i, !.hash = Hash(t)])
      PROVE  Silent(c)
  <2>1. Honest([Idle EXCEPT !.pc = "verify", !.id = i, !.hash = Hash(t)])
    BY DEF Honest, Idle
  <2>2. QED
    BY <1>3, <2>1, StartSilent
<1>4. Silent(c)
  BY <1>1, <1>2, <1>3, RefuseSilent
<1>5. QED
  BY <1>4, SilentTrue

LEMMA AskTrue ==
    ASSUME AccountInv, HonestInv, NEW c \in Clients, NEW e \in Emails,
           ResendVerify(c, e) \/ ForgotPassword(c, e)
    PROVE  Truthful
<1>1. flight[c].pc = "idle"
  BY DEF ResendVerify, ForgotPassword, At
<1>2. \/ \E op, code : Refuse(c, op, code)
      \/ \E i : Start(c, [Idle EXCEPT !.pc = "find", !.id = i])
      \/ \E i : Start(c, [Idle EXCEPT !.pc = "forgot", !.id = i])
  BY DEF ResendVerify, ForgotPassword
<1>3. \A i : Honest([Idle EXCEPT !.pc = "find", !.id = i]) /\ Honest([Idle EXCEPT !.pc = "forgot", !.id = i])
  BY DEF Honest, Idle
<1>4. Silent(c)
  BY <1>1, <1>2, <1>3, RefuseSilent, StartSilent
<1>5. QED
  BY <1>4, SilentTrue

LEMMA BearerTrue ==
    ASSUME AccountInv, HonestInv, NEW c \in Clients, Bearer(c)
    PROVE  Truthful
<1>1. flight[c].pc \in {"idle", "edit"}
  BY DEF Bearer, ChangePassword, DeleteUser, GetProfile, UpdateProfile, At
<1>2. \/ \E op, code : Refuse(c, op, code)
      \/ \E i, p : Start(c, [Idle EXCEPT !.pc = "change", !.id = i, !.password = p])
      \/ \E i : Start(c, [Idle EXCEPT !.pc = "delete", !.id = i])
      \/ \E i, v : Start(c, [Idle EXCEPT !.pc = "edit", !.id = i, !.version = v])
      \/ flight[c].pc = "edit" /\ Goto(c, "patch")
  <2>1. ASSUME NEW i \in Ids, NEW p \in Passwords, NEW q \in Passwords, ChangePassword(c, i, p, q)
        PROVE  \/ \E op, code : Refuse(c, op, code)
               \/ Start(c, [Idle EXCEPT !.pc = "change", !.id = i, !.password = q])
    BY <2>1 DEF ChangePassword
  <2>2. ASSUME NEW i \in Ids, NEW p \in Passwords, DeleteUser(c, i, p)
        PROVE  \/ \E op, code : Refuse(c, op, code)
               \/ Start(c, [Idle EXCEPT !.pc = "delete", !.id = i])
    BY <2>2 DEF DeleteUser
  <2>3. ASSUME NEW i \in Ids, GetProfile(c, i)
        PROVE  \/ \E op, code : Refuse(c, op, code)
               \/ Start(c, [Idle EXCEPT !.pc = "edit", !.id = i, !.version = users[i].version])
    BY <2>3 DEF GetProfile
  <2>4. CASE UpdateProfile(c)
    BY <2>4 DEF UpdateProfile, At
  <2>5. QED
    BY <2>1, <2>2, <2>3, <2>4 DEF Bearer
<1>3. CASE flight[c].pc = "edit" /\ Goto(c, "patch")
  <2>1. Honest([flight[c] EXCEPT !.pc = "patch"])
    BY <1>3 DEF HonestInv, Honest, AccountInv, FlightInv, Flights
  <2>2. Silent(c)
    BY <1>3, <2>1 DEF Goto, Silent
  <2>3. QED
    BY <2>2, SilentTrue
<1>4. CASE \E op, code : Refuse(c, op, code)
  BY <1>1, <1>4, RefuseSilent, SilentTrue
<1>5. ASSUME NEW f, Honest(f), Start(c, f) PROVE Truthful
  BY <1>5, StartSilent, SilentTrue
<1>6. ASSUME NEW i, NEW p, Start(c, [Idle EXCEPT !.pc = "change", !.id = i, !.password = p])
      PROVE  Truthful
  <2>1. Honest([Idle EXCEPT !.pc = "change", !.id = i, !.password = p])
    BY DEF Honest, Idle
  <2>2. QED
    BY <1>5, <1>6, <2>1
<1>7. ASSUME NEW i, Start(c, [Idle EXCEPT !.pc = "delete", !.id = i])
      PROVE  Truthful
  <2>1. Honest([Idle EXCEPT !.pc = "delete", !.id = i])
    BY DEF Honest, Idle
  <2>2. QED
    BY <1>5, <1>7, <2>1
<1>8. ASSUME NEW i, NEW v, Start(c, [Idle EXCEPT !.pc = "edit", !.id = i, !.version = v])
      PROVE  Truthful
  <2>1. Honest([Idle EXCEPT !.pc = "edit", !.id = i, !.version = v])
    BY DEF Honest, Idle
  <2>2. QED
    BY <1>5, <1>8, <2>1
<1>9. QED
  BY <1>2, <1>3, <1>4, <1>6, <1>7, <1>8

\* The link of a reset never finds its row; either way nothing was written before.
LEMMA ResetTrue ==
    ASSUME AccountInv, HonestInv, NEW c \in Clients, NEW t \in Tokens,
           \/ ResetPasswordGet(c, t)
           \/ \E p \in Passwords : ResetPasswordPost(c, t, p)
    PROVE  Truthful
<1>1. CASE ResetPasswordGet(c, t)
  <2>1. PICK code : Answer(c, "reset", code, FALSE, Hash(t))
    BY <1>1 DEF ResetPasswordGet
  <2>2. QED
    BY <2>1, AnswerTrue
<1>2. ASSUME NEW p \in Passwords, ResetPasswordPost(c, t, p)
      PROVE  Truthful
  <2>1. flight[c].pc = "idle"
    BY <1>2 DEF ResetPasswordPost, At
  <2>2. \/ Answer(c, "reset", 410, FALSE, Hash(t))
        \/ Answer(c, "reset", 200, TRUE, Hash(t))
        \/ \E op, code : Refuse(c, op, code)
    <3>1. ResetPostCode("fetch") = 410 /\ ResetPostCode("none") = 200
      BY DEF ResetPostCode
    <3>2. CASE GetByToken(t) = {}
      BY <1>2, <3>1, <3>2 DEF ResetPasswordPost
    <3>3. CASE GetByToken(t) # {}
      <4>1. Answer(c, "reset", 200, TRUE, Hash(t)) \/ Refuse(c, "reset", ResetPostCode("db"))
        BY <1>2, <3>1, <3>3 DEF ResetPasswordPost, With
      <4>2. QED
        BY <4>1
    <3>4. QED
      BY <3>2, <3>3
  <2>3. CASE Answer(c, "reset", 410, FALSE, Hash(t))
    BY <2>3, AnswerTrue
  <2>4. CASE Answer(c, "reset", 200, TRUE, Hash(t))
    <3>1. 200 \notin 400..499
      OBVIOUS
    <3>2. QED
      BY <2>4, <3>1, AnswerTrue
  <2>5. CASE \E op, code : Refuse(c, op, code)
    BY <2>1, <2>5, RefuseSilent, SilentTrue
  <2>6. QED
    BY <2>2, <2>3, <2>4, <2>5
<1>3. QED
  BY <1>1, <1>2

LEMMA SignupTxTrue ==
    ASSUME AccountInv, HonestInv, NEW c \in Clients, SignupTaken(c) \/ SignupTx(c)
    PROVE  Truthful
<1>1. flight[c].pc = "signup"
  BY DEF SignupTaken, SignupTx, At
<1>2. \/ \E op, code : Refuse(c, op, code)
      \/ \E i, t : Start(c, [Idle EXCEPT !.pc = "publish", !.id = i, !.token = t, !.code = 201,
                                         !.wrote = TRUE])
  <2>1. SignupCode("none") = 201
    BY DEF SignupCode
  <2>2. CASE SignupTaken(c)
    BY <2>2 DEF SignupTaken
  <2>3. CASE SignupTx(c)
    <3>1. PICK i \in FreeIds, t \in NewTokens :
             SignupRows(c, i, t) \/ Refuse(c, "signup", SignupCode("create"))
      BY <2>3 DEF SignupTx, With
    <3>2. CASE SignupRows(c, i, t)
      BY <2>1, <3>2 DEF SignupRows
    <3>3. QED
      BY <3>1, <3>2
  <2>4. QED
    BY <2>2, <2>3
<1>3. \A i, t : Honest([Idle EXCEPT !.pc = "publish", !.id = i, !.token = t, !.code = 201, !.wrote = TRUE])
  BY DEF Honest, Idle
<1>4. Silent(c)
  BY <1>1, <1>2, <1>3, RefuseSilent, StartSilent
<1>5. QED
  BY <1>4, SilentTrue

\* The mail that is announced is queued or lost: the request that announces it has its token.
LEMMA PublishTrue ==
    ASSUME AccountInv, HonestInv, NEW c \in Clients, PublishEmail(c)
    PROVE  Truthful
<1> DEFINE f == flight[c]
<1>1. f.pc = "publish" /\ f.token \in Tokens /\ f.code \in {201, 202}
  BY DEF PublishEmail, At, AccountInv, FlightInv, Knows, HonestInv, Honest
<1>2. mail \in [Tokens -> MailFates]
  BY DEF AccountInv, MailTypes
<1>3. mail'[f.token] \in {"queued", "lost"}
  BY <1>1, <1>2 DEF PublishEmail
<1>4. /\ answer' = [op |-> "mailed", code |-> f.code, id |-> f.id, wrote |-> TRUE, hash |-> Hash(f.token)]
      /\ flight' = [flight EXCEPT ![c] = Idle]
  BY DEF PublishEmail, Answer
<1>5. HonestInv'
  BY <1>4, IdleHonest, HonestMoves
<1> HIDE DEF f
<1>6. answer'.op = "mailed" /\ answer'.code = f.code /\ answer'.hash = Hash(f.token)
  BY <1>4
<1>7. \A t \in Tokens : answer'.hash = Hash(t) => mail'[t] \notin {"new", "drawn"}
  BY <1>3, <1>6, HashType
<1>8. answer'.code \notin 400..499
  BY <1>1, <1>6
<1>9. AnswersAreTrue'
  BY <1>6, <1>7, <1>8 DEF AnswersAreTrue
<1>10. QED
  BY <1>5, <1>9 DEF Truthful

\* An account that is reported verified is, and its link is used up.
LEMMA VerifyTxTrue ==
    ASSUME AccountInv, HonestInv, NEW c \in Clients, VerifyTx(c)
    PROVE  Truthful
<1> DEFINE f == flight[c]
           i == f.id
<1>1. f.pc = "verify" /\ i \in Ids /\ users \in [Ids -> Account \cup {Nothing}]
  BY DEF VerifyTx, At, AccountInv, FlightInv, Knows, TableTypes
<1>2. CASE \E op, code : Refuse(c, op, code)
  BY <1>1, <1>2, RefuseSilent, SilentTrue
<1>3. CASE /\ SetVerified(i) /\ DeleteVerifier(f.hash)
           /\ Answer(c, "verify", VerifyCode("none"), TRUE, f.hash)
  <2>1. /\ answer' = [op |-> "verify", code |-> 200, id |-> i, wrote |-> TRUE, hash |-> f.hash]
        /\ flight' = [flight EXCEPT ![c] = Idle]
    BY <1>3 DEF Answer, VerifyCode
  <2>2. HonestInv'
    BY <2>1, IdleHonest, HonestMoves
  <2>3. \A j \in Ids : ~(verifier'[j] # Nothing /\ verifier'[j].hash = f.hash)
    BY <1>3 DEF DeleteVerifier, RowsWith
  <2>4. users'[i] # Nothing => users'[i].verified
    <3>1. CASE users[i] = Nothing
      BY <1>3, <3>1 DEF SetVerified, GetById
    <3>2. CASE users[i] # Nothing
      <4>1. users' = [users EXCEPT ![i].verified = TRUE] /\ users[i] \in Account
        BY <1>1, <1>3, <3>2 DEF SetVerified, GetById
      <4>2. users'[i] = [users[i] EXCEPT !.verified = TRUE]
        BY <1>1, <4>1
      <4>3. QED
        BY <4>1, <4>2 DEF Account
    <3>3. QED
      BY <3>1, <3>2
  <2> HIDE DEF f, i
  <2>5. answer'.op = "verify" /\ answer'.code = 200 /\ answer'.id = i /\ answer'.hash = f.hash
    BY <2>1
  <2>6. answer'.code \notin 400..499
    BY <2>5
  <2>7. AnswersAreTrue'
    BY <2>3, <2>4, <2>5, <2>6 DEF AnswersAreTrue, RowsWith, GetById
  <2>8. QED
    BY <2>2, <2>7 DEF Truthful
<1>4. QED
  BY <1>2, <1>3 DEF VerifyTx, With

LEMMA ResendTrue ==
    ASSUME AccountInv, HonestInv, NEW c \in Clients, ResendFind(c) \/ ResendDelete(c)
    PROVE  Truthful
<1>1. flight[c].pc \in {"find", "unlink"} /\ flight[c] \in Flights
  BY DEF ResendFind, ResendDelete, At, AccountInv, FlightInv
<1>2. ~flight[c].wrote
  BY <1>1 DEF HonestInv, Honest
<1>3. CASE \E op, code : Refuse(c, op, code)
  BY <1>1, <1>3, RefuseSilent, SilentTrue
<1>4. CASE Goto(c, "link")
  <2>1. Honest([flight[c] EXCEPT !.pc = "link"])
    BY <1>1 DEF Honest, Flights
  <2>2. Silent(c)
    BY <1>4, <2>1 DEF Goto, Silent
  <2>3. QED
    BY <2>2, SilentTrue
<1>5. ASSUME NEW h, flight' = [flight EXCEPT ![c].pc = "unlink", ![c].hash = h], answer' = Nothing
      PROVE  Truthful
  <2>1. Honest([flight[c] EXCEPT !.pc = "unlink", !.hash = h])
    BY <1>1, <1>2 DEF Honest, Flights
  <2>2. flight' = [flight EXCEPT ![c] = [flight[c] EXCEPT !.pc = "unlink", !.hash = h]]
    BY <1>5 DEF AccountInv, FlightInv
  <2>3. Silent(c)
    BY <1>5, <2>1, <2>2 DEF Silent
  <2>4. QED
    BY <2>3, SilentTrue
<1>6. CASE flight' = [flight EXCEPT ![c].pc = "link", ![c].wrote = TRUE] /\ answer' = Nothing
  <2>1. Honest([flight[c] EXCEPT !.pc = "link", !.wrote = TRUE])
    BY <1>1 DEF Honest, Flights
  <2>2. flight' = [flight EXCEPT ![c] = [flight[c] EXCEPT !.pc = "link", !.wrote = TRUE]]
    BY <1>6 DEF AccountInv, FlightInv
  <2>3. Silent(c)
    BY <1>6, <2>1, <2>2 DEF Silent
  <2>4. QED
    BY <2>3, SilentTrue
<1>7. QED
  BY <1>3, <1>4, <1>5, <1>6 DEF ResendFind, ResendDelete

\* The request that finds its row taken after it wrote is answered 500, not refused.
LEMMA LinkTrue ==
    ASSUME AccountInv, HonestInv, NEW c \in Clients, ResendCreate(c) \/ ForgotUpsert(c)
    PROVE  Truthful
<1>1. \/ Refuse(c, "resend", 500)
      \/ flight[c].pc = "forgot" /\ \E op, code : Refuse(c, op, code)
      \/ \E i, t : Start(c, [Idle EXCEPT !.pc = "publish", !.id = i, !.token = t, !.code = 202,
                                         !.wrote = TRUE])
  <2>1. ResendCode("none") = 202 /\ ResendCode("create") = 500 /\ ForgotCode("none") = 202
    BY DEF ResendCode, ForgotCode
  <2>2. CASE ResendCreate(c)
    <3>1. \/ Refuse(c, "resend", 500)
          \/ \E t \in Tokens : Start(c, [Idle EXCEPT !.pc = "publish", !.id = flight[c].id, !.token = t,
                                                   !.code = 202, !.wrote = TRUE])
      BY <2>1, <2>2 DEF ResendCreate
    <3>2. QED
      BY <3>1
  <2>3. CASE ForgotUpsert(c)
    <3>1. \/ Refuse(c, "forgot", ForgotCode("create"))
          \/ \E t \in Tokens : Start(c, [Idle EXCEPT !.pc = "publish", !.id = flight[c].id, !.token = t,
                                                   !.code = 202, !.wrote = TRUE])
      BY <2>1, <2>3 DEF ForgotUpsert
    <3>2. flight[c].pc = "forgot"
      BY <2>3 DEF ForgotUpsert, At
    <3>3. QED
      BY <3>1, <3>2
  <2>4. QED
    BY <2>2, <2>3
<1>2. CASE Refuse(c, "resend", 500)
  <2>1. CASE Answer(c, "resend", 500, TRUE, Nothing)
    <3>1. 500 \notin 400..499
      OBVIOUS
    <3>2. QED
      BY <2>1, <3>1, AnswerTrue
  <2>2. CASE flight' = [flight EXCEPT ![c] = Idle] /\ answer' = Nothing
    BY <2>2, IdleHonest, SilentTrue DEF Silent
  <2>3. QED
    BY <1>2, <2>1, <2>2 DEF Refuse
<1>3. CASE flight[c].pc = "forgot" /\ \E op, code : Refuse(c, op, code)
  BY <1>3, RefuseSilent, SilentTrue
<1>4. ASSUME NEW i, NEW t, Start(c, [Idle EXCEPT !.pc = "publish", !.id = i, !.token = t, !.code = 202,
                                                 !.wrote = TRUE])
      PROVE  Truthful
  <2>1. Honest([Idle EXCEPT !.pc = "publish", !.id = i, !.token = t, !.code = 202, !.wrote = TRUE])
    BY DEF Honest, Idle
  <2>2. QED
    BY <1>4, <2>1, StartSilent, SilentTrue
<1>5. QED
  BY <1>1, <1>2, <1>3, <1>4

\* An account that is reported deleted is gone.
LEMMA DeleteTrue ==
    ASSUME AccountInv, HonestInv, NEW c \in Clients, DeleteWrite(c)
    PROVE  Truthful
<1> DEFINE i == flight[c].id
<1>1. flight[c].pc = "delete" /\ i \in Ids /\ users \in [Ids -> Account \cup {Nothing}]
  BY DEF DeleteWrite, At, AccountInv, FlightInv, Knows, TableTypes
<1>2. CASE \E op, code : Refuse(c, op, code)
  BY <1>1, <1>2, RefuseSilent, SilentTrue
<1>3. CASE DeleteById(i) /\ Answer(c, "delete", DeleteCode("none"), TRUE, Nothing)
  <2>1. /\ answer' = [op |-> "delete", code |-> 200, id |-> i, wrote |-> TRUE, hash |-> Nothing]
        /\ flight' = [flight EXCEPT ![c] = Idle]
    BY <1>3 DEF Answer, DeleteCode
  <2>2. HonestInv'
    BY <2>1, IdleHonest, HonestMoves
  <2>3. users'[i] = Nothing
    BY <1>1, <1>3 DEF DeleteById
  <2> HIDE DEF i
  <2>4. answer'.op = "delete" /\ answer'.code = 200 /\ answer'.id = i
    BY <2>1
  <2>5. answer'.code \notin 400..499
    BY <2>4
  <2>6. AnswersAreTrue'
    BY <2>3, <2>4, <2>5 DEF AnswersAreTrue, GetById
  <2>7. QED
    BY <2>2, <2>6 DEF Truthful
<1>4. QED
  BY <1>2, <1>3 DEF DeleteWrite

LEMMA EditTrue ==
    ASSUME AccountInv, HonestInv, NEW c \in Clients, ChangeWrite(c) \/ UpdateProfileTx(c)
    PROVE  Truthful
<1>1. /\ flight[c].pc \in {"change", "patch"}
      /\ \/ \E op, code : Refuse(c, op, code)
         \/ \E op \in {"change", "patch"} : Answer(c, op, 200, TRUE, Nothing)
  <2>1. ChangeCode("none") = 200 /\ PatchCode("none") = 200
    BY DEF ChangeCode, PatchCode
  <2>2. CASE ChangeWrite(c)
    <3>1. \/ Refuse(c, "change", ChangeCode("db"))
          \/ Answer(c, "change", 200, TRUE, Nothing)
      BY <2>1, <2>2 DEF ChangeWrite
    <3>2. flight[c].pc = "change"
      BY <2>2 DEF ChangeWrite, At
    <3>3. QED
      BY <3>1, <3>2
  <2>3. CASE UpdateProfileTx(c)
    <3>1. \/ Refuse(c, "patch", PatchCode("db"))
          \/ Answer(c, "patch", 200, TRUE, Nothing)
      BY <2>1, <2>3 DEF UpdateProfileTx, With
    <3>2. flight[c].pc = "patch"
      BY <2>3 DEF UpdateProfileTx, At
    <3>3. QED
      BY <3>1, <3>2
  <2>4. QED
    BY <2>2, <2>3
<1>2. CASE \E op, code : Refuse(c, op, code)
  BY <1>1, <1>2, RefuseSilent, SilentTrue
<1>3. ASSUME NEW op \in {"change", "patch"}, Answer(c, op, 200, TRUE, Nothing)
      PROVE  Truthful
  <2>1. 200 \notin 400..499
    OBVIOUS
  <2>2. QED
    BY <1>3, <2>1, AnswerTrue
<1>4. QED
  BY <1>1, <1>2, <1>3

LEMMA EnvironmentTrue ==
    ASSUME AccountInv, HonestInv,
           \/ \E t \in Tokens : Send(t) \/ Ack(t)
           \/ WorkerCrash \/ ApiCrash
           \/ \E i \in Ids : Expire(i)
    PROVE  Truthful
<1>1. answer' = Nothing /\ (flight' = flight \/ flight' = [c \in Clients |-> Idle])
  BY DEF Send, Ack, WorkerCrash, ApiCrash, Expire
<1>2. HonestInv'
  BY <1>1, IdleHonest DEF HonestInv, Honest
<1>3. QED
  BY <1>1, <1>2 DEF Truthful, AnswersAreTrue

LEMMA AnswerInit == Init => HonestInv /\ AnswersAreTrue
BY IdleHonest DEF Init, HonestInv, AnswersAreTrue

LEMMA AnswerStep ==
    ASSUME AccountInv, HonestInv, AnswersAreTrue, [Next]_vars
    PROVE  HonestInv' /\ AnswersAreTrue'
<1>1. ASSUME NEW c \in Clients, Server(c) PROVE Truthful
  BY <1>1, SignupTxTrue, PublishTrue, VerifyTxTrue, ResendTrue, LinkTrue, DeleteTrue, EditTrue DEF Server
<1>2. ASSUME NEW c \in Clients, Client(c) PROVE Truthful
  BY <1>2, SignTrue, ClickTrue, ResetTrue, AskTrue DEF Client
<1>3. ASSUME UNCHANGED vars PROVE Truthful
  <2>1. UNCHANGED <<users, verifier, mail, flight, answer>>
    BY <1>3 DEF vars, tables, linkVars, mailVars
  <2>2. QED
    BY <2>1 DEF Truthful, HonestInv, Honest, AnswersAreTrue, RowsWith, GetById
<1>4. ASSUME NEW c \in Clients, Bearer(c) PROVE Truthful
  BY <1>4, BearerTrue
<1>5. ASSUME \/ \E t \in Tokens : Send(t) \/ Ack(t)
             \/ WorkerCrash \/ ApiCrash
             \/ \E i \in Ids : Expire(i)
      PROVE  Truthful
  BY <1>5, EnvironmentTrue
<1>6. Truthful
  BY <1>1, <1>2, <1>3, <1>4, <1>5 DEF Next
<1>7. QED
  BY <1>6 DEF Truthful

\* What the API answers is so (transport/http/handlers/auth and user): a refused request has
\* written nothing, "check mail" means a mail handed over or lost, an account reported verified
\* or deleted is, whatever other requests and crashes come between its statements.
THEOREM AnswersTrueAlways == Spec => []AnswersAreTrue
<1>1. Spec => [](HonestInv /\ AnswersAreTrue)
  BY AnswerInit, AnswerStep, AccountInvAlways, PTL DEF Spec
<1>2. QED
  BY <1>1, PTL
=============================================================================
