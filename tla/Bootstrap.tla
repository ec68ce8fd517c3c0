------------------------------ MODULE Bootstrap ------------------------------
(***************************************************************************)
(* The demo data (cmd/bootstrap/cmd/seed.go) on top of the provisioning.   *)
(* The seed draws rows in memory and inserts them table by table, in       *)
(* batches and in no transaction.  Every seeding draws new user ids, but   *)
(* may draw an email that an earlier one has stored.                       *)
(***************************************************************************)
EXTENDS Provision, FiniteSets, SequencesExt

CONSTANTS
    Count,     \* users of one seeding
    Batch,     \* rows of an insert
    GifBatch,  \* rows of an insert into gifs
    MaxGifs,   \* gifs of one user, at most
    MaxLinks,  \* links of one seeding, at most
    MaxSeeds   \* bound on the seedings

ASSUME SeedAssumption ==
    {Count, Batch, GifBatch, MaxGifs, MaxLinks} \subseteq Nat \ {0} /\ MaxSeeds \in Nat

VARIABLES
    seeds,   \* seedings so far
    tables,  \* the seeded rows of each table
    todo,    \* rows the running seed has drawn for a table and not inserted
    due,     \* users whose profiles are inserted next
    drawn    \* what it keeps in memory for the tables that follow

seedVars == <<seeds, tables, todo, due, drawn>>
vars     == <<provisionVars, seedVars>>

Tables   == {"users", "profiles", "gifs", "quota", "friendships", "shares", "share_tokens"}
\* The migration that makes each table, of two that stand for the fifteen.
MadeBy(table) == IF table \in {"users", "profiles", "quota"} THEN 1 ELSE Newest
NoRows   == [users |-> <<>>, gifs |-> <<>>, stats |-> <<>>, friends |-> {}]

Init ==
    /\ ProvisionInit
    /\ seeds = 0
    /\ tables = [table \in Tables |-> {}]
    /\ todo = <<>> /\ due = <<>> /\ drawn = NoRows

Forget == todo' = <<>> /\ due' = <<>> /\ drawn' = NoRows

LaunchSeed(c) ==
    /\ seeds < MaxSeeds
    /\ Launch(c)
    /\ seeds' = seeds + 1
    /\ UNCHANGED <<tables, todo, due, drawn>>

\* Without a database the seed stops; a failure to make the bucket or to store the object
\* is a warning.
SeedMinioStorage ==
    /\ At("seed.gif")
    /\ IF {"role", "database"} \subseteq placed
       THEN placed' \in {placed, placed \cup {"storage bucket"}} /\ Advance
       ELSE Exit("failed") /\ UNCHANGED placed
    /\ UNCHANGED <<version, dirty, outages, seedVars>>

-----------------------------------------------------------------------------
(* Drawing rows, and inserting the next batch of them.                     *)

\* Rows drawn for a table; with none to insert the seed goes on to the next table.
Draw(rows) ==
    /\ todo = <<>>
    /\ todo' = rows
    /\ IF rows = <<>> THEN Advance ELSE UNCHANGED <<cmd, script, last>>
    /\ UNCHANGED <<placed, version, dirty, outages, seeds, tables, due>>

NextBatch(size) == SubSeq(todo, 1, IF size < Len(todo) THEN size ELSE Len(todo))
AfterBatch(size) == SubSeq(todo, size + 1, Len(todo))
Exists(table) == version >= MadeBy(table) /\ (dirty => version > MadeBy(table))

Insert(table, size) ==
    /\ todo # <<>>
    /\ IF Exists(table)
       THEN /\ tables' = [tables EXCEPT ![table] = @ \cup ToSet(NextBatch(size))]
            /\ todo' = AfterBatch(size)
            /\ IF todo' = <<>> THEN Advance ELSE UNCHANGED <<cmd, script, last>>
            /\ UNCHANGED <<due, drawn>>
       ELSE Exit("failed") /\ Forget /\ UNCHANGED tables
    /\ UNCHANGED <<placed, version, dirty, outages, seeds>>

\* An email is of its index and random names: the same as in an earlier seeding, or new.
DrawUsers ==
    /\ At("users")
    /\ \E again \in [1..Count -> 1..seeds] :
          LET rows == [i \in 1..Count |-> [id |-> <<seeds, i>>, email |-> <<again[i], i>>]]
          IN  Draw(rows) /\ drawn' = [drawn EXCEPT !.users = [i \in 1..Count |-> rows[i].id]]

\* Users whose email is taken are skipped ...
InsertUsers ==
    /\ At("users") /\ todo # <<>> /\ due = <<>>
    /\ IF Exists("users")
       THEN /\ tables' = [tables EXCEPT !.users = @ \cup
                  {r \in ToSet(NextBatch(Batch)) : \A s \in tables.users : s.email # r.email}]
            /\ due' = NextBatch(Batch)
            /\ UNCHANGED <<cmd, script, last, todo, drawn>>
       ELSE Exit("failed") /\ Forget /\ UNCHANGED tables
    /\ UNCHANGED <<placed, version, dirty, outages, seeds>>

Ids == {r.id : r \in tables.users}

\* Mutant: rows whose user is missing are dropped without an error.
InsertProfiles_IgnoresError ==
    /\ At("users") /\ due # <<>>
    /\ tables' = [tables EXCEPT !.profiles = @ \cup ({r.id : r \in ToSet(due)} \cap Ids)]
    /\ todo' = AfterBatch(Batch) /\ due' = <<>>
    /\ IF todo' = <<>> THEN Advance ELSE UNCHANGED <<cmd, script, last>>
    /\ UNCHANGED <<placed, version, dirty, outages, seeds, drawn>>

\* ... and then the profile of one who was skipped fails its foreign key, with the
\* profiles of the whole batch.
InsertProfiles ==
    LET profiles == {r.id : r \in ToSet(due)} IN
    /\ At("users") /\ due # <<>>
    /\ IF Exists("profiles") /\ profiles \subseteq Ids
       THEN /\ tables' = [tables EXCEPT !.profiles = @ \cup profiles]
            /\ todo' = AfterBatch(Batch) /\ due' = <<>>
            /\ IF todo' = <<>> THEN Advance ELSE UNCHANGED <<cmd, script, last>>
            /\ UNCHANGED drawn
       ELSE Exit("failed") /\ Forget /\ UNCHANGED tables
    /\ UNCHANGED <<placed, version, dirty, outages, seeds>>

SeedUsersAndProfiles == DrawUsers \/ InsertUsers \/ InsertProfiles

\* num[i] gifs of the i-th user; their keys are taken to differ, which eight random hex
\* digits do but for a chance in billions.
Gifs(num) == UNION {{[owner |-> drawn.users[i], nr |-> n] : n \in 1..num[i]} : i \in 1..Count}

SeedGifs ==
    /\ At("gifs")
    /\ \/ \E num \in [1..Count -> 1..MaxGifs] :
             LET gifs == SetToSeq(Gifs(num))
             IN  Draw(gifs) /\ drawn' = [drawn EXCEPT !.gifs = gifs, !.stats = num]
       \/ Insert("gifs", GifBatch)

SeedQuotas ==
    /\ At("quota")
    /\ \/ /\ Draw([i \in 1..Count |-> [user |-> drawn.users[i], count |-> drawn.stats[i]]])
          /\ UNCHANGED drawn
       \/ Insert("quota", Batch)

\* Each pair is drawn in one direction at most.
PairSets ==
    {s \in SUBSET (ToSet(drawn.users) \X ToSet(drawn.users)) :
        \A p \in s : p[1] # p[2] /\ <<p[2], p[1]>> \notin s}

SeedFriendships ==
    /\ At("friendships")
    /\ \/ \E pairs \in PairSets : \E accepted \in SUBSET pairs :
             /\ Draw(SetToSeq({[pair |-> p, accepted |-> p \in accepted] : p \in pairs}))
             /\ drawn' = [drawn EXCEPT !.friends = accepted]
       \/ Insert("friendships", Batch)

\* For every accepted pair one gif of the one who asked; which, is random and makes no
\* difference.
SeedShares ==
    /\ At("shares")
    /\ \/ /\ Draw(SetToSeq({[owner |-> p[1], nr |-> 1, with |-> p[2]] : p \in drawn.friends}))
          /\ UNCHANGED drawn
       \/ Insert("shares", Batch)

\* Links for some of the gifs, up to a limit; the same goes for them.
SeedShareTokens ==
    /\ At("share_tokens")
    /\ \/ \E n \in 0..MaxLinks :
             /\ n <= Len(drawn.gifs)
             /\ Draw(SubSeq(drawn.gifs, 1, n)) /\ UNCHANGED drawn
       \/ Insert("share_tokens", Batch)

Next ==
    \/ ProvisionNext /\ Forget /\ UNCHANGED <<seeds, tables>>
    \/ Fail /\ Forget /\ UNCHANGED <<seeds, tables>>
    \/ LaunchSeed("seed") \/ LaunchSeed("all --seed")
    \/ SeedMinioStorage \/ SeedUsersAndProfiles \/ SeedGifs \/ SeedQuotas
    \/ SeedFriendships \/ SeedShares \/ SeedShareTokens

Spec == Init /\ [][Next]_vars

\* A command goes on until it ends.  Nothing restarts one (restart: "no"): that "all" is
\* run again is the operator's promise, kept however often other commands come first.
Fairness == WF_vars(Next /\ Running) /\ SF_vars(Next /\ Launch("all"))

FairSpec == Spec /\ Fairness

-----------------------------------------------------------------------------
TypeOK ==
    /\ ProvisionTypeOK
    /\ seeds \in 0..MaxSeeds
    /\ DOMAIN tables = Tables
    /\ tables.profiles \subseteq Ids
    /\ {g.owner : g \in tables.gifs} \subseteq Ids
    /\ \A s \in tables.shares : [owner |-> s.owner, nr |-> s.nr] \in tables.gifs

\* Two seedings, the first of which may have died, and a seeding that ends well: each
\* of its users is there with a profile, gifs and the quota that counts them.
SeedIsWhole ==
    last \in {<<"seed", "ok">>, <<"all --seed", "ok">>} =>
        \A i \in 1..Count :
            /\ <<seeds, i>> \in Ids \cap tables.profiles
            /\ \E q \in tables.quota : q.user = <<seeds, i>>

\* Whichever batch a seeding dies at: a quota counts the gifs its user has.
QuotaCountsGifs ==
    \A q \in tables.quota : q.count = Cardinality({g \in tables.gifs : g.owner = q.user})

\* Whichever batch a seeding dies at: two users are friends through one row, and a
\* gif is shared with an accepted friend only.
SharesAmongFriends ==
    /\ \A f \in tables.friendships, g \in tables.friendships :
          f.pair \in {g.pair, <<g.pair[2], g.pair[1]>>} => f = g
    /\ \A s \in tables.shares :
          [pair |-> <<s.owner, s.with>>, accepted |-> TRUE] \in tables.friendships

\* An operator who keeps running "all" sees it end well with everything in place, now and
\* after every later command, wherever earlier runs stopped; unless a migration was cut
\* short, whose mark stays and is refused.
SetupCompletes == []<>(last = <<"all", "ok">> /\ Complete) \/ <>[]dirty

\* The tables of the seed agree with one another, wherever a seeding stopped.
SeedAgrees == TypeOK /\ SeedIsWhole /\ QuotaCountsGifs /\ SharesAmongFriends
=============================================================================
