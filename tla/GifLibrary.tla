----------------------------- MODULE GifLibrary -----------------------------
(***************************************************************************)
(* Stored gifs and whom they are shared with (internal/app/media and       *)
(* internal/app/share over gif_repo.go, share_repo.go and the bucket).     *)
(* Each request first reads the owner of the gif, and goes on in later     *)
(* statements; only the edit holds the row from its read to its write.     *)
(***************************************************************************)
EXTENDS Requests, Integers, FiniteSets

CONSTANT MaxVersion  \* bound on the updates of one gif

VARIABLES
    born,     \* how far the conversion that draws each key has come
    gifs,     \* the row of each key, or Nothing; version stands for updated_at
    objects,  \* keys whose gif is in the bucket
    shares,   \* the shares row of each key and user, or Nothing
    links     \* the share_tokens row of each key, or Nothing, for one address

libraryVars == <<born, gifs, objects, shares, links>>

Gif     == [owner : Users, version : Nat]
Share   == [owner : Users, live : BOOLEAN]
Link    == [owner : Users, token : {<<"sha256", k>> : k \in Keys}, live : BOOLEAN]

\* Nothing stands for a row that is not there, so it is none of those that are.
ASSUME LibraryAssumption ==
    MaxVersion \in Nat /\ Nothing \notin Users \cup Keys \cup Gif \cup Share \cup Link \cup (Users \X Keys)

LibraryInit ==
    /\ born = [k \in Keys |-> "none"]
    /\ gifs = [k \in Keys |-> Nothing]
    /\ objects = {}
    /\ shares = [k \in Keys |-> [v \in Users |-> Nothing]]
    /\ links = [k \in Keys |-> Nothing]

-----------------------------------------------------------------------------
(* The statements.                                                         *)

Owns(u, k) == gifs[k] # Nothing /\ gifs[k].owner = u

\* Mutant: the edit selects its row without FOR UPDATE.
Locked_Never(k) == FALSE
\* An edit has its row selected for update; whoever would write or reference it waits.
Locked(k)       == \E c \in Clients : At(c, "update") /\ flight[c].key = k

\* The bound: nobody starts what would be one update too many.
RoomToChange(k) ==
    gifs[k] # Nothing =>
        gifs[k].version + Cardinality({c \in Clients : flight[c].key = k}) < MaxVersion

Touch(k) ==
    gifs' = IF gifs[k] = Nothing THEN gifs ELSE [gifs EXCEPT ![k].version = @ + 1]

\* Deleting gifs takes their shares and links along.
DeleteGifs(keys) ==
    /\ gifs' = [k \in Keys |-> IF k \in keys THEN Nothing ELSE gifs[k]]
    /\ links' = [k \in Keys |-> IF k \in keys THEN Nothing ELSE links[k]]

\* Mutant: the expiry of a share is not looked at.
ShareOwner_Expired(k, v) == IF shares[k][v] = Nothing THEN Nothing ELSE shares[k][v].owner
ShareOwner(k, v) ==
    IF shares[k][v] # Nothing /\ shares[k][v].live THEN shares[k][v].owner ELSE Nothing

\* The queries behind the lists.
GetGifs(u)    == {k \in Keys : Owns(u, k)}
SharedWith(u) ==   \* with u, and by u, expired or not
    {k \in Keys : gifs[k] # Nothing /\ \E v \in Users :
        /\ shares[k][v] # Nothing
        /\ shares[k][v].owner = u \/ (v = u /\ shares[k][v].live)}
GetByToken(token) == {k \in Keys : links[k] # Nothing /\ links[k].live /\ links[k].token = token}

-----------------------------------------------------------------------------
(* A conversion stores its object, then inserts the row.                   *)

StoreGif(k) ==
    /\ born[k] = "none"
    /\ born' = [born EXCEPT ![k] = "stored"]
    /\ objects' = objects \cup {k}
    /\ UNCHANGED <<people, flight, gifs, shares, links>>

CreateGif(k, u) ==
    /\ born[k] = "stored" /\ u \in people
    /\ born' = [born EXCEPT ![k] = "listed"]
    /\ gifs' = [gifs EXCEPT ![k] = [owner |-> u, version |-> 0]]
    /\ UNCHANGED <<people, flight, objects, shares, links>>

-----------------------------------------------------------------------------
(* The owner's requests.  One refused by its first read leaves no trace,   *)
(* so it is no step.                                                       *)

\* PATCH with an If-Match that names the version some GET of the gif handed out ...
Update(c, u, k) ==
    /\ Owns(u, k) /\ RoomToChange(k)
    /\ \E etag \in 0..gifs[k].version : Start(c, "select", u, k, Nothing, etag)
    /\ UNCHANGED <<people, libraryVars>>

\* ... begins a transaction, selects the row for update and compares.  The comparison is
\* with the time as it is: GET sends it in quotes, which the web client takes off, and a
\* client that echoes them is refused (412) whatever the version ...
UpdateSelect(c) ==
    LET k == flight[c].key IN
    /\ At(c, "select") /\ ~Locked(k)
    /\ \/ gifs[k] # Nothing /\ gifs[k].version = flight[c].etag /\ Goto(c, "update")
       \/ Return(c)
    /\ UNCHANGED <<people, libraryVars>>

\* ... and commits the update.
UpdateCommit(c) ==
    /\ At(c, "update")
    /\ Touch(flight[c].key)
    /\ Return(c)
    /\ UNCHANGED <<people, born, objects, shares, links>>

Delete(c, u, k) ==
    /\ Owns(u, k)
    /\ Start(c, "deleteRow", u, k, Nothing, 0)
    /\ UNCHANGED <<people, libraryVars>>

\* Mutant: the object is removed before the row.
DeleteRow_ObjectFirst(c) ==
    /\ At(c, "deleteRow")
    /\ objects' = objects \ {flight[c].key}
    /\ Goto(c, "deleteObject")
    /\ UNCHANGED <<people, born, gifs, shares, links>>

DeleteRow(c) ==
    LET k == flight[c].key IN
    /\ At(c, "deleteRow") /\ ~Locked(k)
    /\ DeleteGifs({k})
    /\ shares' = [shares EXCEPT ![k] = [v \in Users |-> Nothing]]
    /\ Goto(c, "deleteObject")
    /\ UNCHANGED <<people, born, objects>>

\* The object goes last; when that fails the answer is the same and the object stays.
DeleteObject(c) ==
    /\ At(c, "deleteObject")
    /\ objects' = objects \ {flight[c].key}
    /\ Return(c)
    /\ UNCHANGED <<people, born, gifs, shares, links>>

Save(c, u, k) ==
    /\ Owns(u, k) /\ RoomToChange(k)
    /\ Start(c, "save", u, k, Nothing, 0)
    /\ UNCHANGED <<people, libraryVars>>

SaveRecent(c) ==
    /\ At(c, "save") /\ ~Locked(flight[c].key)
    /\ Touch(flight[c].key)
    /\ Return(c)
    /\ UNCHANGED <<people, born, objects, shares, links>>

-----------------------------------------------------------------------------
(* Downloads: the gif's owner, then the caller's share, then the counter.  *)

Download(c, u, k) ==
    /\ gifs[k] # Nothing /\ RoomToChange(k)
    /\ Start(c, "share", u, k, gifs[k].owner, 0)
    /\ UNCHANGED <<people, libraryVars>>

CheckShare(c) ==
    LET f == flight[c] IN
    /\ At(c, "share")
    /\ Goto(c, IF f.user = f.peer \/ ShareOwner(f.key, f.user) = f.peer
               THEN "increment" ELSE "refused")
    /\ UNCHANGED <<people, libraryVars>>

\* The update matches no row when the gif has gone; a URL is signed all the same.
IncrementDownload(c) ==
    /\ At(c, "increment") /\ ~Locked(flight[c].key)
    /\ Touch(flight[c].key)
    /\ Goto(c, "open")
    /\ UNCHANGED <<people, born, objects, shares, links>>

\* The URL or the refusal is sent.
Answer(c) ==
    /\ At(c, "open") \/ At(c, "refused")
    /\ Return(c)
    /\ UNCHANGED <<people, libraryVars>>

\* The holder of a link sends the token as it was mailed, and the row has its hash.
DownloadByToken(c, k) ==
    /\ links[k] # Nothing /\ RoomToChange(k)
    /\ Start(c, IF k \in GetByToken(k) THEN "increment" ELSE "refused", Nothing, k, Nothing, 0)
    /\ UNCHANGED <<people, libraryVars>>

-----------------------------------------------------------------------------
(* Shares and links.                                                       *)

\* Mutant: the owner is not checked.
ShareGif_Anyone(c, u, k, v) ==
    /\ v \in people /\ gifs[k] # Nothing
    /\ Start(c, "insert", u, k, v, 0)
    /\ UNCHANGED <<people, libraryVars>>

ShareGif(c, u, k, v) ==
    /\ v \in people /\ Owns(u, k)
    /\ Start(c, "insert", u, k, v, 0)
    /\ UNCHANGED <<people, libraryVars>>

\* A share that is there, expired or not, gets the new expiry.
InsertShare(c) ==
    LET f == flight[c] IN
    /\ At(c, "insert") /\ ~Locked(f.key)
    /\ shares' =
          IF gifs[f.key] # Nothing /\ {f.user, f.peer} \subseteq people
          THEN [shares EXCEPT ![f.key][f.peer] =
                   IF @ = Nothing THEN [owner |-> f.user, live |-> TRUE]
                                  ELSE [@ EXCEPT !.live = TRUE]]
          ELSE shares
    /\ Return(c)
    /\ UNCHANGED <<people, born, gifs, objects, links>>

CreateByToken(c, u, k) ==
    /\ Owns(u, k)
    /\ Start(c, "upsert", u, k, Nothing, 0)
    /\ UNCHANGED <<people, libraryVars>>

\* A second link for the address mails a new token and keeps the row's old one.
UpsertLink(c) ==
    LET k == flight[c].key IN
    /\ At(c, "upsert") /\ ~Locked(k)
    /\ links' =
          IF gifs[k] # Nothing
          THEN [links EXCEPT ![k] =
                   IF @ = Nothing
                   THEN [owner |-> flight[c].user, token |-> <<"sha256", k>>, live |-> TRUE]
                   ELSE [@ EXCEPT !.live = TRUE]]
          ELSE links
    /\ Return(c)
    /\ UNCHANGED <<people, born, gifs, objects, shares>>

\* Only a share that has not expired is found, and so can be revoked.
RevokeShare(c, u, k, v) ==
    /\ ShareOwner(k, v) = u
    /\ Start(c, "revoke", u, k, v, 0)
    /\ UNCHANGED <<people, libraryVars>>

DeleteShare(c) ==
    /\ At(c, "revoke")
    /\ shares' = [shares EXCEPT ![flight[c].key][flight[c].peer] = Nothing]
    /\ Return(c)
    /\ UNCHANGED <<people, born, gifs, objects, links>>

Expire(k) ==
    /\ \/ \E v \in Users : /\ ShareOwner(k, v) # Nothing
                           /\ shares' = [shares EXCEPT ![k][v].live = FALSE]
                           /\ UNCHANGED links
       \/ /\ links[k] # Nothing /\ links[k].live
          /\ links' = [links EXCEPT ![k].live = FALSE]
          /\ UNCHANGED shares
    /\ UNCHANGED <<people, flight, born, gifs, objects>>

MediaRequest(c, u, k) ==
    Update(c, u, k) \/ Delete(c, u, k) \/ Save(c, u, k) \/ Download(c, u, k)

ShareRequest(c, u, k) ==
    \/ CreateByToken(c, u, k)
    \/ \E v \in Users : ShareGif(c, u, k, v) \/ RevokeShare(c, u, k, v)

LibraryNext ==
    \/ \E k \in Keys : StoreGif(k) \/ Expire(k) \/ (\E u \in Users : CreateGif(k, u))
    \/ \E c \in Clients :
          \/ UpdateSelect(c) \/ UpdateCommit(c) \/ DeleteRow(c) \/ DeleteObject(c)
          \/ SaveRecent(c) \/ CheckShare(c) \/ IncrementDownload(c) \/ Answer(c)
          \/ InsertShare(c) \/ UpsertLink(c) \/ DeleteShare(c)
          \/ \E k \in Keys : DownloadByToken(c, k)
          \/ \E u \in Users, k \in Keys : MediaRequest(c, u, k) \/ ShareRequest(c, u, k)

-----------------------------------------------------------------------------
LibraryTypeOK ==
    /\ born \in [Keys -> {"none", "stored", "listed"}]
    /\ gifs \in [Keys -> Gif \cup {Nothing}]
    /\ objects \subseteq Keys
    /\ shares \in [Keys -> [Users -> Share \cup {Nothing}]]
    /\ links \in [Keys -> Link \cup {Nothing}]

\* Through deletes cut short between their two writes: a gif anybody is shown has
\* its object in the bucket.
RowHasObject == \A k \in Keys : gifs[k] # Nothing => k \in objects

\* However inserts race with the deletion of the gif or of a user: a share or a link
\* in the tables is of a gif that is there, was made by its owner, for a user who
\* is there.
GrantsAreOwners ==
    \A k \in Keys :
        /\ links[k] # Nothing => Owns(links[k].owner, k)
        /\ \A v \in Users : shares[k][v] # Nothing =>
              Owns(shares[k][v].owner, k) /\ v \in people

\* From its comparison to its update an edit writes over the version its ETag names:
\* no download, save or other edit comes in between.
EditSeesItsVersion ==
    \A c \in Clients : At(c, "update") =>
        gifs[flight[c].key] # Nothing /\ gifs[flight[c].key].version = flight[c].etag

\* What the two lists show a user is what the download would give: the queries of
\* the lists and the check of the download agree.
ListedIsOpen ==
    \A u \in people :
        GetGifs(u) \cup SharedWith(u)
            = {k \in Keys : gifs[k] # Nothing /\ gifs[k].owner \in {u, ShareOwner(k, u)}}

\* Each download is decided by one state of gifs and shares, whatever changes between
\* its two reads.
Asking(c) == flight[c].user # Nothing /\ flight[c].pc \in {"share", "increment", "open", "refused"}
VerdictOf(c) ==
    IF ~Asking(c) \/ (At(c, "share") /\ flight[c].user # flight[c].peer) THEN "none"
    ELSE IF At(c, "refused") THEN "refused" ELSE "granted"

OwnerOf  == [k \in Keys |-> IF gifs[k] = Nothing THEN Nothing ELSE gifs[k].owner]
GrantsOf == [k \in Keys |-> {v \in Users : shares[k][v] # Nothing /\ shares[k][v].live}]
Wants    == [c \in Clients |-> IF Asking(c) THEN <<flight[c].user, flight[c].key>> ELSE Nothing]
Verdicts == [c \in Clients |-> VerdictOf(c)]

Access == INSTANCE AccessBoard WITH owner <- OwnerOf, grants <- GrantsOf, want <- Wants, verdict <- Verdicts
ImplementsAccess == Access!Spec
=============================================================================
