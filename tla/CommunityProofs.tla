--------------------------- MODULE CommunityProofs ----------------------------
(***************************************************************************)
(* Theorems about Community, for any users, keys, clients and bound: types *)
(* and friendships, the library, and that downloads implement AccessBoard. *)
(***************************************************************************)
EXTENDS Community, TLAPS

-----------------------------------------------------------------------------
(* Types.  What a request carries depends on where it is: most know a key, *)
(* those that write a share or ask for a friend know two users.            *)

UserPcs == {"select", "update", "deleteRow", "deleteObject", "save", "share", "insert", "upsert",
            "revoke", "ask"}
KeyPcs  == (UserPcs \ {"ask"}) \cup {"increment", "open", "refused"}
PeerPcs == {"share", "insert", "revoke", "ask"}

Carries(c) ==
    /\ flight[c].pc \in UserPcs => flight[c].user \in Users
    /\ flight[c].pc \in KeyPcs => flight[c].key \in Keys
    /\ flight[c].pc \in PeerPcs => flight[c].peer \in Users

FlightCarries == \A c \in Clients : Carries(c)

TypeInv == TypeOK /\ FlightCarries

\* A request starts with a record of its type, and leaves the others alone.
LEMMA StartType ==
    ASSUME TypeInv, NEW c \in Clients, NEW pc \in Pcs, NEW u \in Users \cup {Nothing},
           NEW k \in Keys \cup {Nothing}, NEW v \in Users \cup {Nothing}, NEW etag \in Nat,
           Start(c, pc, u, k, v, etag),
           pc \in UserPcs => u \in Users, pc \in KeyPcs => k \in Keys, pc \in PeerPcs => v \in Users
    PROVE  /\ flight' \in [Clients -> [pc : Pcs, user : Users \cup {Nothing}, key : Keys \cup {Nothing},
                                       peer : Users \cup {Nothing}, etag : Nat]]
           /\ FlightCarries'
  BY DEF Start, TypeInv, TypeOK, FlightCarries, Carries

\* A request that goes on keeps what it knows.
LEMMA GotoType ==
    ASSUME TypeInv, NEW c \in Clients, NEW pc \in Pcs, Goto(c, pc),
           pc \in UserPcs => flight[c].user \in Users,
           pc \in KeyPcs => flight[c].key \in Keys,
           pc \in PeerPcs => flight[c].peer \in Users
    PROVE  /\ flight' \in [Clients -> [pc : Pcs, user : Users \cup {Nothing}, key : Keys \cup {Nothing},
                                       peer : Users \cup {Nothing}, etag : Nat]]
           /\ FlightCarries'
  BY DEF Goto, TypeInv, TypeOK, FlightCarries, Carries

\* A request that is over knows nothing.
LEMMA ReturnType ==
    ASSUME TypeInv, NEW c \in Clients, Return(c)
    PROVE  /\ flight' \in [Clients -> [pc : Pcs, user : Users \cup {Nothing}, key : Keys \cup {Nothing},
                                       peer : Users \cup {Nothing}, etag : Nat]]
           /\ FlightCarries'
  BY DEF Return, Idle, Pcs, UserPcs, KeyPcs, PeerPcs, TypeInv, TypeOK, FlightCarries, Carries

\* Updating a gif keeps its row a row.
LEMMA TouchType ==
    ASSUME TypeInv, NEW k \in Keys, Touch(k)
    PROVE  /\ gifs' \in [Keys -> Gif \cup {Nothing}]
           /\ \A i \in Keys : /\ gifs'[i] = Nothing <=> gifs[i] = Nothing
                              /\ gifs[i] # Nothing => gifs'[i].owner = gifs[i].owner
  BY LibraryAssumption DEF Touch, Gif, TypeInv, TypeOK, LibraryTypeOK

\* Requests are born with what they will need.
LEMMA RequestType ==
    ASSUME TypeInv, NEW c \in Clients, NEW u \in Users, NEW k \in Keys,
           MediaRequest(c, u, k) \/ ShareRequest(c, u, k), UNCHANGED friendships
    PROVE  TypeInv'
<1> USE DEF TypeInv, TypeOK, LibraryTypeOK, FriendshipsTypeOK, libraryVars
<1> DEFINE Into(pc) == \E v \in Users \cup {Nothing}, etag \in Nat :
                          Start(c, pc, u, k, v, etag) /\ (pc \in PeerPcs => v \in Users)
<1>1. ASSUME NEW pc \in UserPcs \ {"ask"}, Into(pc), UNCHANGED <<people, libraryVars>>
      PROVE  TypeInv'
  <2>1. PICK v \in Users \cup {Nothing}, etag \in Nat :
           Start(c, pc, u, k, v, etag) /\ (pc \in PeerPcs => v \in Users)
    BY <1>1
  <2>2. pc \in Pcs
    BY DEF Pcs, UserPcs
  <2> HIDE DEF Into
  <2>3. QED
    BY <1>1, <2>1, <2>2, StartType
<1>2. CASE Update(c, u, k)
  <2>1. gifs[k].version \in Nat /\ 0..gifs[k].version \subseteq Nat
    BY <1>2 DEF Update, Owns, Gif
  <2>2. Into("select")
    BY <1>2, <2>1 DEF Update, PeerPcs
  <2>3. QED
    BY <1>1, <1>2, <2>2 DEF Update, UserPcs
<1>3. CASE Delete(c, u, k)
  <2>1. Into("deleteRow")
    BY <1>3 DEF Delete, PeerPcs
  <2>2. QED
    BY <1>1, <1>3, <2>1 DEF Delete, UserPcs
<1>4. CASE Save(c, u, k)
  <2>1. Into("save")
    BY <1>4 DEF Save, PeerPcs
  <2>2. QED
    BY <1>1, <1>4, <2>1 DEF Save, UserPcs
<1>5. CASE Download(c, u, k)
  <2>1. gifs[k].owner \in Users
    BY <1>5 DEF Download, Gif
  <2>2. QED
    BY <1>1, <1>5, <2>1 DEF Download, UserPcs
<1>6. CASE CreateByToken(c, u, k)
  <2>1. Into("upsert")
    BY <1>6 DEF CreateByToken, PeerPcs
  <2>2. QED
    BY <1>1, <1>6, <2>1 DEF CreateByToken, UserPcs
<1>7. ASSUME NEW v \in Users, ShareGif(c, u, k, v) PROVE TypeInv'
  BY <1>1, <1>7 DEF ShareGif, UserPcs
<1>8. ASSUME NEW v \in Users, RevokeShare(c, u, k, v) PROVE TypeInv'
  BY <1>1, <1>8 DEF RevokeShare, UserPcs
<1>9. QED
  BY <1>2, <1>3, <1>4, <1>5, <1>6, <1>7, <1>8 DEF MediaRequest, ShareRequest

\* A link is opened by nobody in particular.
LEMMA LinkType ==
    ASSUME TypeInv, NEW c \in Clients, NEW k \in Keys, DownloadByToken(c, k), UNCHANGED friendships
    PROVE  TypeInv'
<1>1. PICK pc \in {"increment", "refused"} : Start(c, pc, Nothing, k, Nothing, 0)
  BY DEF DownloadByToken
<1>2. pc \in Pcs /\ pc \notin UserPcs /\ pc \notin PeerPcs
  BY DEF Pcs, UserPcs, PeerPcs
<1>3. QED
  BY <1>1, <1>2, StartType DEF DownloadByToken, TypeInv, TypeOK, LibraryTypeOK, FriendshipsTypeOK, libraryVars

\* Each later statement writes rows of their type, and knows enough to go on.
LEMMA StatementType ==
    ASSUME TypeInv, NEW c \in Clients, UNCHANGED friendships,
           \/ UpdateSelect(c) \/ UpdateCommit(c) \/ DeleteRow(c) \/ DeleteObject(c)
           \/ SaveRecent(c) \/ CheckShare(c) \/ IncrementDownload(c) \/ Answer(c)
           \/ InsertShare(c) \/ UpsertLink(c) \/ DeleteShare(c)
    PROVE  TypeInv'
<1> DEFINE f == flight[c]
           Kept == /\ flight' \in [Clients -> [pc : Pcs, user : Users \cup {Nothing}, key : Keys \cup {Nothing},
                                               peer : Users \cup {Nothing}, etag : Nat]]
                   /\ FlightCarries'
<1> USE DEF libraryVars, At
<1>1. /\ f.pc \in UserPcs => f.user \in Users
      /\ f.pc \in KeyPcs => f.key \in Keys
      /\ f.pc \in PeerPcs => f.peer \in Users
  BY DEF TypeInv, FlightCarries, Carries
<1>2. /\ people \subseteq Users
      /\ born \in [Keys -> {"none", "stored", "listed"}]
      /\ gifs \in [Keys -> Gif \cup {Nothing}]
      /\ objects \subseteq Keys
      /\ shares \in [Keys -> [Users -> Share \cup {Nothing}]]
      /\ links \in [Keys -> Link \cup {Nothing}]
  BY DEF TypeInv, TypeOK, LibraryTypeOK
<1>3. SUFFICES /\ Kept
               /\ people' \subseteq Users /\ objects' \subseteq Keys
               /\ born' \in [Keys -> {"none", "stored", "listed"}]
               /\ gifs' \in [Keys -> Gif \cup {Nothing}]
               /\ shares' \in [Keys -> [Users -> Share \cup {Nothing}]]
               /\ links' \in [Keys -> Link \cup {Nothing}]
  BY DEF TypeInv, TypeOK, LibraryTypeOK, FriendshipsTypeOK
<1>4. Return(c) => Kept
  BY ReturnType
<1>5. CASE UpdateSelect(c)
  <2>1. Goto(c, "update") => Kept
    BY <1>1, <1>5, GotoType DEF UpdateSelect, Pcs, UserPcs, KeyPcs, PeerPcs
  <2>2. QED
    BY <1>2, <1>4, <1>5, <2>1 DEF UpdateSelect
<1>6. CASE UpdateCommit(c)
  BY <1>1, <1>2, <1>4, <1>6, TouchType DEF UpdateCommit, UserPcs, KeyPcs
<1>7. CASE DeleteRow(c)
  <2>1. Kept
    BY <1>1, <1>7, GotoType DEF DeleteRow, Pcs, UserPcs, KeyPcs, PeerPcs
  <2>2. QED
    BY <1>2, <1>7, <2>1 DEF DeleteRow, DeleteGifs
<1>8. CASE DeleteObject(c)
  BY <1>2, <1>4, <1>8 DEF DeleteObject
<1>9. CASE SaveRecent(c)
  BY <1>1, <1>2, <1>4, <1>9, TouchType DEF SaveRecent, UserPcs, KeyPcs
<1>10. CASE CheckShare(c)
  <2>1. PICK pc \in {"increment", "refused"} : Goto(c, pc)
    BY <1>10 DEF CheckShare
  <2>2. Kept
    BY <1>1, <1>10, <2>1, GotoType DEF CheckShare, Pcs, UserPcs, KeyPcs, PeerPcs
  <2>3. QED
    BY <1>2, <1>10, <2>2 DEF CheckShare
<1>11. CASE IncrementDownload(c)
  <2>1. Kept
    BY <1>1, <1>11, GotoType DEF IncrementDownload, Pcs, UserPcs, KeyPcs, PeerPcs
  <2>2. QED
    BY <1>1, <1>2, <1>11, <2>1, TouchType DEF IncrementDownload, UserPcs, KeyPcs
<1>12. CASE Answer(c)
  BY <1>2, <1>4, <1>12 DEF Answer
<1>13. CASE InsertShare(c)
  <2>1. f.user \in Users /\ f.key \in Keys /\ f.peer \in Users
    BY <1>1, <1>13 DEF InsertShare, UserPcs, KeyPcs, PeerPcs
  <2>2. shares[f.key][f.peer] \in Share \cup {Nothing}
    BY <1>2, <2>1
  <2>3. [owner |-> f.user, live |-> TRUE] \in Share /\ \A sh \in Share : [sh EXCEPT !.live = TRUE] \in Share
    BY <2>1 DEF Share
  <2> DEFINE row == IF shares[f.key][f.peer] = Nothing
                    THEN [owner |-> f.user, live |-> TRUE]
                    ELSE [shares[f.key][f.peer] EXCEPT !.live = TRUE]
  <2>4. shares' \in [Keys -> [Users -> Share \cup {Nothing}]]
    <3>1. row \in Share
      BY <2>2, <2>3
    <3>2. shares' = [shares EXCEPT ![f.key] = [shares[f.key] EXCEPT ![f.peer] = row]] \/ shares' = shares
      <4>1. shares' = [shares EXCEPT ![f.key][f.peer] = row] \/ shares' = shares
        BY ONLY <1>13 DEF InsertShare
      <4> HIDE DEF row
      <4>2. QED
        BY <4>1, <1>2, <2>1
    <3> HIDE DEF row
    <3>3. [shares[f.key] EXCEPT ![f.peer] = row] \in [Users -> Share \cup {Nothing}]
      <4>1. shares[f.key] \in [Users -> Share \cup {Nothing}]
        BY <1>2, <2>1
      <4>2. QED
        BY <4>1, <2>1, <3>1
    <3>4. QED
      BY <1>2, <2>1, <3>2, <3>3
  <2>5. QED
    BY <1>2, <1>4, <1>13, <2>4 DEF InsertShare
<1>14. CASE UpsertLink(c)
  <2>1. f.user \in Users /\ f.key \in Keys
    BY <1>1, <1>14 DEF UpsertLink, UserPcs, KeyPcs
  <2>2. /\ [owner |-> f.user, token |-> <<"sha256", f.key>>, live |-> TRUE] \in Link
        /\ \A l \in Link : [l EXCEPT !.live = TRUE] \in Link
    <3> DEFINE Hashes == {<<"sha256", k>> : k \in Keys}
    <3>1. Link = [owner : Users, token : Hashes, live : BOOLEAN] /\ <<"sha256", f.key>> \in Hashes
      BY <2>1 DEF Link
    <3> HIDE DEF Hashes
    <3>2. QED
      BY <2>1, <3>1
  <2>3. \E l \in Link : links' \in {links, [links EXCEPT ![f.key] = l]}
    BY <1>2, <1>14, <2>1, <2>2 DEF UpsertLink
  <2>4. links' \in [Keys -> Link \cup {Nothing}]
    BY <1>2, <2>3
  <2>5. QED
    BY <1>2, <1>4, <1>14, <2>4 DEF UpsertLink
<1>15. CASE DeleteShare(c)
  BY <1>1, <1>2, <1>4, <1>15 DEF DeleteShare, UserPcs, KeyPcs, PeerPcs
<1>16. QED
  BY <1>5, <1>6, <1>7, <1>8, <1>9, <1>10, <1>11, <1>12, <1>13, <1>14, <1>15

\* So do the steps that are not of the library's requests.
LEMMA OtherType ==
    ASSUME TypeInv,
           \/ \E k \in Keys : StoreGif(k) \/ Expire(k) \/ (\E u \in Users : CreateGif(k, u))
           \/ \E u \in Users : DeleteUser(u),
           UNCHANGED friendships \/ \E u \in Users : DeleteUser(u)
    PROVE  TypeInv'
<1> USE DEF TypeInv, TypeOK, LibraryTypeOK, FriendshipsTypeOK, FlightCarries, Carries, libraryVars
<1>1. ASSUME NEW k \in Keys, StoreGif(k), UNCHANGED friendships PROVE TypeInv'
  BY <1>1 DEF StoreGif
<1>2. ASSUME NEW k \in Keys, NEW u \in Users, CreateGif(k, u), UNCHANGED friendships PROVE TypeInv'
  BY <1>2 DEF CreateGif, Gif
<1>3. ASSUME NEW k \in Keys, Expire(k), UNCHANGED friendships PROVE TypeInv'
  <2>1. /\ shares' \in [Keys -> [Users -> Share \cup {Nothing}]]
        /\ \E l \in Link \cup {Nothing} : links' \in {links, [links EXCEPT ![k] = l]}
    <3>1. \A l \in Link : [l EXCEPT !.live = FALSE] \in Link
      <4> DEFINE Hashes == {<<"sha256", i>> : i \in Keys}
      <4>1. Link = [owner : Users, token : Hashes, live : BOOLEAN]
        BY DEF Link
      <4> HIDE DEF Hashes
      <4>2. QED
        BY <4>1
    <3>2. ASSUME NEW v \in Users, ShareOwner(k, v) # Nothing,
                 shares' = [shares EXCEPT ![k][v].live = FALSE]
          PROVE  shares' \in [Keys -> [Users -> Share \cup {Nothing}]]
      <4>1. shares[k][v] \in Share
        BY <1>3, <3>2 DEF ShareOwner
      <4>2. [shares[k][v] EXCEPT !.live = FALSE] \in Share
        BY <4>1 DEF Share
      <4>3. shares' = [shares EXCEPT ![k][v] = [shares[k][v] EXCEPT !.live = FALSE]]
        BY <3>2
      <4>4. QED
        BY <1>3, <4>2, <4>3
    <3>3. links[k] # Nothing => links[k] \in Link
      BY <1>3
    <3>4. QED
      BY <1>3, <3>1, <3>2, <3>3 DEF Expire
  <2>2. QED
    BY <1>3, <2>1 DEF Expire
<1>4. ASSUME NEW u \in Users, DeleteUser(u) PROVE TypeInv'
  BY <1>4 DEF DeleteUser, DeleteGifs, FriendshipsOf
<1>5. QED
  BY <1>1, <1>2, <1>3, <1>4

\* Writing one row of a table of rows leaves a table of rows.
LEMMA PutRow ==
    ASSUME NEW A, NEW B, NEW S, NEW table \in [A -> [B -> S]], NEW a \in A, NEW b \in B, NEW row \in S,
           NEW new, new = [table EXCEPT ![a] = [table[a] EXCEPT ![b] = row]]
    PROVE  /\ new \in [A -> [B -> S]]
           /\ \A i \in A, j \in B : new[i][j] = IF i = a /\ j = b THEN row ELSE table[i][j]
<1>1. [table[a] EXCEPT ![b] = row] \in [B -> S]
  <2>1. table[a] \in [B -> S]
    OBVIOUS
  <2>2. QED
    BY <2>1
<1>2. QED
  BY <1>1

-----------------------------------------------------------------------------
(* Friendships: the row says who has agreed to it, whoever came first.     *)

RowOf(u, v) == friendships[u][v] = Nothing
               \/ friendships[u][v] \in {[status |-> "pending", agreed |-> {u}],
                                         [status |-> "accepted", agreed |-> {u, v}]}
FriendInv == \A u, v \in Users : RowOf(u, v)

\* No step of the friendships writes a row its ends have not agreed to.
LEMMA FriendshipStep ==
    ASSUME TypeInv, FriendInv, FriendshipsNext, UNCHANGED libraryVars
    PROVE  TypeInv' /\ FriendInv'
<1> DEFINE Table == [Users -> [Users -> Friendship \cup {Nothing}]]
<1>1. friendships \in Table /\ people \subseteq Users
  BY DEF TypeInv, TypeOK, FriendshipsTypeOK
<1>2. ASSUME NEW c \in Clients, NEW u \in Users, NEW v \in Users, SendRequest(c, u, v)
      PROVE  TypeInv' /\ FriendInv'
  <2>1. "ask" \in Pcs /\ "ask" \notin KeyPcs
    BY DEF Pcs, KeyPcs, UserPcs
  <2>2. QED
    BY <1>2, <2>1, StartType
    DEF SendRequest, FriendInv, RowOf, TypeInv, TypeOK, LibraryTypeOK, FriendshipsTypeOK, libraryVars
<1>3. ASSUME NEW u \in Users, NEW v \in Users,
             NEW row \in {[status |-> "pending", agreed |-> {u}], [status |-> "accepted", agreed |-> {u, v}], Nothing},
             friendships' = [friendships EXCEPT ![u] = [friendships[u] EXCEPT ![v] = row]]
      PROVE  friendships' \in Table /\ FriendInv'
  <2>1. row \in Friendship \cup {Nothing}
    BY <1>3 DEF Friendship
  <2>2. /\ friendships' \in Table
        /\ \A i \in Users, j \in Users :
              friendships'[i][j] = IF i = u /\ j = v THEN row ELSE friendships[i][j]
    BY <1>1, <1>3, <2>1, PutRow
  <2>3. QED
    BY <1>3, <2>2 DEF FriendInv, RowOf
<1>4. ASSUME NEW c \in Clients, Create(c) PROVE TypeInv' /\ FriendInv'
  <2> DEFINE u == flight[c].user  v == flight[c].peer
  <2>1. u \in Users /\ v \in Users
    BY <1>4 DEF Create, At, TypeInv, FlightCarries, Carries, UserPcs, PeerPcs
  <2>2. \/ friendships' = friendships
        \/ friendships' = [friendships EXCEPT ![u] =
                             [friendships[u] EXCEPT ![v] = [status |-> "pending", agreed |-> {u}]]]
    BY <1>4, <1>1, <2>1 DEF Create
  <2>3. friendships' \in Table /\ FriendInv'
    BY <1>1, <1>3, <2>1, <2>2 DEF FriendInv, RowOf
  <2>4. QED
    BY <1>4, <2>3, ReturnType DEF Create, TypeInv, TypeOK, LibraryTypeOK, FriendshipsTypeOK, libraryVars
<1>5. ASSUME UNCHANGED <<people, flight>>, friendships' \in Table, FriendInv'
      PROVE  TypeInv' /\ FriendInv'
  BY <1>5 DEF TypeInv, TypeOK, LibraryTypeOK, FriendshipsTypeOK, libraryVars, FlightCarries, Carries
<1>6. ASSUME NEW u \in Users, NEW v \in Users, NEW actor \in Users, Accept(u, v, actor)
      PROVE  TypeInv' /\ FriendInv'
  <2> DEFINE row == [status |-> "accepted", agreed |-> friendships[u][v].agreed \cup {v}]
  <2>1. friendships' = [friendships EXCEPT ![u][v] = row]
    BY <1>6 DEF Accept, UpdateStatus
  <2>2. row = [status |-> "accepted", agreed |-> {u, v}]
    <3>1. friendships[u][v] \in {[status |-> "pending", agreed |-> {u}],
                                [status |-> "accepted", agreed |-> {u, v}]}
      BY <1>6 DEF Accept, FriendInv, RowOf
    <3>2. friendships[u][v].agreed \cup {v} = {u, v}
      BY <3>1
    <3>3. QED
      BY <3>2
  <2> HIDE DEF row
  <2>3. QED
    BY <1>1, <1>3, <1>5, <1>6, <2>1, <2>2 DEF Accept
<1>7. ASSUME NEW u \in Users, NEW v \in Users, NEW actor \in Users, Reject(u, v, actor)
      PROVE  TypeInv' /\ FriendInv'
  <2>1. friendships' = [friendships EXCEPT ![u][v] = Nothing]
    BY <1>7 DEF Reject, DeleteFriendship
  <2>2. QED
    BY <1>1, <1>3, <1>5, <1>7, <2>1 DEF Reject
<1>8. QED
  BY <1>2, <1>4, <1>6, <1>7 DEF FriendshipsNext, Remove

\* Deleting a user deletes rows and writes none.
LEMMA DeleteUserFriends ==
    ASSUME TypeInv, FriendInv, NEW u \in Users, DeleteUser(u)
    PROVE  FriendInv'
BY DEF DeleteUser, FriendshipsOf, FriendInv, RowOf, TypeInv, TypeOK, FriendshipsTypeOK

\* The type invariant is inductive, and so is what the friendships' rows say.
LEMMA TypeStep ==
    ASSUME TypeInv, FriendInv, [Next]_vars
    PROVE  TypeInv' /\ FriendInv'
<1>1. CASE LibraryNext /\ UNCHANGED friendships
  <2>1. FriendInv'
    BY <1>1 DEF FriendInv, RowOf
  <2>2. TypeInv'
    BY <1>1, RequestType, LinkType, StatementType, OtherType DEF LibraryNext
  <2>3. QED
    BY <2>1, <2>2
<1>2. CASE FriendshipsNext /\ UNCHANGED libraryVars
  BY <1>2, FriendshipStep
<1>3. ASSUME NEW c \in Clients, Abandon(c), UNCHANGED <<libraryVars, friendships>>
      PROVE  TypeInv' /\ FriendInv'
  BY <1>3, ReturnType
  DEF Abandon, TypeInv, TypeOK, LibraryTypeOK, FriendshipsTypeOK, libraryVars, FriendInv, RowOf
<1>4. CASE \E u \in Users : DeleteUser(u)
  BY <1>4, OtherType, DeleteUserFriends
<1>5. CASE UNCHANGED vars
  BY <1>5 DEF vars, TypeInv, TypeOK, LibraryTypeOK, FriendshipsTypeOK, libraryVars, FriendInv, RowOf,
              FlightCarries, Carries
<1>6. QED
  BY <1>1, <1>2, <1>3, <1>4, <1>5 DEF Next

LEMMA TypeInit == Init => TypeInv /\ FriendInv
BY DEF Init, RequestsInit, LibraryInit, FriendshipsInit, Idle, TypeInv, TypeOK, LibraryTypeOK, Pcs,
       FriendshipsTypeOK, FriendInv, RowOf, FlightCarries, Carries, UserPcs, KeyPcs, PeerPcs

\* FriendsAgree: through crossed requests, late rejects, requests asked again and users who
\* go, whoever is listed as a friend has agreed to a row of the two, and each lists the other.
THEOREM FriendsAgreeAlways == Spec => []FriendsAgree
<1>1. TypeInv /\ FriendInv => FriendsAgree
  <2> SUFFICES ASSUME TypeInv, FriendInv PROVE FriendsAgreed /\ FriendListsAgree
    BY DEF FriendsAgree
  <2>1. FriendsAgreed
    BY DEF FriendsAgreed, ListFriends, FriendInv, RowOf, TypeInv, TypeOK
  <2>2. FriendListsAgree
    BY DEF FriendListsAgree, ListFriends
  <2>3. QED
    BY <2>1, <2>2
<1>2. QED
  BY <1>1, TypeInit, TypeStep, PTL DEF Spec

-----------------------------------------------------------------------------
(***************************************************************************)
(* The library: what holds of gifs, objects, shares and links through every *)
(* order of the requests' statements.  A request acts on what its first    *)
(* statement read; Knows says what is still true of that later.            *)
(***************************************************************************)

Born == \A k \in Keys : /\ gifs[k] # Nothing => born[k] = "listed" /\ k \in objects
                        /\ born[k] = "stored" => k \in objects

\* A gif never changes hands, and a key is never listed again.
Stays(k, u) == born[k] = "listed" /\ (gifs[k] # Nothing => gifs[k].owner = u)
Gone(k)     == born[k] = "listed" /\ gifs[k] = Nothing

KnowsOf(c) ==
    /\ flight[c].pc \in {"deleteRow", "insert", "upsert"} => Stays(flight[c].key, flight[c].user)
    /\ flight[c].pc = "share" => Stays(flight[c].key, flight[c].peer)
    /\ flight[c].pc = "deleteObject" => Gone(flight[c].key)
Knows == \A c \in Clients : KnowsOf(c)

\* The row an edit holds is held by no other, and has the version the edit compared.
HoldsOne == \A c, d \in Clients :
    At(c, "update") /\ At(d, "update") /\ flight[c].key = flight[d].key => c = d

LibraryInv == TypeInv /\ Born /\ Knows /\ GrantsAreOwners /\ EditSeesItsVersion /\ HoldsOne

-----------------------------------------------------------------------------
\* Whatever a step does to the rows: what a request knows of its key stays true.
LEMMA KnowledgeStays ==
    ASSUME LibraryInv, Next, NEW k \in Keys, NEW u
    PROVE  /\ Stays(k, u) => Stays(k, u)'
           /\ Gone(k) => Gone(k)'
<1> USE DEF Stays, Gone, libraryVars
<1>1. /\ gifs \in [Keys -> Gif \cup {Nothing}]
      /\ born \in [Keys -> {"none", "stored", "listed"}]
  BY DEF LibraryInv, TypeInv, TypeOK, LibraryTypeOK
<1>2. ASSUME NEW c \in Clients, DeleteRow(c) PROVE (Stays(k, u) => Stays(k, u)') /\ (Gone(k) => Gone(k)')
  BY <1>1, <1>2 DEF DeleteRow, DeleteGifs
<1>3. ASSUME NEW i \in Keys, Touch(i), born' = born
      PROVE  (Stays(k, u) => Stays(k, u)') /\ (Gone(k) => Gone(k)')
  BY <1>1, <1>3, TouchType DEF LibraryInv
<1>4. ASSUME NEW i \in Keys, NEW v \in Users, CreateGif(i, v)
      PROVE (Stays(k, u) => Stays(k, u)') /\ (Gone(k) => Gone(k)')
  BY <1>1, <1>4 DEF CreateGif
<1>5. ASSUME NEW i \in Keys, StoreGif(i)
      PROVE (Stays(k, u) => Stays(k, u)') /\ (Gone(k) => Gone(k)')
  BY <1>1, <1>5 DEF StoreGif
<1>6. ASSUME NEW v \in Users, DeleteUser(v)
      PROVE (Stays(k, u) => Stays(k, u)') /\ (Gone(k) => Gone(k)')
  BY <1>1, <1>6 DEF DeleteUser, DeleteGifs
<1>7. ASSUME UNCHANGED <<gifs, born>>
      PROVE (Stays(k, u) => Stays(k, u)') /\ (Gone(k) => Gone(k)')
  BY <1>7
<1>8. ASSUME NEW c \in Clients, UpdateCommit(c) \/ SaveRecent(c) \/ IncrementDownload(c)
      PROVE (Stays(k, u) => Stays(k, u)') /\ (Gone(k) => Gone(k)')
  <2>1. flight[c].key \in Keys
    BY <1>8 DEF UpdateCommit, SaveRecent, IncrementDownload, At, LibraryInv, TypeInv, FlightCarries, Carries,
                KeyPcs, UserPcs
  <2>2. QED
    BY <1>3, <1>8, <2>1 DEF UpdateCommit, SaveRecent, IncrementDownload
<1>9. ASSUME LibraryNext PROVE (Stays(k, u) => Stays(k, u)') /\ (Gone(k) => Gone(k)')
  <2>1. ASSUME NEW c \in Clients,
               \/ UpdateSelect(c) \/ DeleteObject(c) \/ CheckShare(c) \/ Answer(c)
               \/ InsertShare(c) \/ UpsertLink(c) \/ DeleteShare(c)
               \/ \E i \in Keys : DownloadByToken(c, i)
               \/ \E v \in Users, i \in Keys : MediaRequest(c, v, i) \/ ShareRequest(c, v, i)
        PROVE  UNCHANGED <<gifs, born>>
    BY <2>1 DEF UpdateSelect, DeleteObject, CheckShare, Answer, InsertShare, UpsertLink, DeleteShare,
                DownloadByToken, MediaRequest, ShareRequest, Update, Delete, Save, Download,
                CreateByToken, ShareGif, RevokeShare
  <2>2. ASSUME NEW i \in Keys, Expire(i) PROVE UNCHANGED <<gifs, born>>
    BY <2>2 DEF Expire
  <2>3. QED
    BY <1>2, <1>4, <1>5, <1>7, <1>8, <1>9, <2>1, <2>2 DEF LibraryNext
<1>10. QED
  BY <1>6, <1>7, <1>9 DEF Next, Abandon

-----------------------------------------------------------------------------
\* A request that does not move goes on knowing.
LEMMA KnowsStill ==
    ASSUME LibraryInv, Next, NEW d \in Clients, flight'[d] = flight[d]
    PROVE  KnowsOf(d)'
<1> DEFINE k == flight[d].key
<1>1. /\ flight[d].pc \in {"deleteRow", "insert", "upsert", "share", "deleteObject"} => k \in Keys
      /\ flight[d].pc \in {"deleteRow", "insert", "upsert"} => flight[d].user \in Users
      /\ flight[d].pc = "share" => flight[d].peer \in Users
  BY DEF LibraryInv, TypeInv, FlightCarries, Carries, UserPcs, KeyPcs, PeerPcs
<1>2. KnowsOf(d)
  BY DEF LibraryInv, Knows
<1>3. CASE flight[d].pc \in {"deleteRow", "insert", "upsert"}
  <2>1. Stays(k, flight[d].user)
    BY <1>2, <1>3 DEF KnowsOf
  <2>2. Stays(k, flight[d].user)'
    BY <1>1, <1>3, <2>1, KnowledgeStays
  <2>3. QED
    BY <1>3, <2>2 DEF KnowsOf, Stays
<1>4. CASE flight[d].pc = "share"
  <2>1. Stays(k, flight[d].peer)
    BY <1>2, <1>4 DEF KnowsOf
  <2>2. Stays(k, flight[d].peer)'
    BY <1>1, <1>4, <2>1, KnowledgeStays
  <2>3. QED
    BY <1>4, <2>2 DEF KnowsOf, Stays
<1>5. CASE flight[d].pc = "deleteObject"
  <2>1. Gone(k)
    BY <1>2, <1>5 DEF KnowsOf
  <2>2. Gone(k)'
    BY <1>1, <1>5, <2>1, KnowledgeStays
  <2>3. QED
    BY <1>5, <2>2 DEF KnowsOf, Gone
<1>6. QED
  BY <1>3, <1>4, <1>5 DEF KnowsOf

\* The moving request alone has to be looked at, and what it asserts anew.
LEMMA KnowsFrom ==
    ASSUME LibraryInv, Next, NEW c \in Clients,
           \A d \in Clients \ {c} : flight'[d] = flight[d],
           KnowsOf(c)'
    PROVE  Knows'
BY KnowsStill DEF Knows

\* A step of a client moves its request and no other.
LEMMA OthersStay ==
    ASSUME LibraryInv, NEW c \in Clients,
           \/ \E pc \in Pcs : \E u, k, v, etag : Start(c, pc, u, k, v, etag)
           \/ \E pc \in Pcs : Goto(c, pc)
           \/ Return(c)
    PROVE  \A d \in Clients \ {c} : flight'[d] = flight[d]
BY DEF Start, Goto, Return, LibraryInv, TypeInv, TypeOK

\* What the requests know stays true through every step.
LEMMA KnowsStep ==
    ASSUME LibraryInv, Next
    PROVE  Knows'
<1> USE DEF KnowsOf, Stays, Gone, libraryVars, At
<1>1. /\ flight \in [Clients -> [pc : Pcs, user : Users \cup {Nothing}, key : Keys \cup {Nothing},
                                 peer : Users \cup {Nothing}, etag : Nat]]
      /\ gifs \in [Keys -> Gif \cup {Nothing}]
      /\ Born /\ Knows
  BY DEF LibraryInv, TypeInv, TypeOK, LibraryTypeOK
<1>2. ASSUME UNCHANGED flight PROVE Knows'
  BY <1>2, KnowsStill DEF Knows
<1>3. ASSUME NEW c \in Clients, Return(c) PROVE Knows'
  <2>1. KnowsOf(c)'
    BY <1>1, <1>3 DEF Return, Idle
  <2>2. QED
    BY <1>3, <2>1, KnowsFrom, OthersStay
<1>4. ASSUME NEW c \in Clients, NEW pc \in Pcs, Goto(c, pc), pc \notin {"deleteRow", "insert", "upsert", "share"},
             pc = "deleteObject" => Gone(flight[c].key)'
      PROVE Knows'
  <2>1. flight'[c].pc = pc /\ flight'[c].key = flight[c].key
    BY <1>1, <1>4 DEF Goto
  <2>2. KnowsOf(c)'
    BY <1>4, <2>1
  <2>3. QED
    BY <1>4, <2>2, KnowsFrom, OthersStay
<1>5. ASSUME NEW c \in Clients, NEW pc \in Pcs \ {"deleteObject"},
             NEW u \in Users \cup {Nothing}, NEW k \in Keys \cup {Nothing},
             NEW v \in Users \cup {Nothing}, NEW etag \in Nat, Start(c, pc, u, k, v, etag),
             pc \in {"deleteRow", "insert", "upsert"} => Stays(k, u)',
             pc = "share" => Stays(k, v)'
      PROVE Knows'
  <2>1. flight'[c] = [pc |-> pc, user |-> u, key |-> k, peer |-> v, etag |-> etag]
    BY <1>1, <1>5 DEF Start
  <2>2. KnowsOf(c)'
    BY <1>5, <2>1
  <2>3. QED
    BY <1>5, <2>2, KnowsFrom, OthersStay
<1>6. ASSUME NEW c \in Clients, NEW u \in Users, NEW k \in Keys, MediaRequest(c, u, k) PROVE Knows'
  <2> HIDE DEF KnowsOf
  <2>1. {"select", "deleteRow", "save", "share"} \subseteq Pcs \ {"deleteObject"}
    BY DEF Pcs
  <2>2. Update(c, u, k) => Knows'
    <3>1. Owns(u, k) => 0..gifs[k].version \subseteq Nat
      BY <1>1
    <3>2. QED
      BY <1>5, <2>1, <3>1 DEF Update
  <2>3. Delete(c, u, k) => Knows'
    BY <1>1, <1>5, <2>1 DEF Delete, Owns, Born
  <2>4. Save(c, u, k) => Knows'
    BY <1>5, <2>1 DEF Save
  <2>5. Download(c, u, k) => Knows'
    BY <1>1, <1>5, <2>1 DEF Download, Born, Gif
  <2>6. QED
    BY <1>6, <2>2, <2>3, <2>4, <2>5 DEF MediaRequest
<1>7. ASSUME NEW c \in Clients, NEW u \in Users, NEW k \in Keys, ShareRequest(c, u, k) PROVE Knows'
  <2> HIDE DEF KnowsOf
  <2>1. {"upsert", "insert", "revoke"} \subseteq Pcs \ {"deleteObject"}
    BY DEF Pcs
  <2>2. CreateByToken(c, u, k) => Knows'
    BY <1>1, <1>5, <2>1 DEF CreateByToken, Owns, Born
  <2>3. ASSUME NEW v \in Users, ShareGif(c, u, k, v) PROVE Knows'
    BY <1>1, <1>5, <2>1, <2>3 DEF ShareGif, Owns, Born
  <2>4. ASSUME NEW v \in Users, RevokeShare(c, u, k, v) PROVE Knows'
    BY <1>5, <2>1, <2>4 DEF RevokeShare
  <2>5. QED
    BY <1>7, <2>2, <2>3, <2>4 DEF ShareRequest
<1>8. ASSUME NEW c \in Clients, NEW k \in Keys, DownloadByToken(c, k) PROVE Knows'
  <2>1. {"increment", "refused"} \subseteq Pcs \ {"deleteObject"}
    BY DEF Pcs
  <2>2. QED
    BY <1>5, <1>8, <2>1 DEF DownloadByToken
<1>9. ASSUME NEW c \in Clients, UpdateSelect(c) \/ CheckShare(c) \/ IncrementDownload(c) PROVE Knows'
  <2>1. {"update", "increment", "refused", "open"} \subseteq Pcs
    BY DEF Pcs
  <2>2. QED
    BY <1>3, <1>4, <1>9, <2>1 DEF UpdateSelect, CheckShare, IncrementDownload
<1>10. ASSUME NEW c \in Clients, DeleteRow(c) PROVE Knows'
  <2>1. "deleteObject" \in Pcs
    BY DEF Pcs
  <2>2. flight[c].key \in Keys /\ born[flight[c].key] = "listed"
    BY <1>1, <1>10 DEF DeleteRow, Knows, LibraryInv, TypeInv, FlightCarries, Carries, UserPcs, KeyPcs
  <2>3. gifs'[flight[c].key] = Nothing /\ born' = born
    BY <1>10, <2>2 DEF DeleteRow, DeleteGifs
  <2>4. flight'[c].key = flight[c].key
    BY <1>1, <1>10 DEF DeleteRow, Goto
  <2>5. QED
    BY <1>4, <1>10, <2>1, <2>2, <2>3, <2>4 DEF DeleteRow
<1>11. CASE LibraryNext
  <2>1. ASSUME NEW c \in Clients, \/ UpdateCommit(c) \/ DeleteObject(c) \/ SaveRecent(c) \/ Answer(c)
                                   \/ InsertShare(c) \/ UpsertLink(c) \/ DeleteShare(c)
        PROVE Return(c)
    BY <2>1 DEF UpdateCommit, DeleteObject, SaveRecent, Answer, InsertShare, UpsertLink, DeleteShare
  <2>2. ASSUME NEW k \in Keys, StoreGif(k) \/ Expire(k) \/ \E u \in Users : CreateGif(k, u)
        PROVE UNCHANGED flight
    BY <2>2 DEF StoreGif, Expire, CreateGif
  <2>3. QED
    BY <1>2, <1>3, <1>6, <1>7, <1>8, <1>9, <1>10, <1>11, <2>1, <2>2 DEF LibraryNext
<1>12. CASE FriendshipsNext /\ UNCHANGED libraryVars
  <2>1. ASSUME NEW c \in Clients, NEW u \in Users, NEW v \in Users, SendRequest(c, u, v) PROVE Knows'
    <3>1. "ask" \in Pcs \ {"deleteObject"}
      BY DEF Pcs
    <3>2. QED
      BY <1>5, <2>1, <3>1 DEF SendRequest
  <2>2. ASSUME NEW c \in Clients, Create(c) PROVE Knows'
    BY <1>3, <2>2 DEF Create
  <2>3. ASSUME NEW u, NEW v, NEW actor, Accept(u, v, actor) \/ Reject(u, v, actor) PROVE Knows'
    BY <1>2, <2>3 DEF Accept, Reject
  <2>4. QED
    BY <1>12, <2>1, <2>2, <2>3 DEF FriendshipsNext, Remove
<1>13. QED
  BY <1>2, <1>3, <1>11, <1>12 DEF Next, Abandon, DeleteUser

-----------------------------------------------------------------------------
\* What each kind of statement knows of its key.
LEMMA Known ==
    ASSUME LibraryInv, NEW c \in Clients
    PROVE  /\ flight[c].pc \in KeyPcs => flight[c].key \in Keys
           /\ flight[c].pc \in UserPcs => flight[c].user \in Users
           /\ flight[c].pc \in PeerPcs => flight[c].peer \in Users
           /\ KnowsOf(c)
BY DEF LibraryInv, Knows, TypeInv, FlightCarries, Carries

\* The steps that write neither rows nor objects.
Quiet == UNCHANGED <<people, libraryVars>>
LEMMA QuietSteps ==
    ASSUME LibraryNext
    PROVE  \/ Quiet
           \/ \E k \in Keys : StoreGif(k) \/ Expire(k) \/ (\E u \in Users : CreateGif(k, u))
           \/ \E c \in Clients :
                 \/ UpdateCommit(c) \/ DeleteRow(c) \/ DeleteObject(c) \/ SaveRecent(c)
                 \/ IncrementDownload(c) \/ InsertShare(c) \/ UpsertLink(c) \/ DeleteShare(c)
BY DEF LibraryNext, Quiet, UpdateSelect, CheckShare, Answer, DownloadByToken, MediaRequest, ShareRequest,
       Update, Delete, Save, Download, CreateByToken, ShareGif, RevokeShare

\* A statement that updates a gif updates the one its request is about.
LEMMA TouchSteps ==
    ASSUME LibraryInv, NEW c \in Clients, UpdateCommit(c) \/ SaveRecent(c) \/ IncrementDownload(c)
    PROVE  /\ flight[c].key \in Keys /\ Touch(flight[c].key)
           /\ UNCHANGED <<people, born, objects, shares, links>>
BY Known DEF UpdateCommit, SaveRecent, IncrementDownload, At, KeyPcs, UserPcs

\* RowHasObject is preserved: the row goes before its object, and no row comes back.
LEMMA BornStep ==
    ASSUME LibraryInv, Next
    PROVE  Born'
<1> USE DEF Born, libraryVars
<1>1. /\ gifs \in [Keys -> Gif \cup {Nothing}]
      /\ born \in [Keys -> {"none", "stored", "listed"}]
      /\ Born
  BY DEF LibraryInv, TypeInv, TypeOK, LibraryTypeOK
<1>2. ASSUME UNCHANGED <<born, gifs, objects>> PROVE Born'
  BY <1>1, <1>2
<1>3. ASSUME NEW k \in Keys, StoreGif(k) PROVE Born'
  BY <1>1, <1>3 DEF StoreGif
<1>4. ASSUME NEW k \in Keys, NEW u \in Users, CreateGif(k, u) PROVE Born'
  BY <1>1, <1>4 DEF CreateGif
<1>5. ASSUME NEW c \in Clients, UpdateCommit(c) \/ SaveRecent(c) \/ IncrementDownload(c) PROVE Born'
  BY <1>1, <1>5, TouchSteps, TouchType DEF LibraryInv
<1>6. ASSUME NEW c \in Clients, DeleteRow(c) PROVE Born'
  BY <1>1, <1>6 DEF DeleteRow, DeleteGifs
<1>7. ASSUME NEW c \in Clients, DeleteObject(c) PROVE Born'
  <2>1. Gone(flight[c].key)
    BY <1>7, Known DEF DeleteObject, At, KnowsOf
  <2>2. QED
    BY <1>1, <1>7, <2>1 DEF DeleteObject, Gone
<1>8. ASSUME NEW u \in Users, DeleteUser(u) PROVE Born'
  BY <1>1, <1>8 DEF DeleteUser, DeleteGifs
<1>9. CASE LibraryNext
  BY <1>2, <1>3, <1>4, <1>5, <1>6, <1>7, <1>9, QuietSteps
  DEF Quiet, Expire, InsertShare, UpsertLink, DeleteShare
<1>10. QED
  BY <1>2, <1>8, <1>9 DEF Next, Abandon

\* GrantsAreOwners is preserved: an insert finds the gif it was asked for, or no gif.
LEMMA GrantStep ==
    ASSUME LibraryInv, Next
    PROVE  GrantsAreOwners'
<1> USE DEF GrantsAreOwners, Owns, libraryVars
<1>1. /\ gifs \in [Keys -> Gif \cup {Nothing}]
      /\ born \in [Keys -> {"none", "stored", "listed"}]
      /\ shares \in [Keys -> [Users -> Share \cup {Nothing}]]
      /\ links \in [Keys -> Link \cup {Nothing}]
      /\ Born /\ GrantsAreOwners
  BY DEF LibraryInv, TypeInv, TypeOK, LibraryTypeOK
<1>2. ASSUME UNCHANGED <<people, gifs, shares, links>> PROVE GrantsAreOwners'
  BY <1>1, <1>2
<1>3. ASSUME NEW k \in Keys, Expire(k) PROVE GrantsAreOwners'
  <2>1. ASSUME NEW v \in Users, ShareOwner(k, v) # Nothing, shares' = [shares EXCEPT ![k][v].live = FALSE],
               UNCHANGED links
        PROVE  GrantsAreOwners'
    <3> DEFINE row == [shares[k][v] EXCEPT !.live = FALSE]
    <3>1. shares[k][v] \in Share
      BY <1>1, <2>1 DEF ShareOwner
    <3>2. row \in Share /\ row.owner = shares[k][v].owner
      BY <3>1 DEF Share
    <3>3. shares' = [shares EXCEPT ![k] = [shares[k] EXCEPT ![v] = row]]
      BY <2>1
    <3> HIDE DEF row
    <3>4. \A i \in Keys, j \in Users : shares'[i][j] = IF i = k /\ j = v THEN row ELSE shares[i][j]
      BY <1>1, <3>2, <3>3, PutRow
    <3>5. QED
      BY <1>1, <1>3, <2>1, <3>1, <3>2, <3>4, LibraryAssumption DEF Expire
  <2>2. ASSUME links[k] # Nothing, links' = [links EXCEPT ![k].live = FALSE], UNCHANGED shares
        PROVE  GrantsAreOwners'
    <3>1. \A i \in Keys : links'[i] # Nothing => links[i] # Nothing /\ links'[i].owner = links[i].owner
      <4>1. links[k] \in Link
        BY <1>1, <2>2
      <4>2. [links[k] EXCEPT !.live = FALSE].owner = links[k].owner
        BY <4>1 DEF Link
      <4>3. links' = [links EXCEPT ![k] = [links[k] EXCEPT !.live = FALSE]]
        BY <2>2
      <4>4. QED
        BY <1>1, <2>2, <4>2, <4>3
    <3>2. QED
      BY <1>1, <1>3, <2>2, <3>1 DEF Expire
  <2>3. QED
    BY <1>3, <2>1, <2>2 DEF Expire
<1>4. ASSUME NEW k \in Keys, NEW u \in Users, CreateGif(k, u) PROVE GrantsAreOwners'
  BY <1>1, <1>4 DEF CreateGif, Born
<1>5. ASSUME NEW c \in Clients, UpdateCommit(c) \/ SaveRecent(c) \/ IncrementDownload(c) PROVE GrantsAreOwners'
  BY <1>1, <1>5, TouchSteps, TouchType DEF LibraryInv
<1>6. ASSUME NEW c \in Clients, DeleteRow(c) PROVE GrantsAreOwners'
  <2>1. flight[c].key \in Keys
    BY <1>6, Known DEF DeleteRow, At, KeyPcs, UserPcs
  <2>2. QED
    BY <1>1, <1>6, <2>1 DEF DeleteRow, DeleteGifs
<1>7. ASSUME NEW c \in Clients, InsertShare(c) PROVE GrantsAreOwners'
  <2> DEFINE k == flight[c].key  v == flight[c].peer
             row == IF shares[k][v] = Nothing
                    THEN [owner |-> flight[c].user, live |-> TRUE]
                    ELSE [shares[k][v] EXCEPT !.live = TRUE]
  <2>1. k \in Keys /\ v \in Users /\ flight[c].user \in Users /\ Stays(k, flight[c].user)
    BY <1>7, Known DEF InsertShare, At, KeyPcs, UserPcs, PeerPcs, KnowsOf
  <2>2. CASE shares' = shares
    BY <1>2, <1>7, <2>2 DEF InsertShare
  <2>3. CASE gifs[k] # Nothing /\ v \in people /\ shares' = [shares EXCEPT ![k][v] = row]
    <3>1. row \in Share /\ Owns(row.owner, k)
      <4>1. CASE shares[k][v] = Nothing
        BY <2>1, <2>3, <4>1 DEF Share, Stays
      <4>2. CASE shares[k][v] # Nothing
        <5>1. shares[k][v] \in Share
          BY <1>1, <2>1, <4>2
        <5>2. row \in Share /\ row.owner = shares[k][v].owner
          BY <4>2, <5>1 DEF Share
        <5>3. QED
          BY <1>1, <2>1, <4>2, <5>2
      <4>3. QED
        BY <4>1, <4>2
    <3> HIDE DEF row
    <3>2. shares' = [shares EXCEPT ![k] = [shares[k] EXCEPT ![v] = row]]
      BY <2>3
    <3>3. \A i \in Keys, j \in Users : shares'[i][j] = IF i = k /\ j = v THEN row ELSE shares[i][j]
      BY <1>1, <2>1, <3>1, <3>2, PutRow
    <3>4. gifs' = gifs /\ links' = links /\ people' = people
      BY <1>7 DEF InsertShare
    <3>5. ASSUME NEW i \in Keys, NEW j \in Users, shares'[i][j] # Nothing
          PROVE  gifs[i] # Nothing /\ gifs[i].owner = shares'[i][j].owner /\ j \in people
      <4>1. CASE i = k /\ j = v
        BY <2>3, <3>1, <3>3, <4>1 DEF Owns
      <4>2. CASE ~(i = k /\ j = v)
        <5>1. shares[i][j] # Nothing /\ shares'[i][j] = shares[i][j]
          BY <3>3, <3>5, <4>2
        <5>2. QED
          BY <1>1, <5>1 DEF GrantsAreOwners, Owns
      <4>3. QED
        BY <4>1, <4>2
    <3>6. QED
      BY <1>1, <3>4, <3>5 DEF GrantsAreOwners, Owns
  <2>4. QED
    BY <1>7, <2>2, <2>3 DEF InsertShare
<1>8. ASSUME NEW c \in Clients, UpsertLink(c) PROVE GrantsAreOwners'
  <2> DEFINE k == flight[c].key
             row == IF links[k] = Nothing
                    THEN [owner |-> flight[c].user, token |-> <<"sha256", k>>, live |-> TRUE]
                    ELSE [links[k] EXCEPT !.live = TRUE]
  <2>1. k \in Keys /\ flight[c].user \in Users /\ Stays(k, flight[c].user)
    BY <1>8, Known DEF UpsertLink, At, KeyPcs, UserPcs, KnowsOf
  <2>2. CASE links' = links
    BY <1>2, <1>8, <2>2 DEF UpsertLink
  <2>3. CASE gifs[k] # Nothing /\ links' = [links EXCEPT ![k] = row]
    <3>1. Owns(row.owner, k)
      <4>1. CASE links[k] = Nothing
        BY <2>1, <2>3, <4>1 DEF Stays
      <4>2. CASE links[k] # Nothing
        <5>1. links[k] \in Link
          BY <1>1, <2>1, <4>2
        <5>2. row.owner = links[k].owner
          BY <4>2, <5>1 DEF Link
        <5>3. QED
          BY <1>1, <2>1, <4>2, <5>2
      <4>3. QED
        BY <4>1, <4>2
    <3> HIDE DEF row
    <3>2. \A i \in Keys : links'[i] = IF i = k THEN row ELSE links[i]
      BY <1>1, <2>1, <2>3
    <3>3. QED
      BY <1>1, <1>8, <2>1, <2>3, <3>1, <3>2 DEF UpsertLink
  <2>4. QED
    BY <1>8, <2>2, <2>3 DEF UpsertLink
<1>9. ASSUME NEW c \in Clients, DeleteShare(c) PROVE GrantsAreOwners'
  <2>1. flight[c].key \in Keys /\ flight[c].peer \in Users
    BY <1>9, Known DEF DeleteShare, At, KeyPcs, UserPcs, PeerPcs
  <2>2. \A i \in Keys, j \in Users : shares'[i][j] \in {shares[i][j], Nothing}
    BY <1>1, <1>9, <2>1 DEF DeleteShare
  <2>3. QED
    BY <1>1, <1>9, <2>2 DEF DeleteShare
<1>10. ASSUME NEW u \in Users, DeleteUser(u) PROVE GrantsAreOwners'
  BY <1>1, <1>10 DEF DeleteUser, DeleteGifs, GetGifs
<1>11. CASE LibraryNext
  BY <1>2, <1>3, <1>4, <1>5, <1>6, <1>7, <1>8, <1>9, <1>11, QuietSteps
  DEF Quiet, StoreGif, DeleteObject
<1>12. QED
  <2>1. FriendshipsNext /\ UNCHANGED libraryVars => UNCHANGED <<people, gifs, shares, links>>
    BY DEF FriendshipsNext, SendRequest, Create, Accept, Reject, Remove
  <2>2. QED
    BY <1>2, <1>10, <1>11, <2>1 DEF Next, Abandon

-----------------------------------------------------------------------------
\* A row an edit holds is not written until that edit is over.
LEMMA HeldRowStays ==
    ASSUME LibraryInv, Next, NEW c \in Clients, At(c, "update"), At(c, "update")'
    PROVE  gifs'[flight[c].key] = gifs[flight[c].key]
<1> DEFINE k == flight[c].key
<1>1. /\ gifs \in [Keys -> Gif \cup {Nothing}]
      /\ born \in [Keys -> {"none", "stored", "listed"}]
      /\ \A d \in Clients : flight[d] \in [pc : Pcs, user : Users \cup {Nothing}, key : Keys \cup {Nothing},
                                          peer : Users \cup {Nothing}, etag : Nat]
      /\ Born
  BY DEF LibraryInv, TypeInv, TypeOK, LibraryTypeOK
<1>2. k \in Keys /\ Locked(k) /\ gifs[k] # Nothing
  BY Known DEF At, KeyPcs, UserPcs, Locked, LibraryInv, EditSeesItsVersion
<1>3. CASE UNCHANGED gifs
  BY <1>3
<1>4. ASSUME NEW i \in Keys, NEW u \in Users, CreateGif(i, u) PROVE gifs'[k] = gifs[k]
  BY <1>1, <1>2, <1>4 DEF CreateGif, Born
<1>5. ASSUME NEW d \in Clients, UpdateCommit(d) \/ SaveRecent(d) \/ IncrementDownload(d)
      PROVE  gifs'[k] = gifs[k]
  <2>1. flight[d].key \in Keys /\ Touch(flight[d].key)
    BY <1>5, TouchSteps
  <2>2. flight[d].key # k
    <3>1. CASE UpdateCommit(d)
      <4>1. ~At(d, "update")'
        <5>1. flight'[d] = Idle
          BY <3>1 DEF UpdateCommit, Return, LibraryInv, TypeInv, TypeOK
        <5>2. QED
          BY <5>1 DEF At, Idle
      <4>2. c # d
        BY <4>1
      <4>3. QED
        BY <3>1, <4>2 DEF UpdateCommit, LibraryInv, HoldsOne
    <3>2. CASE SaveRecent(d) \/ IncrementDownload(d)
      BY <1>2, <3>2 DEF SaveRecent, IncrementDownload
    <3>3. QED
      BY <1>5, <3>1, <3>2
  <2>3. QED
    BY <1>1, <1>2, <2>1, <2>2 DEF Touch
<1>6. ASSUME NEW d \in Clients, DeleteRow(d) PROVE gifs'[k] = gifs[k]
  BY <1>1, <1>2, <1>6 DEF DeleteRow, DeleteGifs
<1>7. ASSUME NEW u \in Users, DeleteUser(u) PROVE gifs'[k] = gifs[k]
  BY <1>1, <1>2, <1>7 DEF DeleteUser, DeleteGifs
<1>8. CASE LibraryNext
  BY <1>3, <1>4, <1>5, <1>6, <1>8, QuietSteps
  DEF Quiet, libraryVars, StoreGif, Expire, DeleteObject, InsertShare, UpsertLink, DeleteShare
<1>9. QED
  BY <1>3, <1>7, <1>8 DEF Next, Abandon, libraryVars

\* An edit comes to hold its row by finding it free, with the version it was given.
LEMMA HoldsSince ==
    ASSUME LibraryInv, Next, NEW c \in Clients, At(c, "update")'
    PROVE  \/ At(c, "update") /\ flight'[c] = flight[c]
           \/ /\ UpdateSelect(c) /\ ~Locked(flight[c].key) /\ UNCHANGED gifs
              /\ gifs[flight[c].key] # Nothing /\ gifs[flight[c].key].version = flight[c].etag
              /\ flight'[c].key = flight[c].key /\ flight'[c].etag = flight[c].etag
              /\ \A d \in Clients \ {c} : flight'[d] = flight[d]
<1> USE DEF At, libraryVars
<1>1. flight \in [Clients -> [pc : Pcs, user : Users \cup {Nothing}, key : Keys \cup {Nothing},
                              peer : Users \cup {Nothing}, etag : Nat]]
  BY DEF LibraryInv, TypeInv, TypeOK
<1> DEFINE Goal == (At(c, "update") /\ flight'[c] = flight[c]) \/
                   (/\ UpdateSelect(c) /\ ~Locked(flight[c].key) /\ UNCHANGED gifs
                    /\ gifs[flight[c].key] # Nothing /\ gifs[flight[c].key].version = flight[c].etag
                    /\ flight'[c].key = flight[c].key /\ flight'[c].etag = flight[c].etag
                    /\ \A d \in Clients \ {c} : flight'[d] = flight[d])
<1> SUFFICES Goal
  OBVIOUS
<1>2. ASSUME UNCHANGED flight PROVE Goal
  BY <1>2
<1>3. ASSUME NEW d \in Clients, Return(d) PROVE Goal
  BY <1>1, <1>3 DEF Return, Idle
<1>4. ASSUME NEW d \in Clients, NEW pc, Goto(d, pc), pc # "update" PROVE Goal
  BY <1>1, <1>4 DEF Goto
<1>5. ASSUME NEW d \in Clients, NEW pc, NEW u, NEW k, NEW v, NEW etag, Start(d, pc, u, k, v, etag), pc # "update"
      PROVE Goal
  BY <1>1, <1>5 DEF Start
<1>6. ASSUME NEW d \in Clients, UpdateSelect(d) PROVE Goal
  <2>1. CASE Goto(d, "update") /\ gifs[flight[d].key] # Nothing /\ gifs[flight[d].key].version = flight[d].etag
    <3>1. flight' = [flight EXCEPT ![d].pc = "update"] /\ UNCHANGED gifs /\ ~Locked(flight[d].key)
      BY <1>6, <2>1 DEF UpdateSelect, Goto
    <3>2. CASE c = d
      <4>1. flight'[c].key = flight[c].key /\ flight'[c].etag = flight[c].etag
        BY <1>1, <3>1, <3>2
      <4>2. \A i \in Clients \ {c} : flight'[i] = flight[i]
        BY <1>1, <3>1, <3>2
      <4>3. QED
        BY <1>6, <2>1, <3>1, <3>2, <4>1, <4>2
    <3>3. CASE c # d
      BY <1>1, <3>1, <3>3
    <3>4. QED
      BY <3>2, <3>3
  <2>2. QED
    BY <1>3, <1>6, <2>1 DEF UpdateSelect
<1> HIDE DEF Goal, At, libraryVars
<1>7. ASSUME NEW d \in Clients, NEW u \in Users, NEW k \in Keys, MediaRequest(d, u, k) \/ ShareRequest(d, u, k)
      PROVE Goal
  BY <1>5, <1>7 DEF MediaRequest, ShareRequest, Update, Delete, Save, Download, CreateByToken, ShareGif, RevokeShare
<1>8. ASSUME NEW d \in Clients, NEW k \in Keys, DownloadByToken(d, k) PROVE Goal
  BY <1>5, <1>8 DEF DownloadByToken
<1>9. CASE LibraryNext
  <2>1. ASSUME NEW d \in Clients, DeleteRow(d) \/ CheckShare(d) \/ IncrementDownload(d) PROVE Goal
    BY <1>4, <2>1 DEF DeleteRow, CheckShare, IncrementDownload
  <2>2. ASSUME NEW d \in Clients, \/ UpdateCommit(d) \/ DeleteObject(d) \/ SaveRecent(d) \/ Answer(d)
                                   \/ InsertShare(d) \/ UpsertLink(d) \/ DeleteShare(d)
        PROVE Goal
    BY <1>3, <2>2 DEF UpdateCommit, DeleteObject, SaveRecent, Answer, InsertShare, UpsertLink, DeleteShare
  <2>3. ASSUME NEW k \in Keys, StoreGif(k) \/ Expire(k) \/ \E u \in Users : CreateGif(k, u) PROVE Goal
    BY <1>2, <2>3 DEF StoreGif, Expire, CreateGif
  <2>4. QED
    BY <1>6, <1>7, <1>8, <1>9, <2>1, <2>2, <2>3 DEF LibraryNext
<1>10. CASE FriendshipsNext
  <2>1. ASSUME NEW d \in Clients, NEW u \in Users, NEW v \in Users, SendRequest(d, u, v) PROVE Goal
    BY <1>5, <2>1 DEF SendRequest
  <2>2. ASSUME NEW d \in Clients, Create(d) PROVE Goal
    BY <1>3, <2>2 DEF Create
  <2>3. ASSUME NEW u, NEW v, NEW actor, Accept(u, v, actor) \/ Reject(u, v, actor) PROVE Goal
    BY <1>2, <2>3 DEF Accept, Reject
  <2>4. QED
    BY <1>10, <2>1, <2>2, <2>3 DEF FriendshipsNext, Remove
<1>11. QED
  <2>1. ASSUME NEW d \in Clients, Abandon(d) PROVE Goal
    BY <1>3, <2>1 DEF Abandon
  <2>2. ASSUME NEW u \in Users, DeleteUser(u) PROVE Goal
    BY <1>2, <2>2 DEF DeleteUser
  <2>3. QED
    BY <1>9, <1>10, <2>1, <2>2 DEF Next

\* EditSeesItsVersion is preserved: whoever would write a held row waits.
LEMMA EditStep ==
    ASSUME LibraryInv, Next
    PROVE  EditSeesItsVersion' /\ HoldsOne'
<1>1. EditSeesItsVersion /\ HoldsOne
  BY DEF LibraryInv
<1>2. ASSUME NEW c \in Clients, At(c, "update")'
      PROVE  gifs'[flight'[c].key] # Nothing /\ gifs'[flight'[c].key].version = flight'[c].etag
  BY <1>1, <1>2, HoldsSince, HeldRowStays DEF EditSeesItsVersion
<1>3. ASSUME NEW c \in Clients, NEW d \in Clients, At(c, "update")', At(d, "update")',
             flight'[c].key = flight'[d].key
      PROVE  c = d
  <2>1. SUFFICES ASSUME c # d PROVE FALSE
    OBVIOUS
  <2>2. CASE At(c, "update") /\ flight'[c] = flight[c] /\ At(d, "update") /\ flight'[d] = flight[d]
    BY <1>1, <1>3, <2>1, <2>2 DEF HoldsOne
  <2>3. ASSUME NEW e \in Clients, NEW g \in Clients, e # g, ~Locked(flight[e].key),
               flight'[e].key = flight[e].key, flight'[e].key = flight'[g].key, At(g, "update"),
               flight'[g] = flight[g]
        PROVE  FALSE
    BY <2>3 DEF Locked
  <2>4. ASSUME UpdateSelect(c), UpdateSelect(d), \A i \in Clients \ {c} : flight'[i] = flight[i]
        PROVE  FALSE
    BY <1>3, <2>1, <2>4 DEF UpdateSelect, At
  <2>5. QED
    BY <1>3, <2>1, <2>2, <2>3, <2>4, HoldsSince
<1>4. QED
  BY <1>2, <1>3 DEF EditSeesItsVersion, HoldsOne, At

-----------------------------------------------------------------------------
LEMMA LibraryInvInit == Init => LibraryInv
<1> SUFFICES ASSUME Init PROVE LibraryInv
  OBVIOUS
<1>1. TypeInv
  BY TypeInit
<1>2. Born /\ Knows /\ GrantsAreOwners /\ EditSeesItsVersion /\ HoldsOne
  BY DEF Init, RequestsInit, LibraryInit, Idle, Born, Knows, KnowsOf, GrantsAreOwners, EditSeesItsVersion, HoldsOne, At
<1>3. QED
  BY <1>1, <1>2 DEF LibraryInv

LEMMA LibraryInvStep == LibraryInv /\ FriendInv /\ [Next]_vars => LibraryInv'
<1> SUFFICES ASSUME LibraryInv, FriendInv, [Next]_vars PROVE LibraryInv'
  OBVIOUS
<1>1. TypeInv'
  BY TypeStep DEF LibraryInv
<1>2. CASE Next
  BY <1>1, <1>2, KnowsStep, BornStep, GrantStep, EditStep DEF LibraryInv
<1>3. CASE UNCHANGED vars
  BY <1>1, <1>3 DEF vars, libraryVars, LibraryInv, Born, Knows, KnowsOf, Stays, Gone, GrantsAreOwners, Owns,
                    EditSeesItsVersion, HoldsOne, At
<1>4. QED
  BY <1>2, <1>3

\* The invariant behind the theorems that follow.
THEOREM LibraryInvAlways == Spec => [](LibraryInv /\ FriendInv)
<1>1. LibraryInv /\ FriendInv /\ [Next]_vars => (LibraryInv /\ FriendInv)'
  BY LibraryInvStep, TypeStep DEF LibraryInv
<1>2. Init => LibraryInv /\ FriendInv
  BY LibraryInvInit, TypeInit
<1>3. QED
  BY <1>1, <1>2, PTL DEF Spec

\* RowHasObject: through deletes cut short between their two writes, a gif anybody is shown
\* has its object in the bucket.
THEOREM RowHasObjectAlways == Spec => []RowHasObject
<1>1. LibraryInv => RowHasObject
  BY DEF LibraryInv, Born, RowHasObject
<1>2. QED
  BY <1>1, LibraryInvAlways, PTL

\* EditSeesItsVersion: an edit writes over the version its ETag names, with nothing in between.
THEOREM EditSeesItsVersionAlways == Spec => []EditSeesItsVersion
<1>1. LibraryInv => EditSeesItsVersion
  BY DEF LibraryInv
<1>2. QED
  BY <1>1, LibraryInvAlways, PTL

\* SharesAgree: however inserts race with deletions, shares and links are of gifs that are
\* there and by their owners, and the lists show what the download would give.
THEOREM SharesAgreeAlways == Spec => []SharesAgree
<1>1. LibraryInv => SharesAgree
  <2> SUFFICES ASSUME LibraryInv PROVE ListedIsOpen
    BY DEF LibraryInv, TypeInv, SharesAgree
  <2>1. /\ gifs \in [Keys -> Gif \cup {Nothing}]
        /\ people \subseteq Users /\ GrantsAreOwners
    BY DEF LibraryInv, TypeInv, TypeOK, LibraryTypeOK
  <2>2. ASSUME NEW u \in people, NEW k \in Keys
        PROVE  (k \in GetGifs(u) \cup SharedWith(u))
                 <=> (gifs[k] # Nothing /\ gifs[k].owner \in {u, ShareOwner(k, u)})
    <3>1. gifs[k] # Nothing => gifs[k].owner \in Users /\ Nothing \notin Users
      BY <2>1, LibraryAssumption DEF Gif
    <3>2. ASSUME k \in SharedWith(u) PROVE gifs[k].owner \in {u, ShareOwner(k, u)}
      <4>1. PICK v \in Users : /\ gifs[k] # Nothing /\ shares[k][v] # Nothing
                               /\ shares[k][v].owner = u \/ (v = u /\ shares[k][v].live)
        BY <3>2 DEF SharedWith
      <4>2. QED
        BY <2>1, <3>1, <4>1 DEF ShareOwner, GrantsAreOwners, Owns
    <3>3. gifs[k] # Nothing /\ gifs[k].owner = ShareOwner(k, u) => k \in SharedWith(u)
      BY <2>1, <3>1 DEF SharedWith, ShareOwner, GrantsAreOwners
    <3>4. k \in SharedWith(u) => gifs[k] # Nothing
      BY DEF SharedWith
    <3>5. QED
      BY <3>2, <3>3, <3>4 DEF GetGifs, Owns
  <2>3. QED
    BY <2>2 DEF ListedIsOpen, GetGifs, SharedWith
<1>2. QED
  BY <1>1, LibraryInvAlways, PTL

-----------------------------------------------------------------------------
(***************************************************************************)
(* Downloads implement AccessBoard.  Every step changes owners and grants as *)
(* Change allows; what a client's own steps do to its wish and verdict is  *)
(* looked at one statement at a time.                                      *)
(***************************************************************************)

FlightsTyped == flight \in [Clients -> [pc : Pcs, user : Users \cup {Nothing}, key : Keys \cup {Nothing},
                                        peer : Users \cup {Nothing}, etag : Nat]]

\* Gifs never change hands, and grants go with the gif.
LEMMA AnyChange ==
    ASSUME LibraryInv, LibraryInv', Next, UNCHANGED <<Wants, Verdicts>>
    PROVE  Access!Change
<1>1. /\ gifs \in [Keys -> Gif \cup {Nothing}] /\ gifs' \in [Keys -> Gif \cup {Nothing}]
      /\ GrantsAreOwners' /\ Born
  BY DEF LibraryInv, TypeInv, TypeOK, LibraryTypeOK
<1>2. Nothing \notin Users /\ \A g \in Gif : g # Nothing /\ g.owner \in Users
  BY LibraryAssumption DEF Gif
<1>3. OwnerOf' \in [Keys -> Users \cup {Nothing}]
  BY <1>1, <1>2 DEF OwnerOf
<1>4. GrantsOf' \in [Keys -> SUBSET Users]
  BY DEF GrantsOf
<1>5. ASSUME NEW k \in Keys, OwnerOf[k] # Nothing PROVE OwnerOf'[k] \in {OwnerOf[k], Nothing}
  <2>1. Stays(k, gifs[k].owner)
    BY <1>1, <1>5 DEF Stays, Born, OwnerOf
  <2>2. gifs'[k] # Nothing => gifs'[k].owner = gifs[k].owner
    BY <2>1, KnowledgeStays DEF Stays
  <2>3. QED
    BY <1>5, <2>2 DEF OwnerOf
<1>6. ASSUME NEW k \in Keys, OwnerOf'[k] = Nothing PROVE GrantsOf'[k] = {}
  <2>1. gifs'[k] = Nothing
    BY <1>1, <1>2, <1>6 DEF OwnerOf
  <2>2. \A v \in Users : shares'[k][v] = Nothing
    BY <1>1, <2>1 DEF GrantsAreOwners, Owns
  <2>3. QED
    BY <2>2 DEF GrantsOf
<1>7. QED
  BY <1>3, <1>4, <1>5, <1>6 DEF Access!Change

\* What a client does that is not a download is no business of the board.
LEMMA NotAsking ==
    ASSUME NEW c \in Clients, \A d \in Clients \ {c} : flight'[d] = flight[d], ~Asking(c), ~Asking(c)'
    PROVE  UNCHANGED <<Wants, Verdicts>>
<1>1. \A d \in Clients : /\ Asking(d)' <=> Asking(d)
                         /\ Asking(d) => flight'[d] = flight[d]
  BY DEF Asking
<1>2. Wants' = Wants
  BY <1>1 DEF Wants
<1>3. \A d \in Clients : VerdictOf(d)' = VerdictOf(d)
  BY <1>1 DEF VerdictOf, At
<1>4. QED
  BY <1>2, <1>3 DEF Verdicts

\* A request that is over wants nothing.
LEMMA ReturnFinishes ==
    ASSUME LibraryInv, NEW c \in Clients, Return(c)
    PROVE  /\ Wants' = [Wants EXCEPT ![c] = Nothing]
           /\ Verdicts' = [Verdicts EXCEPT ![c] = "none"]
           /\ ~Asking(c)'
<1>1. flight' = [flight EXCEPT ![c] = Idle] /\ FlightsTyped
  BY DEF Return, LibraryInv, TypeInv, TypeOK, FlightsTyped
<1>2. ~Asking(c)' /\ \A d \in Clients \ {c} : flight'[d] = flight[d]
  BY <1>1 DEF Asking, Idle, FlightsTyped
<1>3. QED
  BY <1>2 DEF Wants, Verdicts, VerdictOf, Asking, At

\* Rows that stay leave the board's owners and grants.
LEMMA RowsStay == ASSUME UNCHANGED <<gifs, shares>> PROVE UNCHANGED <<OwnerOf, GrantsOf>>
BY DEF OwnerOf, GrantsOf

\* A step of one client leaves the verdicts of the others.
LEMMA OthersVerdicts ==
    ASSUME NEW c \in Clients, \A d \in Clients \ {c} : flight'[d] = flight[d]
    PROVE  Verdicts' = [Verdicts EXCEPT ![c] = VerdictOf(c)']
<1>1. \A d \in Clients \ {c} : VerdictOf(d)' = VerdictOf(d)
  BY DEF VerdictOf, Asking, At
<1>2. QED
  BY <1>1 DEF Verdicts

\* A download asks, and is granted at once to the owner.
LEMMA DownloadAsks ==
    ASSUME LibraryInv, NEW c \in Clients, NEW u \in Users, NEW k \in Keys, Download(c, u, k)
    PROVE  Access!Ask(c, u, k)
<1>1. FlightsTyped /\ gifs[k] \in Gif /\ Nothing \notin Users
  BY LibraryAssumption DEF Download, LibraryInv, TypeInv, TypeOK, LibraryTypeOK, FlightsTyped
<1>2. /\ flight'[c] = [pc |-> "share", user |-> u, key |-> k, peer |-> gifs[k].owner, etag |-> 0]
      /\ \A d \in Clients \ {c} : flight'[d] = flight[d]
      /\ At(c, "idle")
  BY <1>1 DEF Download, Start, FlightsTyped
<1>3. ~Asking(c) /\ Asking(c)' /\ VerdictOf(c)' = IF u = gifs[k].owner THEN "granted" ELSE "none"
  BY <1>1, <1>2 DEF Asking, VerdictOf, At
<1>4. Wants[c] = Nothing /\ Wants' = [Wants EXCEPT ![c] = <<u, k>>]
  <2>1. Wants[c] = Nothing
    BY <1>3 DEF Wants
  <2>2. \A d \in Clients \ {c} : (Asking(d)' <=> Asking(d)) /\ (Asking(d) => flight'[d] = flight[d])
    BY <1>2 DEF Asking
  <2>3. Wants'[c] = <<u, k>> /\ \A d \in Clients \ {c} : Wants'[d] = Wants[d]
    BY <1>2, <1>3, <2>2 DEF Wants
  <2>4. Wants' = [d \in Clients |-> Wants'[d]] /\ Wants = [d \in Clients |-> Wants[d]]
    BY DEF Wants
  <2>5. QED
    BY <2>1, <2>3, <2>4
<1>5. Verdicts' = [Verdicts EXCEPT ![c] = IF u = gifs[k].owner THEN "granted" ELSE "none"]
  BY <1>2, <1>3, OthersVerdicts
<1>6. u = gifs[k].owner => Access!Judge(u, k) = "granted"
  BY <1>1 DEF Download, OwnerOf, Access!Judge, Access!Permitted
<1>7. UNCHANGED <<OwnerOf, GrantsOf>>
  BY RowsStay DEF Download, libraryVars
<1>8. QED
  BY <1>4, <1>5, <1>6, <1>7 DEF Access!Ask

\* The look at the shares decides, or repeats what owning the gif had decided.
LEMMA CheckDecides ==
    ASSUME LibraryInv, NEW c \in Clients, CheckShare(c)
    PROVE  Access!Decide(c) \/ UNCHANGED <<OwnerOf, GrantsOf, Wants, Verdicts>>
<1> DEFINE u == flight[c].user  k == flight[c].key  o == flight[c].peer
<1>1. /\ FlightsTyped /\ GrantsAreOwners /\ flight[c].pc = "share"
      /\ gifs \in [Keys -> Gif \cup {Nothing}] /\ shares \in [Keys -> [Users -> Share \cup {Nothing}]]
  BY DEF CheckShare, At, LibraryInv, TypeInv, TypeOK, LibraryTypeOK, FlightsTyped
<1>2. u \in Users /\ k \in Keys /\ o \in Users /\ Stays(k, o) /\ Nothing \notin Users
  BY <1>1, Known, LibraryAssumption DEF KnowsOf, UserPcs, KeyPcs, PeerPcs
<1> DEFINE pc == IF u = o \/ ShareOwner(k, u) = o THEN "increment" ELSE "refused"
<1>3. /\ flight'[c].pc = pc /\ flight'[c].user = u /\ flight'[c].key = k
      /\ \A d \in Clients \ {c} : flight'[d] = flight[d]
  BY <1>1 DEF CheckShare, Goto, FlightsTyped
<1>4. Asking(c) /\ Asking(c)' /\ Wants' = Wants
  BY <1>1, <1>2, <1>3 DEF Asking, Wants
<1>5. UNCHANGED <<OwnerOf, GrantsOf>>
  BY RowsStay DEF CheckShare, libraryVars
<1>6. Verdicts' = [Verdicts EXCEPT ![c] = IF pc = "increment" THEN "granted" ELSE "refused"]
  <2>1. VerdictOf(c)' = IF pc = "increment" THEN "granted" ELSE "refused"
    BY <1>3, <1>4 DEF VerdictOf, At
  <2> HIDE DEF pc
  <2>2. Verdicts' = [Verdicts EXCEPT ![c] = VerdictOf(c)']
    BY <1>3, OthersVerdicts
  <2>3. QED
    BY <2>1, <2>2
<1>7. CASE u = o
  <2>1. VerdictOf(c) = "granted"
    BY <1>1, <1>4, <1>7 DEF VerdictOf, At
  <2>2. Verdicts' = [Verdicts EXCEPT ![c] = VerdictOf(c)]
    BY <1>6, <1>7, <2>1
  <2>3. QED
    BY <1>4, <1>5, <2>2 DEF Verdicts
<1>8. CASE u # o
  <2>1. Verdicts[c] = "none"
    BY <1>1, <1>8 DEF Verdicts, VerdictOf, At
  <2>2. Wants[c] = <<u, k>> /\ Wants[c] # Nothing
    BY <1>2, <1>4, LibraryAssumption DEF Wants
  <2>3. Access!Permitted(u, k) <=> pc = "increment"
    <3>1. OwnerOf[k] = (IF gifs[k] = Nothing THEN Nothing ELSE gifs[k].owner)
          /\ (u \in GrantsOf[k] <=> shares[k][u] # Nothing /\ shares[k][u].live)
      BY <1>1, <1>2 DEF OwnerOf, GrantsOf
    <3>2. pc = "increment" <=> ShareOwner(k, u) = o
      BY <1>8
    <3> HIDE DEF pc
    <3>3. QED
      BY <1>1, <1>2, <1>8, <3>1, <3>2 DEF Access!Permitted, ShareOwner, GrantsAreOwners, Owns, Stays
  <2>4. Wants[c][1] = u /\ Wants[c][2] = k
    BY <2>2
  <2>5. Access!Judge(Wants[c][1], Wants[c][2]) = IF pc = "increment" THEN "granted" ELSE "refused"
    BY <2>3, <2>4 DEF Access!Judge
  <2> HIDE DEF pc, u, k, o
  <2>6. Access!Decide(c)
    BY <1>4, <1>5, <1>6, <2>1, <2>2, <2>5 DEF Access!Decide
  <2>7. QED
    BY <2>6
<1>9. QED
  BY <1>7, <1>8

\* The counter and the answer change no verdict.
LEMMA IncrementKeeps ==
    ASSUME LibraryInv, NEW c \in Clients, IncrementDownload(c)
    PROVE  UNCHANGED <<Wants, Verdicts>>
<1>1. FlightsTyped /\ flight[c].pc = "increment" /\ flight' = [flight EXCEPT ![c].pc = "open"]
  BY DEF IncrementDownload, At, Goto, LibraryInv, TypeInv, TypeOK, FlightsTyped
<1>2. /\ flight'[c].pc = "open" /\ flight'[c].user = flight[c].user /\ flight'[c].key = flight[c].key
      /\ \A d \in Clients \ {c} : flight'[d] = flight[d]
  BY <1>1 DEF FlightsTyped
<1>3. \A d \in Clients : /\ Asking(d)' <=> Asking(d)
                         /\ flight'[d].user = flight[d].user /\ flight'[d].key = flight[d].key
  BY <1>1, <1>2 DEF Asking
<1>4. \A d \in Clients : VerdictOf(d)' = VerdictOf(d)
  BY <1>1, <1>2, <1>3 DEF VerdictOf, At
<1>5. QED
  BY <1>3, <1>4 DEF Wants, Verdicts

\* Requests that start as anything but a download ask nothing.
LEMMA OtherStarts ==
    ASSUME LibraryInv, NEW c \in Clients, NEW pc, NEW u, NEW k, NEW v, NEW etag,
           Start(c, pc, u, k, v, etag),
           u = Nothing \/ pc \notin {"share", "increment", "open", "refused"}
    PROVE  UNCHANGED <<Wants, Verdicts>>
<1>1. /\ flight'[c] = [pc |-> pc, user |-> u, key |-> k, peer |-> v, etag |-> etag]
      /\ \A d \in Clients \ {c} : flight'[d] = flight[d]
      /\ flight[c].pc = "idle"
  BY DEF Start, At, LibraryInv, TypeInv, TypeOK
<1>2. ~Asking(c) /\ ~Asking(c)'
  BY <1>1 DEF Asking
<1>3. QED
  BY <1>1, <1>2, NotAsking

\* Every other statement is of a request that is no download.
LEMMA OtherSteps ==
    ASSUME LibraryInv, NEW c \in Clients,
           \/ UpdateSelect(c) \/ UpdateCommit(c) \/ DeleteRow(c) \/ DeleteObject(c) \/ SaveRecent(c)
           \/ InsertShare(c) \/ UpsertLink(c) \/ DeleteShare(c) \/ Create(c)
    PROVE  UNCHANGED <<Wants, Verdicts>>
<1>1. FlightsTyped
  BY DEF LibraryInv, TypeInv, TypeOK, FlightsTyped
<1>2. ~Asking(c)
  BY DEF Asking, At, UpdateSelect, UpdateCommit, DeleteRow, DeleteObject, SaveRecent, InsertShare, UpsertLink,
         DeleteShare, Create
<1>3. CASE Return(c)
  BY <1>2, <1>3, ReturnFinishes, NotAsking, <1>1 DEF Return, FlightsTyped
<1>4. ASSUME NEW pc \in {"update", "deleteObject"}, Goto(c, pc) PROVE UNCHANGED <<Wants, Verdicts>>
  <2>1. ~Asking(c)' /\ \A d \in Clients \ {c} : flight'[d] = flight[d]
    BY <1>1, <1>4 DEF Goto, FlightsTyped, Asking
  <2>2. QED
    BY <1>2, <2>1, NotAsking
<1>5. QED
  BY <1>3, <1>4 DEF UpdateSelect, UpdateCommit, DeleteRow, DeleteObject, SaveRecent, InsertShare, UpsertLink,
                    DeleteShare, Create

\* Every step of the library is a step of the board or leaves it alone.
LEMMA AccessStep ==
    ASSUME LibraryInv, LibraryInv', [Next]_vars
    PROVE  [Access!Next]_<<OwnerOf, GrantsOf, Wants, Verdicts>>
<1> DEFINE Goal == [Access!Next]_<<OwnerOf, GrantsOf, Wants, Verdicts>>
<1> SUFFICES Goal
  OBVIOUS
<1>1. CASE UNCHANGED vars
  <2>1. UNCHANGED <<gifs, shares, flight>>
    BY <1>1 DEF vars, libraryVars
  <2>2. UNCHANGED <<OwnerOf, GrantsOf, Wants, Verdicts>>
    BY <2>1 DEF OwnerOf, GrantsOf, Wants, Verdicts, VerdictOf, Asking, At
  <2>3. QED
    BY <2>2
<1>2. CASE Next
  <2>1. ASSUME UNCHANGED <<Wants, Verdicts>> PROVE Goal
    BY <1>2, <2>1, AnyChange DEF Access!Next
  <2>2. ASSUME UNCHANGED flight PROVE Goal
    <3>1. UNCHANGED <<Wants, Verdicts>>
      BY <2>2 DEF Wants, Verdicts, VerdictOf, Asking, At
    <3>2. QED
      BY <2>1, <3>1
  <2>3. ASSUME NEW c \in Clients, Return(c), UNCHANGED <<gifs, shares>> PROVE Goal
    <3>1. Access!Finish(c)
      BY <2>3, ReturnFinishes, RowsStay DEF Access!Finish
    <3>2. QED
      BY <3>1 DEF Access!Next
  <2>4. ASSUME NEW c \in Clients, NEW u \in Users, NEW k \in Keys, MediaRequest(c, u, k) PROVE Goal
    <3>1. CASE Download(c, u, k)
      BY <3>1, DownloadAsks DEF Access!Next
    <3>2. CASE Update(c, u, k) \/ Delete(c, u, k) \/ Save(c, u, k)
      <4>1. UNCHANGED <<Wants, Verdicts>>
        BY <3>2, OtherStarts DEF Update, Delete, Save
      <4>2. QED
        BY <2>1, <4>1
    <3>3. QED
      BY <2>4, <3>1, <3>2 DEF MediaRequest
  <2>5. ASSUME NEW c \in Clients, NEW u \in Users, NEW k \in Keys, ShareRequest(c, u, k) PROVE Goal
    <3>1. UNCHANGED <<Wants, Verdicts>>
      BY <2>5, OtherStarts DEF ShareRequest, CreateByToken, ShareGif, RevokeShare
    <3>2. QED
      BY <2>1, <3>1
  <2>6. ASSUME NEW c \in Clients, NEW k \in Keys, DownloadByToken(c, k) PROVE Goal
    <3>1. UNCHANGED <<Wants, Verdicts>>
      BY <2>6, OtherStarts DEF DownloadByToken
    <3>2. QED
      BY <2>1, <3>1
  <2>7. ASSUME NEW c \in Clients, CheckShare(c) PROVE Goal
    BY <2>7, CheckDecides DEF Access!Next
  <2>8. ASSUME NEW c \in Clients, NEW u, NEW v, SendRequest(c, u, v) PROVE Goal
    <3>1. UNCHANGED <<Wants, Verdicts>>
      BY <2>8, OtherStarts DEF SendRequest
    <3>2. QED
      BY <2>1, <3>1
  <2> HIDE DEF Goal
  <2>9. CASE LibraryNext
    <3>1. ASSUME NEW c \in Clients, Answer(c) PROVE Goal
      BY <2>3, <3>1 DEF Answer, libraryVars
    <3>2. ASSUME NEW k \in Keys, StoreGif(k) \/ Expire(k) \/ \E u \in Users : CreateGif(k, u) PROVE Goal
      BY <2>2, <3>2 DEF StoreGif, Expire, CreateGif
    <3>3. QED
      BY <2>1, <2>4, <2>5, <2>6, <2>7, <2>9, <3>1, <3>2, IncrementKeeps, OtherSteps DEF LibraryNext
  <2>10. CASE FriendshipsNext
    <3>1. ASSUME NEW u, NEW v, NEW actor, Accept(u, v, actor) \/ Reject(u, v, actor) PROVE Goal
      BY <2>2, <3>1 DEF Accept, Reject
    <3>2. QED
      BY <2>1, <2>8, <2>10, <3>1, OtherSteps DEF FriendshipsNext, Remove
  <2>11. ASSUME NEW c \in Clients, Abandon(c), UNCHANGED libraryVars PROVE Goal
    BY <2>3, <2>11 DEF Abandon, libraryVars
  <2>12. ASSUME NEW u \in Users, DeleteUser(u) PROVE Goal
    BY <2>2, <2>12 DEF DeleteUser
  <2>13. QED
    BY <1>2, <2>9, <2>10, <2>11, <2>12 DEF Next
<1>3. QED
  BY <1>1, <1>2

\* ImplementsAccess: whether a user gets a gif is decided by who owns it and whom it is shared
\* with at one moment of the request, although the code reads the two in two statements.
THEOREM AccessRefined == Spec => ImplementsAccess
<1>1. Init => Access!Init
  <2> SUFFICES ASSUME Init PROVE Access!Init
    OBVIOUS
  <2>1. OwnerOf = [k \in Keys |-> Nothing] /\ GrantsOf = [k \in Keys |-> {}]
    BY DEF Init, LibraryInit, OwnerOf, GrantsOf
  <2>2. \A c \in Clients : ~Asking(c)
    BY DEF Init, RequestsInit, Idle, Asking
  <2>3. Wants = [c \in Clients |-> Nothing] /\ Verdicts = [c \in Clients |-> "none"]
    BY <2>2 DEF Wants, Verdicts, VerdictOf
  <2>4. QED
    BY <2>1, <2>3 DEF Access!Init
<1>2. LibraryInv /\ LibraryInv' /\ [Next]_vars => [Access!Next]_<<OwnerOf, GrantsOf, Wants, Verdicts>>
  BY AccessStep
<1>3. Spec => []LibraryInv
  BY LibraryInvAlways, PTL
<1>4. QED
  BY <1>1, <1>2, <1>3, PTL DEF Spec, ImplementsAccess, Access!Spec
===============================================================================
