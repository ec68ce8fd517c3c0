------------------------------ MODULE Community ------------------------------
(***************************************************************************)
(* The library and the friendships over one users table: the same clients  *)
(* ask both, and a user who goes takes rows of both along.                 *)
(***************************************************************************)
EXTENDS GifLibrary, Friendships

vars == <<people, flight, libraryVars, friendships>>

Init == RequestsInit /\ LibraryInit /\ FriendshipsInit

\* Objects of the bucket stay; the database follows its foreign keys.
DeleteUser(u) ==
    /\ u \in people /\ \A k \in GetGifs(u) : ~Locked(k)
    /\ people' = people \ {u}
    /\ DeleteGifs(GetGifs(u))
    /\ shares' = [k \in Keys |-> [v \in Users |->
                    IF v = u \/ k \in GetGifs(u) THEN Nothing ELSE shares[k][v]]]
    /\ friendships' = FriendshipsOf(u)
    /\ UNCHANGED <<flight, born, objects>>

Next ==
    \/ LibraryNext /\ UNCHANGED friendships
    \/ FriendshipsNext /\ UNCHANGED libraryVars
    \/ \E c \in Clients : Abandon(c) /\ UNCHANGED <<libraryVars, friendships>>
    \/ \E u \in Users : DeleteUser(u)

Spec == Init /\ [][Next]_vars

Pcs == {"idle", "select", "update", "deleteRow", "deleteObject", "save", "share", "increment",
        "open", "refused", "insert", "upsert", "revoke", "ask"}

TypeOK ==
    /\ people \subseteq Users
    /\ flight \in [Clients -> [pc : Pcs, user : Users \cup {Nothing}, key : Keys \cup {Nothing},
                               peer : Users \cup {Nothing}, etag : Nat]]
    /\ LibraryTypeOK
    /\ FriendshipsTypeOK

\* Shares agree with gifs, their owners and users, and the lists with the download.
SharesAgree == TypeOK /\ GrantsAreOwners /\ ListedIsOpen
=============================================================================
