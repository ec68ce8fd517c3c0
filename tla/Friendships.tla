----------------------------- MODULE Friendships -----------------------------
(***************************************************************************)
(* Friend requests (internal/app/friend/service.go over                    *)
(* internal/infra/postgres/friend_repo.go).  Only SendRequest is more than *)
(* one statement; the table is unique per requester and addressee, not per *)
(* pair, so two users who ask each other at once get two rows.             *)
(***************************************************************************)
EXTENDS Requests, FiniteSets

VARIABLE friendships  \* the row of each requester and addressee, or Nothing

\* A row, and who has agreed to it: bookkeeping that no statement reads.
Friendship == [status : {"pending", "accepted", "blocked"}, agreed : SUBSET Users]

FriendshipsInit == friendships = [u \in Users |-> [v \in Users |-> Nothing]]

Exists(u, v) == friendships[u][v] # Nothing \/ friendships[v][u] # Nothing

\* The list joins each row with its other end.
ListFriends(u) ==
    {v \in people : \E row \in {friendships[u][v], friendships[v][u]} :
                       row # Nothing /\ row.status = "accepted"}

\* A refused request leaves no trace, so it is no step.
SendRequest(c, u, v) ==
    /\ u # v /\ ~Exists(u, v)
    /\ Start(c, "ask", u, Nothing, v, 0)
    /\ UNCHANGED <<people, friendships>>

\* The insert looks at the unique constraint and the foreign keys again.
Create(c) ==
    LET u == flight[c].user  v == flight[c].peer IN
    /\ At(c, "ask")
    /\ friendships' =
          IF friendships[u][v] = Nothing /\ {u, v} \subseteq people
          THEN [friendships EXCEPT ![u][v] = [status |-> "pending", agreed |-> {u}]]
          ELSE friendships
    /\ Return(c)
    /\ UNCHANGED people

\* Mutant: the requester may accept as well.
UpdateStatus_Anyone(u, v, actor) ==
    friendships' = [friendships EXCEPT ![u][v] =
                       [status |-> "accepted", agreed |-> @.agreed \cup {actor}]]
UpdateStatus(u, v, actor) ==
    /\ actor = v
    /\ friendships' = [friendships EXCEPT ![u][v] =
                          [status |-> "accepted", agreed |-> @.agreed \cup {actor}]]
DeleteFriendship(u, v, actor) ==
    /\ actor \in {u, v}
    /\ friendships' = [friendships EXCEPT ![u][v] = Nothing]

\* An id names a row; one whose row is gone, or whose row is others', changes nothing.
Accept(u, v, actor) ==
    /\ friendships[u][v] # Nothing
    /\ UpdateStatus(u, v, actor)
    /\ UNCHANGED <<people, flight>>

\* Reject and Remove are one statement, which looks at no status: a late reject ends
\* a friendship, and the requester may reject too.
Reject(u, v, actor) ==
    /\ friendships[u][v] # Nothing
    /\ DeleteFriendship(u, v, actor)
    /\ UNCHANGED <<people, flight>>

Remove(u, v, actor) == Reject(u, v, actor)

FriendshipsNext ==
    \/ \E c \in Clients : Create(c) \/ (\E u, v \in Users : SendRequest(c, u, v))
    \/ \E u, v, actor \in Users : Accept(u, v, actor) \/ Reject(u, v, actor) \/ Remove(u, v, actor)

\* Deleting a users row takes the rows of both ends along.
FriendshipsOf(gone) ==
    [u \in Users |-> [v \in Users |-> IF gone \in {u, v} THEN Nothing ELSE friendships[u][v]]]

-----------------------------------------------------------------------------
FriendshipsTypeOK ==
    friendships \in [Users -> [Users -> Friendship \cup {Nothing}]]

\* Through crossed requests, late rejects and requests asked again: whoever is listed
\* as a friend has agreed to a row of the two, as has the user who lists them.
FriendsAgreed ==
    \A u \in Users, v \in Users : v \in ListFriends(u) =>
        \E row \in {friendships[u][v], friendships[v][u]} :
            row # Nothing /\ row.agreed = {u, v}

\* Each finds the other in the list, whichever of them asked, also when both did.
FriendListsAgree ==
    \A u \in people, v \in people : v \in ListFriends(u) <=> u \in ListFriends(v)

\* The lists show what both ends have agreed to, to both.
FriendsAgree == FriendsAgreed /\ FriendListsAgree
=============================================================================
