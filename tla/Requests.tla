------------------------------ MODULE Requests ------------------------------
(***************************************************************************)
(* What the library and the friendships share: the users table, and the    *)
(* requests the API serves at once.  A request is a sequence of statements *)
(* against Postgres, each a step; what it read is kept in its record.      *)
(***************************************************************************)
CONSTANTS
    Users, Keys,  \* user ids, and the keys conversions draw
    Clients,      \* requests served at once
    Nothing       \* no row, nothing read

VARIABLES
    people,  \* the ids with a row in users
    flight   \* the request of each client, between two of its statements

Idle == [pc |-> "idle", user |-> Nothing, key |-> Nothing, peer |-> Nothing, etag |-> 0]

RequestsInit ==
    /\ people = Users
    /\ flight = [c \in Clients |-> Idle]

At(c, pc)       == flight[c].pc = pc
Start(c, pc, u, k, v, etag) ==
    /\ At(c, "idle")
    /\ flight' = [flight EXCEPT ![c] = [pc |-> pc, user |-> u, key |-> k, peer |-> v, etag |-> etag]]
Goto(c, pc)     == flight' = [flight EXCEPT ![c].pc = pc]
Return(c)       == flight' = [flight EXCEPT ![c] = Idle]

\* A statement fails, or the API dies: the request ends with what it has written so
\* far, an open transaction with nothing.
Abandon(c) == ~At(c, "idle") /\ Return(c) /\ UNCHANGED people
=============================================================================
