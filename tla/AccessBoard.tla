----------------------------- MODULE AccessBoard -----------------------------
(***************************************************************************)
(* What a download promises: whether a user gets a gif is decided by who   *)
(* owns it and whom it is shared with at one moment of the request, though *)
(* the code reads the two in two statements and gifs and shares come and   *)
(* go in between.                                                          *)
(***************************************************************************)
CONSTANTS Users, Keys, Clients, Nothing

VARIABLES owner, grants, want, verdict

Init ==
    /\ owner = [k \in Keys |-> Nothing]
    /\ grants = [k \in Keys |-> {}]
    /\ want = [c \in Clients |-> Nothing]
    /\ verdict = [c \in Clients |-> "none"]

Permitted(u, k) == owner[k] # Nothing /\ (u = owner[k] \/ u \in grants[k])
Judge(u, k)     == IF Permitted(u, k) THEN "granted" ELSE "refused"

Ask(c, u, k) ==
    /\ want[c] = Nothing
    /\ want' = [want EXCEPT ![c] = <<u, k>>]
    /\ \E v \in {"none", Judge(u, k)} : verdict' = [verdict EXCEPT ![c] = v]
    /\ UNCHANGED <<owner, grants>>

Decide(c) ==
    /\ want[c] # Nothing /\ verdict[c] = "none"
    /\ verdict' = [verdict EXCEPT ![c] = Judge(want[c][1], want[c][2])]
    /\ UNCHANGED <<owner, grants, want>>

Finish(c) ==
    /\ want' = [want EXCEPT ![c] = Nothing]
    /\ verdict' = [verdict EXCEPT ![c] = "none"]
    /\ UNCHANGED <<owner, grants>>

\* Gifs appear, disappear and never change hands; only a gif that is there is shared.
Change ==
    /\ owner' \in [Keys -> Users \cup {Nothing}]
    /\ grants' \in [Keys -> SUBSET Users]
    /\ \A k \in Keys :
          /\ owner[k] # Nothing => owner'[k] \in {owner[k], Nothing}
          /\ owner'[k] = Nothing => grants'[k] = {}
    /\ UNCHANGED <<want, verdict>>

Next == Change \/ \E c \in Clients : Decide(c) \/ Finish(c) \/ (\E u \in Users, k \in Keys : Ask(c, u, k))

Spec == Init /\ [][Next]_<<owner, grants, want, verdict>>
=============================================================================
