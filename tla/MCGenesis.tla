----------------------------- MODULE MCGenesis -----------------------------
(* Genesis instantiated for TLC: two usernames and sixteen distinct codes. *)
EXTENDS Genesis

CONSTANTS u1, u2, c1, c2

MCUsernameOrder == <<u1, u2>>

\* Every role's code is distinct bytes; the role name stands for them.
MCBlob == [r \in Roles |-> <<"wasm", r>>]

=============================================================================
