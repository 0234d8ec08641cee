----------------------------- MODULE MCPresence -----------------------------
(* Finite instances of Presence.                                           *)
EXTENDS Presence, TLC

CONSTANTS u1, u2, k1, k2, web, phone

\* Both sockets are u1's, on two kinds of device.
OwnerOf == k1 :> u1 @@ k2 :> u1
Kinds == k1 :> web @@ k2 :> phone
=============================================================================
