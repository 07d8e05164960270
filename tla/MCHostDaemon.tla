----------------------------- MODULE MCHostDaemon -----------------------------
(* Instances of HostDaemon: one client with one realm, and two clients whose *)
(* realms were given the same cid.                                           *)
EXTENDS HostDaemon, TLC

CONSTANTS r1, r2, c1, a, b

OnlyRealm  == r1 :> a
OnlyCid    == r1 :> c1
OwnClients == r1 :> a @@ r2 :> b
SharedCid  == r1 :> c1 @@ r2 :> c1

\* Swapping the two clients together with their realms.
SwapShared == {r1 :> r2 @@ r2 :> r1 @@ a :> b @@ b :> a}
=============================================================================
