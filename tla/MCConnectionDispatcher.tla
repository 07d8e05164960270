------------------------ MODULE MCConnectionDispatcher ------------------------
(* The instance of ConnectionDispatcher: a realm with a cid of its own, and  *)
(* two that were given the same cid.                                         *)
EXTENDS ConnectionDispatcher, TLC

CONSTANTS r1, r2, r3, c1, c2

SharedCids == r1 :> c1 @@ r2 :> c1 @@ r3 :> c2
=============================================================================
