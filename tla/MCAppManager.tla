----------------------------- MODULE MCAppManager -----------------------------
(* Instances of AppManager: two applications, one of which can be started a  *)
(* second time; p1 ignores SIGTERM, the other processes obey it.             *)
EXTENDS AppManager, TLC

CONSTANTS a1, a2, p1, p2, p3

TwoApps == p1 :> a1 @@ p2 :> a1 @@ p3 :> a2
OneEach == p1 :> a1 @@ p2 :> a2
Silent  == [p \in Proc |-> 0]
=============================================================================
