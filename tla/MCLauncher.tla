------------------------------ MODULE MCLauncher ------------------------------
(* Instances of Launcher: an application launched up to three times, beside  *)
(* one launched once; p1 ignores SIGTERM, p2 obeys it silently, p3 obeys it  *)
(* after more output than a pipe holds.                                      *)
EXTENDS Launcher, TLC

CONSTANTS a1, a2, p1, p2, p3

TwoApps == p1 :> a1 @@ p2 :> a1 @@ p3 :> a2
OneApp  == p1 :> a1 @@ p2 :> a1 @@ p3 :> a1
Silent  == p1 :> 0 @@ p2 :> 0 @@ p3 :> 0
Talking == p1 :> 0 @@ p2 :> 0 @@ p3 :> 2
=============================================================================
