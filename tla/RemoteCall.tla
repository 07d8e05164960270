------------------------------ MODULE RemoteCall ------------------------------
(***************************************************************************)
(* What HostDaemon promises a client that sends a command to a realm,      *)
(* without its channels, streams, tasks and frames: the command is         *)
(* executed at most once, Ok means that it was, RealmNotConnected that it  *)
(* never will be.  A client that gets an error learns nothing: the command *)
(* may be lost, or be executed when nobody waits for it any more.          *)
(***************************************************************************)
CONSTANTS
  Realm,      \* as in HostDaemon; each has one client that sends it commands
  NoResponse  \* there is no answer yet

VARIABLES
  asking,  \* realms whose client waits for the result of a command
  work,    \* that command, or one that was given up: sent, executed, or no more
  answer   \* what its client will be told

remoteCallVars == <<asking, work, answer>>

RemoteCallInit ==
  /\ asking = {}
  /\ work   = [r \in Realm |-> "none"]
  /\ answer = [r \in Realm |-> NoResponse]

\* No command is sent while an earlier one could still be executed or answered.
Ask(r) ==
  /\ r \notin asking /\ work[r] = "none" /\ answer[r] = NoResponse
  /\ asking' = asking \cup {r}
  /\ work' = [work EXCEPT ![r] = "sent"]
  /\ UNCHANGED answer

Execute(r) ==
  /\ work[r] = "sent"
  /\ work' = [work EXCEPT ![r] = "executed"]
  /\ UNCHANGED <<asking, answer>>

\* The answer tells what became of the command, and nothing of it is left.
Answer(r) ==
  /\ r \in asking /\ answer[r] = NoResponse
  /\ \/ work[r] = "executed" /\ answer' = [answer EXCEPT ![r] = "Ok"]
     \/ work[r] = "sent" /\ answer' = [answer EXCEPT ![r] = "RealmNotConnected"]
  /\ work' = [work EXCEPT ![r] = "none"]
  /\ UNCHANGED asking

\* Some clients stop waiting, each with the answer that is there or with an
\* error; commands nobody has executed may be lost at any time.
Finish ==
  /\ asking' \subseteq asking
  /\ answer' = [r \in Realm |-> IF r \in asking \ asking' THEN NoResponse ELSE answer[r]]
  /\ \E lost \in SUBSET {r \in Realm : work[r] = "sent"} :
       work' = [r \in Realm |-> IF r \in lost THEN "none" ELSE work[r]]

RemoteCallNext == Finish \/ \E r \in Realm : Ask(r) \/ Execute(r) \/ Answer(r)

RemoteCallSpec == RemoteCallInit /\ [][RemoteCallNext]_remoteCallVars
=============================================================================
