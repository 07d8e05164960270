----------------------------- MODULE RealmProtocol -----------------------------
(***************************************************************************)
(* What host and app-manager rely on in each other, on the vsock stream    *)
(* between them.  HostDaemon implements it with guests it knows little of, *)
(* AppManager with a host it knows little of; what either leaves open      *)
(* about the other side is no more than what this allows.                  *)
(***************************************************************************)
CONSTANTS
  Realm,   \* realms, each with one guest and its stream
  Kind,    \* kinds of commands; "Shutdown" ends the guest
  Nothing  \* there is no command

VARIABLES
  guest,    \* how far the app-manager in each realm has come
  command,  \* the command that has been sent and not yet answered
  response  \* its response is on its way

protocolVars == <<guest, command, response>>

ProtocolInit ==
  /\ guest    = [r \in Realm |-> "absent"]
  /\ command  = [r \in Realm |-> Nothing]
  /\ response = [r \in Realm |-> FALSE]

Connect(r) ==
  /\ guest[r] = "absent"
  /\ guest' = [guest EXCEPT ![r] = "connected"]
  /\ UNCHANGED <<command, response>>

\* One command at a time, to a guest that is there.
Send(r, k) ==
  /\ guest[r] \in {"connected", "serving"}
  /\ command[r] = Nothing /\ ~response[r]
  /\ command' = [command EXCEPT ![r] = k]
  /\ UNCHANGED <<guest, response>>

\* RealmInfo comes first; a command that came with it may be lost.
ReadInfo(r) ==
  /\ guest[r] = "connected"
  /\ guest' = [guest EXCEPT ![r] = "serving"]
  /\ UNCHANGED command \/ command' = [command EXCEPT ![r] = Nothing]
  /\ UNCHANGED response

\* A guest that has RealmInfo answers the command; Shutdown ends it.
Reply(r) ==
  /\ guest[r] = "serving"
  /\ command[r] # Nothing
  /\ response' = [response EXCEPT ![r] = TRUE]
  /\ command' = [command EXCEPT ![r] = Nothing]
  /\ guest' = IF command[r] = "Shutdown" THEN [guest EXCEPT ![r] = "gone"] ELSE guest

\* The guest ends, answered or not, and does not come back.
End(r) ==
  /\ guest' = [guest EXCEPT ![r] = "gone"]
  /\ UNCHANGED command \/ command' = [command EXCEPT ![r] = Nothing]
  /\ UNCHANGED response

Read(r) ==
  /\ response[r]
  /\ response' = [response EXCEPT ![r] = FALSE]
  /\ UNCHANGED <<guest, command>>

ProtocolNext ==
  \E r \in Realm :
    Connect(r) \/ (\E k \in Kind : Send(r, k)) \/ ReadInfo(r) \/ Reply(r) \/ End(r) \/ Read(r)

ProtocolSpec == ProtocolInit /\ [][ProtocolNext]_protocolVars
=============================================================================
