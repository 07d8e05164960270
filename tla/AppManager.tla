------------------------------ MODULE AppManager ------------------------------
(***************************************************************************)
(* The app-manager, the first process of a realm after init                *)
(* (app-manager/src: main.rs, manager.rs, app.rs): it prepares every       *)
(* application stage by stage, launches them all and then executes the     *)
(* host's commands one after another.  Launcher is the part below it.      *)
(*                                                                         *)
(* Any error ends main, and config/init then powers the realm off: stage   *)
(* "off", in which nothing happens any more.  What the stages do to the    *)
(* disks is AppStorage's subject; here an application has passed a stage,  *)
(* or the stage failed.  The host is external: it sends a command when the *)
(* previous one was answered (HostDaemon: LockstepOnWire).  Variants are   *)
(* what they are in Launcher.                                              *)
(***************************************************************************)
EXTENDS Launcher, FiniteSets

CONSTANTS
  Unknown,    \* an id no application has
  NoCommand

Command ==
  [kind : {"StartApp", "TerminateApp", "KillApp"}, app : App \cup {Unknown}]
    \cup {[kind |-> "Shutdown", app |-> Unknown]}

ASSUME AppAssumption == IsFiniteSet(App) /\ App # {} /\ Unknown \notin App
ASSUME CommandAssumption == NoCommand \notin Command

VARIABLES
  stage,     \* how far main has come
  todo,      \* the applications the loop of this stage has not reached
  prepared,  \* the stages an application has passed
  cmd,       \* the command being executed
  toGuest,   \* the command the host has sent, unread
  toHost     \* the command whose response is on its way to the host

managerVars == <<stage, todo, prepared, cmd, toGuest, toHost>>
vars == <<launcherVars, managerVars>>

\* main's calls on all applications, in their order, before the launch.
Preparation == {"decrypt_main", "provision_image", "decrypt_secure",
                "provision_secure", "mount_overlay"}

StageAfter ==
  [decrypt_main |-> "provision_image", provision_image |-> "decrypt_secure",
   decrypt_secure |-> "provision_secure", provision_secure |-> "mount_overlay",
   mount_overlay |-> "launch", launch |-> "loop"]

\* Types; and a stage under way has applications left to pass it.
AppManagerTypeOK ==
  /\ LauncherTypeOK
  /\ stage \in {"setup", "read_info", "launch", "loop", "off"} \cup Preparation
  /\ todo \subseteq App
  /\ prepared \in [App -> SUBSET Preparation]
  /\ cmd \in Command \cup {NoCommand}
  /\ toGuest \in Command \cup {NoCommand}
  /\ toHost \in Command \cup {NoCommand}
  /\ stage \in DOMAIN StageAfter => todo # {}

Init ==
  /\ LauncherInit
  /\ stage = "setup"
  /\ todo = {}
  /\ prepared = [a \in App |-> {}]
  /\ cmd = NoCommand
  /\ toGuest = NoCommand
  /\ toHost = NoCommand

-----------------------------------------------------------------------------
(* main up to the event loop.                                              *)

\* setup: the stage ends when the stream to the host is connected.  What follows,
\* listing the disks and opening device mapper and keys, may fail: that is Fails.
Setup ==
  /\ stage = "setup"
  /\ stage' = "read_info"
  /\ UNCHANGED <<launcherVars, todo, prepared, cmd, toGuest, toHost>>

\* read_provision_info: RealmInfo names the applications.  A command that came
\* behind it may be lost: serde_read drops what it had buffered beyond its frame.
ReadProvisionInfo ==
  /\ stage = "read_info"
  /\ stage' = "decrypt_main"
  /\ todo' = App
  /\ toGuest' \in {toGuest, NoCommand}
  /\ UNCHANGED <<launcherVars, prepared, cmd, toHost>>

\* Variant: the next stage has no application to go through.
PassStageOnce(a) ==
  IF todo = {a}
  THEN stage' = StageAfter[stage] /\ todo' = {}
  ELSE todo' = todo \ {a} /\ UNCHANGED stage

\* The loop of a stage is done with a; after its last application, the next
\* stage begins.
PassStage(a) ==
  IF todo = {a}
  THEN stage' = StageAfter[stage] /\ todo' = IF stage = "launch" THEN {} ELSE App
  ELSE todo' = todo \ {a} /\ UNCHANGED stage

\* Variant: an application is launched as soon as it is prepared itself.
PrepareAppAlone(a) ==
  /\ stage \in Preparation
  /\ a \in todo
  /\ prepared' = [prepared EXCEPT ![a] = @ \cup {stage}]
  /\ IF stage = "mount_overlay" THEN stage' = "launch" /\ UNCHANGED todo ELSE PassStage(a)
  /\ UNCHANGED <<launcherVars, cmd, toGuest, toHost>>

\* One round of the loops in decrypt_main_storage, provision_app_image,
\* decrypt_secure_storage, provision_secure_storage and mount_overlay.
PrepareApp(a) ==
  /\ stage \in Preparation
  /\ a \in todo
  /\ prepared' = [prepared EXCEPT ![a] = @ \cup {stage}]
  /\ PassStage(a)
  /\ UNCHANGED <<launcherVars, cmd, toGuest, toHost>>

\* One round of launch_applications.
LaunchApp(a) ==
  /\ stage = "launch"
  /\ a \in todo
  /\ \E p \in Proc : Launch(a, p)
  /\ PassStage(a)
  /\ UNCHANGED <<prepared, cmd, toGuest, toHost>>

\* Any of these fails, or the event loop cannot read or write its stream.
\* An application prepared before the failure is given up with the others.
Fails ==
  /\ stage # "off"
  /\ cmd = NoCommand
  /\ stage' = "off"
  /\ UNCHANGED <<launcherVars, todo, prepared, cmd, toGuest, toHost>>

-----------------------------------------------------------------------------
(* event_loop and handle_command.                                          *)

\* handle_command returned the response to c.
Respond(c) == toHost' = c

Receives(c) == stage = "loop" /\ cmd = NoCommand /\ toGuest = c /\ toGuest' = NoCommand

\* Variant: the loop goes on after Shutdown.
ShutDownLoops ==
  \E c \in Command :
    /\ c.kind = "Shutdown"
    /\ Receives(c)
    /\ Respond(c)
    /\ UNCHANGED <<launcherVars, stage, todo, prepared, cmd>>

\* Shutdown: respond and leave the loop.
ShutDown ==
  \E c \in Command :
    /\ c.kind = "Shutdown"
    /\ Receives(c)
    /\ Respond(c)
    /\ stage' = "off"
    /\ UNCHANGED <<launcherVars, todo, prepared, cmd>>

\* StartApp: launch the application, whether or not it runs already.
StartApp(a) ==
  \E c \in Command :
    /\ c.kind = "StartApp" /\ c.app = a
    /\ Receives(c)
    /\ \E p \in Proc : Launch(a, p)
    /\ Respond(c)
    /\ UNCHANGED <<stage, todo, prepared, cmd>>

\* TerminateApp and KillApp: the launcher's stop and kill, up to the await.
SignalApp(a) ==
  \E c \in Command :
    /\ c.kind \in {"TerminateApp", "KillApp"} /\ c.app = a
    /\ Receives(c)
    /\ SendRequest(a, IF c.kind = "KillApp" THEN "Kill" ELSE "Stop")
    /\ cmd' = c
    /\ UNCHANGED <<stage, todo, prepared, toHost>>

\* The command fails: no such application, a failing launch, or an application
\* whose handler is over.  handle_command's error ends the event loop.
CommandFails ==
  \E c \in Command :
    /\ Receives(c)
    /\ \/ c.kind # "Shutdown" /\ c.app = Unknown
       \/ c.kind = "StartApp"
       \/ c.kind \in {"TerminateApp", "KillApp"} /\ c.app \in App /\ ~Reachable(c.app)
    /\ stage' = "off"
    /\ UNCHANGED <<launcherVars, todo, prepared, cmd, toHost>>

\* Variant: the response is written before the status has arrived.
SignalDoneEarly ==
  /\ stage = "loop"
  /\ cmd # NoCommand
  /\ cmd' = NoCommand
  /\ Respond(cmd)
  /\ UNCHANGED <<launcherVars, stage, todo, prepared, toGuest>>

\* The exit status arrives: answer the command.
SignalDone ==
  /\ stage = "loop"
  /\ cmd # NoCommand
  /\ ReceiveStatus(cmd.app)
  /\ cmd' = NoCommand
  /\ Respond(cmd)
  /\ UNCHANGED <<stage, todo, prepared, toGuest>>

\* The handler ended first: ChannelClosed ends the event loop.
SignalFails ==
  /\ stage = "loop"
  /\ cmd # NoCommand
  /\ ReceiveClosed(cmd.app)
  /\ cmd' = NoCommand
  /\ stage' = "off"
  /\ UNCHANGED <<todo, prepared, toGuest, toHost>>

-----------------------------------------------------------------------------
\* The host: handle_realm writes a command to a stream it has and reads its response.
HostSends(c) ==
  /\ stage \notin {"setup", "off"}
  /\ toGuest = NoCommand /\ cmd = NoCommand /\ toHost = NoCommand
  /\ toGuest' = c
  /\ UNCHANGED <<launcherVars, stage, todo, prepared, cmd, toHost>>

HostReads ==
  /\ toHost # NoCommand
  /\ toHost' = NoCommand
  /\ UNCHANGED <<launcherVars, stage, todo, prepared, cmd, toGuest>>

\* Handlers and processes of all applications run beside the manager.
LauncherStep ==
  /\ stage # "off"
  /\ \E p \in Proc : HandlerStep(p) \/ ProcStep(p)
  /\ UNCHANGED managerVars

ManagerStep ==
  \/ Setup \/ ReadProvisionInfo \/ Fails \/ ShutDown \/ CommandFails \/ SignalDone \/ SignalFails
  \/ \E a \in App : PrepareApp(a) \/ LaunchApp(a) \/ StartApp(a) \/ SignalApp(a)

Next ==
  \/ ManagerStep
  \/ LauncherStep
  \/ \E c \in Command : HostSends(c)
  \/ HostReads

Spec == Init /\ [][Next]_vars

\* The manager is never idle with work at hand, and below it Launcher's
\* fairness holds as long as the realm is up.
FairSpec ==
  /\ Spec
  /\ WF_vars(ShutDown \/ CommandFails \/ SignalDone \/ SignalFails
               \/ \E a \in App : StartApp(a) \/ SignalApp(a))
  /\ \A p \in Proc : /\ WF_vars(HandlerRecv(p) /\ LauncherStep)
                     /\ WF_vars(HandlerSeesExit(p) /\ LauncherStep)
                     /\ WF_vars(HandlerAnswers(p) /\ LauncherStep)
                     /\ WF_vars(ProcObeys(p) /\ LauncherStep)

-----------------------------------------------------------------------------
\* No application runs before every application of the realm is installed,
\* decrypted and mounted: one that fails to provision keeps all of them off.
NoAppBeforeAllPrepared ==
  (\E p \in Proc : proc[p] # "unborn") => \A a \in App : prepared[a] = Preparation

\* The event loop has one call of send_request open at most, the one for the
\* command it is executing; every other launcher is idle.
OneCallAtATime ==
  \A a \in App :
    /\ caller[a] # "idle" => cmd # NoCommand /\ cmd.app = a
    /\ stage = "loop" /\ cmd # NoCommand /\ cmd.app = a =>
         caller[a] = IF cmd.kind = "KillApp" THEN "Kill" ELSE "Stop"

\* When the host reads a response the command has taken effect, and nothing has
\* undone it: the process it named is gone, or started, or the realm is halting.
AnswerMeansEffect ==
  toHost # NoCommand =>
    CASE toHost.kind = "Shutdown" -> stage = "off"
      [] toHost.kind = "StartApp" -> proc[current[toHost.app]] # "unborn"
      [] OTHER -> proc[current[toHost.app]] = "reaped"

\* How far the app-manager has come, and the command it has yet to answer, seen
\* from the host.
Progress ==
  CASE stage = "setup" -> "absent"
    [] stage = "read_info" -> "connected"
    [] stage = "off" -> "gone"
    [] OTHER -> "serving"

Unanswered ==
  CASE toGuest # NoCommand -> toGuest.kind
    [] cmd # NoCommand -> cmd.kind
    [] OTHER -> "none"

Protocol == INSTANCE RealmProtocol WITH
  Realm    <- {Unknown},
  Kind     <- {c.kind : c \in Command},
  Nothing  <- "none",
  guest    <- [r \in {Unknown} |-> Progress],
  command  <- [r \in {Unknown} |-> Unanswered],
  response <- [r \in {Unknown} |-> toHost # NoCommand]

\* The app-manager keeps to RealmProtocol, which HostDaemon implements: it is as
\* a guest is there.  It answers what it was sent, once, and after a Shutdown, an
\* error of its own or one of a command, nothing more.
ManagerKeepsProtocol == Protocol!ProtocolSpec

\* A KillApp the event loop can read is answered or the realm goes down; it is
\* not held up by the application or by the output of others.
KillAppAnswered ==
  \A a \in App :
    (stage = "loop" /\ toGuest = [kind |-> "KillApp", app |-> a])
      ~> (stage = "off" \/ (toHost # NoCommand /\ toHost.kind = "KillApp"))

\* A TerminateApp the event loop can read is answered, or the realm goes down, if
\* the process obeys SIGTERM without a last word.  Only another process than such a
\* one keeps the loop, which awaits the exit, from every later command.
TerminateAnswered ==
  \A a \in App :
    (/\ stage = "loop" /\ toGuest = [kind |-> "TerminateApp", app |-> a]
     /\ current[a] \in Obedient /\ LastWords[current[a]] = 0)
      ~> (stage = "off" \/ (toHost # NoCommand /\ toHost.kind = "TerminateApp"))

\* "Terminate a running application" (vm/src/interface.rs:104): the command ends
\* that application and leaves the realm, with its other applications, up.
TerminateKeepsRealmUp ==
  [][stage = "loop" /\ cmd # NoCommand /\ cmd.kind = "TerminateApp" => stage' = "loop"]_vars
=============================================================================
