--------------------------- MODULE AppManagerProofs ---------------------------
(* Proofs about AppManager, for any applications, processes and commands.      *)
EXTENDS AppManager, LauncherProofs

(***************************************************************************)
(* The calls of the event loop.  A command that is being executed is one   *)
(* for a launcher, which has the only open call.                           *)
(***************************************************************************)
ManagerTypes ==
  /\ stage \in {"setup", "read_info", "launch", "loop", "off"} \cup Preparation
  /\ todo \subseteq App
  /\ prepared \in [App -> SUBSET Preparation]
  /\ cmd \in Command \cup {NoCommand}
  /\ toGuest \in Command \cup {NoCommand}
  /\ toHost \in Command \cup {NoCommand}
  /\ stage \in DOMAIN StageAfter => todo # {}

ExecutesSignal ==
  cmd # NoCommand =>
    stage = "loop" /\ cmd.kind \in {"TerminateApp", "KillApp"} /\ cmd.app \in App

ManagerInv == ManagerTypes /\ ExecutesSignal /\ OneCallAtATime

\* Commands have a kind and name an application or none.
LEMMA CommandFields ==
  /\ \A c \in Command : /\ c.kind \in {"StartApp", "TerminateApp", "KillApp", "Shutdown"}
                        /\ c.app \in App \cup {Unknown}
                        /\ c.kind = "Shutdown" => c.app = Unknown
  /\ Unknown \notin App /\ NoCommand \notin Command
  BY AppAssumption, CommandAssumption DEF Command

\* Before init starts the app-manager there is no command and no call.
LEMMA ManagerInit == Init => ManagerInv
  BY CommandFields
  DEF Init, LauncherInit, ManagerInv, ManagerTypes, ExecutesSignal, OneCallAtATime, StageAfter,
      Preparation

\* A stage ends with its last application.
LEMMA PassStageTypes ==
  ASSUME NEW a \in todo, ManagerTypes, stage \in DOMAIN StageAfter, PassStage(a)
  PROVE  /\ todo' \subseteq App
         /\ stage' \in {"launch", "loop"} \cup Preparation
         /\ stage' \in DOMAIN StageAfter => todo' # {}
         /\ \/ stage' = stage /\ todo' = todo \ {a}
            \/ todo = {a} /\ stage' = StageAfter[stage] /\ todo' = IF stage = "launch" THEN {} ELSE App
  BY AppAssumption DEF PassStage, ManagerTypes, StageAfter, Preparation

\* What the manager does to the launchers, one step at a time.
LEMMA ManagerStepInv ==
  ASSUME ManagerInv, LauncherTypeOK, ManagerStep
  PROVE  ManagerInv' /\ [LauncherNext]_launcherVars
<1> USE CommandFields DEF ManagerInv
<1>1. CASE Setup
  BY <1>1 DEF Setup, ManagerTypes, ExecutesSignal, OneCallAtATime, launcherVars, StageAfter
<1>2. CASE ReadProvisionInfo
  BY <1>2, AppAssumption
  DEF ReadProvisionInfo, ManagerTypes, ExecutesSignal, OneCallAtATime, launcherVars, Preparation
<1>3. CASE Fails
  BY <1>3 DEF Fails, ManagerTypes, ExecutesSignal, OneCallAtATime, launcherVars, StageAfter
<1>4. CASE ShutDown
  BY <1>4
  DEF ShutDown, Receives, Respond, ManagerTypes, ExecutesSignal, OneCallAtATime, launcherVars,
      StageAfter
<1>5. CASE CommandFails
  BY <1>5
  DEF CommandFails, Receives, ManagerTypes, ExecutesSignal, OneCallAtATime, launcherVars,
      StageAfter
<1>6. CASE SignalDone
  <2>1. cmd.app \in App /\ ReceiveStatus(cmd.app) /\ cmd' = NoCommand /\ toHost' = cmd
        /\ UNCHANGED <<stage, todo, prepared, toGuest>>
    BY <1>6 DEF SignalDone, Respond, ExecutesSignal
  <2>2. LauncherNext
    BY <2>1 DEF LauncherNext, CallerStep
  <2>3. \A a \in App : caller'[a] = IF a = cmd.app THEN "idle" ELSE caller[a]
    BY <2>1 DEF ReceiveStatus, LauncherTypeOK
  <2> QED
    BY <2>1, <2>2, <2>3 DEF ManagerTypes, ExecutesSignal, OneCallAtATime
<1>7. CASE SignalFails
  <2>1. cmd.app \in App /\ ReceiveClosed(cmd.app) /\ cmd' = NoCommand /\ stage' = "off"
        /\ UNCHANGED <<todo, prepared, toGuest, toHost>>
    BY <1>7 DEF SignalFails, ExecutesSignal
  <2>2. LauncherNext
    BY <2>1 DEF LauncherNext, CallerStep
  <2>3. \A a \in App : caller'[a] = IF a = cmd.app THEN "idle" ELSE caller[a]
    BY <2>1 DEF ReceiveClosed, LauncherTypeOK
  <2> QED
    BY <2>1, <2>2, <2>3 DEF ManagerTypes, ExecutesSignal, OneCallAtATime, StageAfter
<1>8. ASSUME NEW a \in App, PrepareApp(a) PROVE ManagerInv' /\ [LauncherNext]_launcherVars
  <2>1. a \in todo /\ stage \in DOMAIN StageAfter /\ PassStage(a) /\ cmd = NoCommand
    BY <1>8 DEF PrepareApp, StageAfter, Preparation, ExecutesSignal
  <2>2. prepared' \in [App -> SUBSET Preparation]
    BY <1>8 DEF PrepareApp, ManagerTypes
  <2>3. UNCHANGED <<launcherVars, cmd, toGuest, toHost>>
    BY <1>8 DEF PrepareApp
  <2> QED
    BY <2>1, <2>2, <2>3, PassStageTypes
    DEF ManagerTypes, ExecutesSignal, OneCallAtATime, launcherVars
<1>9. ASSUME NEW a \in App, LaunchApp(a) PROVE ManagerInv' /\ [LauncherNext]_launcherVars
  <2>1. a \in todo /\ stage \in DOMAIN StageAfter /\ PassStage(a) /\ cmd = NoCommand
    BY <1>9 DEF LaunchApp, StageAfter, ExecutesSignal
  <2>2. \E p \in Proc : Launch(a, p)
    BY <1>9 DEF LaunchApp
  <2>3. LauncherNext /\ UNCHANGED caller
    BY <2>2 DEF LauncherNext, CallerStep, Launch
  <2>4. UNCHANGED <<prepared, cmd, toGuest, toHost>>
    BY <1>9 DEF LaunchApp
  <2> QED
    BY <2>1, <2>3, <2>4, PassStageTypes DEF ManagerTypes, ExecutesSignal, OneCallAtATime
<1>10. ASSUME NEW a \in App, StartApp(a) PROVE ManagerInv' /\ [LauncherNext]_launcherVars
  <2>1. \E p \in Proc : Launch(a, p)
    BY <1>10 DEF StartApp
  <2>2. LauncherNext /\ UNCHANGED caller
    BY <2>1 DEF LauncherNext, CallerStep, Launch
  <2>3. /\ UNCHANGED <<stage, todo, prepared, cmd>>
        /\ toGuest' = NoCommand /\ toHost' \in Command
    BY <1>10 DEF StartApp, Receives, Respond
  <2> QED
    BY <2>2, <2>3 DEF ManagerTypes, ExecutesSignal, OneCallAtATime
<1>11. ASSUME NEW a \in App, SignalApp(a) PROVE ManagerInv' /\ [LauncherNext]_launcherVars
  <2>1. PICK c \in Command :
          /\ c.kind \in {"TerminateApp", "KillApp"} /\ c.app = a
          /\ Receives(c)
          /\ SendRequest(a, IF c.kind = "KillApp" THEN "Kill" ELSE "Stop")
          /\ cmd' = c
          /\ UNCHANGED <<stage, todo, prepared, toHost>>
    BY <1>11 DEF SignalApp
  <2>2. LauncherNext
    BY <2>1 DEF LauncherNext, CallerStep, Requests
  <2>3. /\ stage = "loop" /\ cmd = NoCommand /\ toGuest' = NoCommand
        /\ caller' = [caller EXCEPT ![a] = IF c.kind = "KillApp" THEN "Kill" ELSE "Stop"]
    BY <2>1 DEF Receives, SendRequest
  <2>4. \A b \in App : caller[b] = "idle"
    BY <2>3 DEF OneCallAtATime
  <2>5. \A b \in App : b # a => caller'[b] = "idle"
    BY <2>3, <2>4
  <2>6. caller'[a] = IF c.kind = "KillApp" THEN "Kill" ELSE "Stop"
    BY <2>1 DEF SendRequest, LauncherTypeOK
  <2> QED
    BY <2>1, <2>2, <2>3, <2>5, <2>6 DEF ManagerTypes, ExecutesSignal, OneCallAtATime
<1> QED
  BY <1>1, <1>2, <1>3, <1>4, <1>5, <1>6, <1>7, <1>8, <1>9, <1>10, <1>11 DEF ManagerStep

\* Handlers and processes leave the manager and its calls alone.
LEMMA LauncherStepKeeps ==
  ASSUME LauncherStep
  PROVE  LauncherNext /\ UNCHANGED <<caller, current, managerVars>>
<1>1. PICK p \in Proc : HandlerStep(p) \/ ProcStep(p)
  BY DEF LauncherStep
<1>2. UNCHANGED <<caller, current>>
  BY <1>1
  DEF HandlerStep, HandlerRecv, HandlerSuperseded, HandlerReads, HandlerReadError, HandlerSeesExit,
      HandlerAnswers, ProcStep, ProcWrites, ProcSaysLastWords, ProcExits
<1> QED
  BY <1>1, <1>2 DEF LauncherStep, LauncherNext

\* Every step of the realm keeps the invariant and is a step of the launchers or none.
LEMMA ManagerNextInv ==
  ASSUME ManagerInv, LauncherTypeOK, [Next]_vars
  PROVE  ManagerInv' /\ [LauncherNext]_launcherVars
<1>1. CASE UNCHANGED vars
  BY <1>1
  DEF vars, managerVars, launcherVars, ManagerInv, ManagerTypes, ExecutesSignal, OneCallAtATime
<1>2. CASE LauncherStep
  BY <1>2, LauncherStepKeeps
  DEF managerVars, ManagerInv, ManagerTypes, ExecutesSignal, OneCallAtATime
<1>3. ASSUME NEW c \in Command, HostSends(c)
      PROVE  ManagerInv' /\ [LauncherNext]_launcherVars
  BY <1>3 DEF HostSends, launcherVars, ManagerInv, ManagerTypes, ExecutesSignal, OneCallAtATime
<1>4. CASE HostReads
  BY <1>4 DEF HostReads, launcherVars, ManagerInv, ManagerTypes, ExecutesSignal, OneCallAtATime
<1> QED
  BY <1>1, <1>2, <1>3, <1>4, ManagerStepInv DEF Next

\* Both invariants hold in every state: the one of the event loop needs the one of the
\* launchers it calls, and keeps it because it only calls their operations.
THEOREM ManagerInvariant == Spec => [](LauncherInv /\ ManagerInv)
<1>1. Init => LauncherInv /\ ManagerInv
  BY InitInv, ManagerInit DEF Init
<1>2. LauncherInv /\ ManagerInv /\ [Next]_vars => (LauncherInv /\ ManagerInv)'
  BY ManagerNextInv, NextInv DEF LauncherInv
<1> QED
  BY <1>1, <1>2, PTL DEF Spec

\* The manager is a user of the launchers: provisioning, commands and failures
\* do to them what their specification says, so its theorems hold in the realm.
THEOREM ManagerUsesLaunchers == Spec => LauncherSpec
<1>1. Init => LauncherInit
  BY DEF Init
<1>2. LauncherInv /\ ManagerInv /\ [Next]_vars => [LauncherNext]_launcherVars
  BY ManagerNextInv DEF LauncherInv
<1> QED
  BY <1>1, <1>2, ManagerInvariant, PTL DEF Spec, LauncherSpec

\* The types of the manager and of its launchers.
THEOREM ManagerTypeCorrect == Spec => []AppManagerTypeOK
<1>1. LauncherInv /\ ManagerInv => AppManagerTypeOK
  BY DEF LauncherInv, ManagerInv, ManagerTypes, AppManagerTypeOK
<1> QED
  BY <1>1, ManagerInvariant, PTL

\* The event loop has one call of send_request open, for the command it is
\* executing: statuses cannot go to the wrong command, for any applications.
THEOREM OneCall == Spec => []OneCallAtATime
<1>1. ManagerInv => OneCallAtATime
  BY DEF ManagerInv
<1> QED
  BY <1>1, ManagerInvariant, PTL

-----------------------------------------------------------------------------
(***************************************************************************)
(* The stages: each is passed by every application before the next begins, *)
(* and nothing is launched until then.                                     *)
(***************************************************************************)
StagesBefore ==
  [decrypt_main |-> {}, provision_image |-> {"decrypt_main"},
   decrypt_secure |-> {"decrypt_main", "provision_image"},
   provision_secure |-> {"decrypt_main", "provision_image", "decrypt_secure"},
   mount_overlay |-> {"decrypt_main", "provision_image", "decrypt_secure", "provision_secure"}]

StagesInOrder ==
  /\ stage \in Preparation =>
       \A a \in App : /\ StagesBefore[stage] \subseteq prepared[a]
                      /\ a \notin todo => stage \in prepared[a]
  /\ stage \in {"launch", "loop"} => \A a \in App : prepared[a] = Preparation
  /\ stage \in {"setup", "read_info"} \cup Preparation => \A p \in Proc : proc[p] = "unborn"

PreparedInv == StagesInOrder /\ NoAppBeforeAllPrepared

\* Only a launch brings a process to life, and none comes back.
LEMMA BornByLaunch ==
  ASSUME LauncherTypeOK, LauncherStep
  PROVE  \A p \in Proc : /\ proc[p] = "unborn" <=> proc'[p] = "unborn"
                         /\ proc[p] = "reaped" => proc'[p] = "reaped"
<1>1. PICK p \in Proc : HandlerStep(p) \/ ProcStep(p)
  BY DEF LauncherStep
<1>2. \/ UNCHANGED proc
      \/ proc[p] \in {"running", "exited"}
         /\ \E v \in {"exited", "reaped"} : proc' = [proc EXCEPT ![p] = v]
  BY <1>1
  DEF HandlerStep, HandlerRecv, HandlerSuperseded, HandlerReads, HandlerReadError, HandlerSeesExit,
      HandlerAnswers, ProcStep, ProcWrites, ProcSaysLastWords, ProcExits, processVars
<1> QED
  BY <1>2 DEF LauncherTypeOK

\* A step at which no application is prepared or launched, and which does not
\* begin to prepare them, or ends the realm.
LEMMA PreparedKept ==
  ASSUME PreparedInv, UNCHANGED prepared,
         \A p \in Proc : proc[p] = "unborn" <=> proc'[p] = "unborn",
         UNCHANGED <<stage, todo>> \/ stage' = "off"
  PROVE  PreparedInv'
  BY DEF PreparedInv, StagesInOrder, NoAppBeforeAllPrepared, Preparation

\* A stage of one application: the last one to pass it moves all to the next stage.
LEMMA PreparedPrepareApp ==
  ASSUME PreparedInv, ManagerTypes, NEW a \in App, PrepareApp(a)
  PROVE  PreparedInv'
<1>1. /\ stage \in Preparation /\ a \in todo /\ PassStage(a) /\ UNCHANGED proc
      /\ \A b \in App : prepared'[b] = IF b = a THEN prepared[b] \cup {stage} ELSE prepared[b]
  BY DEF PrepareApp, ManagerTypes, launcherVars, processVars
<1>2. \A p \in Proc : proc[p] = "unborn"
  BY <1>1 DEF PreparedInv, StagesInOrder
<1>3. stage \in DOMAIN StageAfter
  BY <1>1 DEF Preparation, StageAfter
<1>4. CASE stage' = stage /\ todo' = todo \ {a}
  BY <1>1, <1>2, <1>4 DEF PreparedInv, StagesInOrder, NoAppBeforeAllPrepared, Preparation
<1>5. CASE todo = {a} /\ stage' = StageAfter[stage]
           /\ todo' = IF stage = "launch" THEN {} ELSE App
  <2>1. \A b \in App : StagesBefore[stage] \cup {stage} \subseteq prepared'[b]
    BY <1>1, <1>5 DEF PreparedInv, StagesInOrder
  <2>2. /\ stage' \in Preparation => StagesBefore[stage'] = StagesBefore[stage] \cup {stage}
        /\ stage' = "launch" => StagesBefore[stage] \cup {stage} = Preparation
        /\ stage' \in Preparation \cup {"launch"}
    BY <1>1, <1>5 DEF Preparation, StageAfter, StagesBefore
  <2>3. \A b \in App : prepared'[b] \subseteq Preparation
    BY <1>1 DEF ManagerTypes
  <2>4. todo' = App
    BY <1>1, <1>5 DEF Preparation
  <2> QED
    BY <1>1, <1>2, <2>1, <2>2, <2>3, <2>4
    DEF PreparedInv, StagesInOrder, NoAppBeforeAllPrepared, Preparation
<1> QED
  BY <1>1, <1>3, <1>4, <1>5, PassStageTypes

\* Only PrepareApp prepares and only Launch starts a process; the rest changes neither.
LEMMA PreparedStep ==
  LauncherInv /\ ManagerInv /\ PreparedInv /\ [Next]_vars => PreparedInv'
<1> SUFFICES ASSUME LauncherInv, ManagerInv, PreparedInv, [Next]_vars PROVE PreparedInv'
  OBVIOUS
<1>1. LauncherTypeOK /\ ManagerTypes /\ [LauncherNext]_launcherVars
  BY ManagerNextInv DEF LauncherInv, ManagerInv
<1>2. ASSUME NEW a \in App, NEW p \in Proc, Launch(a, p), UNCHANGED prepared,
             stage \in {"launch", "loop"}, stage' \in {"launch", "loop"}
      PROVE  PreparedInv'
  BY <1>2 DEF PreparedInv, StagesInOrder, NoAppBeforeAllPrepared, Preparation
<1>3. ASSUME UNCHANGED proc, UNCHANGED prepared, UNCHANGED <<stage, todo>> \/ stage' = "off"
      PROVE  PreparedInv'
  BY <1>3, PreparedKept
<1>4. CASE UNCHANGED vars
  BY <1>3, <1>4 DEF vars, managerVars, launcherVars, processVars
<1>5. CASE LauncherStep
  BY <1>1, <1>5, BornByLaunch, LauncherStepKeeps, PreparedKept DEF managerVars
<1>6. ASSUME NEW c \in Command, HostSends(c) PROVE PreparedInv'
  BY <1>3, <1>6 DEF HostSends, launcherVars, processVars
<1>7. CASE HostReads
  BY <1>3, <1>7 DEF HostReads, launcherVars, processVars
<1>8. CASE Setup
  BY <1>8
  DEF Setup, launcherVars, processVars, PreparedInv, StagesInOrder, NoAppBeforeAllPrepared,
      Preparation
<1>9. CASE ReadProvisionInfo
  BY <1>9
  DEF ReadProvisionInfo, launcherVars, processVars, PreparedInv, StagesInOrder,
      NoAppBeforeAllPrepared, Preparation, StagesBefore
<1>10. CASE Fails \/ ShutDown \/ CommandFails
  BY <1>3, <1>10 DEF Fails, ShutDown, CommandFails, launcherVars, processVars
<1>11. CASE SignalDone \/ SignalFails
  BY <1>3, <1>11 DEF SignalDone, SignalFails, ReceiveStatus, ReceiveClosed, processVars
<1>12. ASSUME NEW a \in App, PrepareApp(a) PROVE PreparedInv'
  BY <1>1, <1>12, PreparedPrepareApp
<1>13. ASSUME NEW a \in App, LaunchApp(a) PROVE PreparedInv'
  <2>1. stage = "launch" /\ a \in todo /\ PassStage(a) /\ UNCHANGED prepared
    BY <1>13 DEF LaunchApp
  <2>2. stage' \in {"launch", "loop"}
    BY <1>1, <2>1, PassStageTypes DEF StageAfter
  <2> QED
    BY <1>2, <1>13, <2>1, <2>2 DEF LaunchApp
<1>14. ASSUME NEW a \in App, StartApp(a) PROVE PreparedInv'
  BY <1>2, <1>14 DEF StartApp, Receives
<1>15. ASSUME NEW a \in App, SignalApp(a) PROVE PreparedInv'
  BY <1>3, <1>15 DEF SignalApp, SendRequest, processVars
<1> QED
  BY <1>4, <1>5, <1>6, <1>7, <1>8, <1>9, <1>10, <1>11, <1>12, <1>13, <1>14, <1>15
  DEF Next, ManagerStep

\* Whatever fails and whenever, no application runs in a realm of which some
\* application was not installed, decrypted and mounted.
THEOREM NoAppEarly == Spec => []NoAppBeforeAllPrepared
<1>1. Init => PreparedInv
  BY DEF Init, LauncherInit, PreparedInv, StagesInOrder, NoAppBeforeAllPrepared, Preparation
<1>2. PreparedInv => NoAppBeforeAllPrepared
  BY DEF PreparedInv
<1> QED
  BY <1>1, <1>2, PreparedStep, ManagerInvariant, PTL DEF Spec

-----------------------------------------------------------------------------
(***************************************************************************)
(* The answers.  The host sends nothing while an answer is on its way, so  *)
(* nothing the manager does comes between an effect and its answer.        *)
(***************************************************************************)
OneOnTheWire ==
  /\ toHost # NoCommand => toGuest = NoCommand /\ cmd = NoCommand /\ stage \in {"loop", "off"}
  /\ toHost # NoCommand /\ toHost.kind # "Shutdown" => current[toHost.app] \in Proc
  /\ toGuest # NoCommand => cmd = NoCommand

AnswerInv == OneOnTheWire /\ AnswerMeansEffect

\* An answer is put on the stream by the step that has the effect, with nothing else on it.
LEMMA AnswerStep ==
  LauncherInv /\ ManagerInv /\ AnswerInv /\ [Next]_vars => AnswerInv'
<1> SUFFICES ASSUME LauncherInv, ManagerInv, AnswerInv, [Next]_vars PROVE AnswerInv'
  OBVIOUS
<1>0. LauncherTypeOK
  BY DEF LauncherInv
<1>1. ASSUME UNCHANGED <<toHost, proc, current>>, toHost = NoCommand \/ UNCHANGED <<toGuest, cmd>>,
             toHost = NoCommand \/ UNCHANGED stage \/ stage' = "off",
             toGuest' # NoCommand => cmd' = NoCommand
      PROVE  AnswerInv'
  BY <1>1 DEF AnswerInv, OneOnTheWire, AnswerMeansEffect
<1>2. ASSUME toHost' = NoCommand, toGuest' # NoCommand => cmd' = NoCommand PROVE AnswerInv'
  BY <1>2 DEF AnswerInv, OneOnTheWire, AnswerMeansEffect
<1>3. CASE UNCHANGED vars
  BY <1>1, <1>3 DEF vars, managerVars, launcherVars, processVars, AnswerInv, OneOnTheWire
<1>4. CASE LauncherStep
  <2>1. UNCHANGED <<managerVars, current>>
    BY <1>4, LauncherStepKeeps
  <2>2. \A p \in Proc : /\ proc[p] = "unborn" <=> proc'[p] = "unborn"
                        /\ proc[p] = "reaped" => proc'[p] = "reaped"
    BY <1>0, <1>4, BornByLaunch
  <2> QED
    BY <2>1, <2>2 DEF managerVars, AnswerInv, OneOnTheWire, AnswerMeansEffect
<1>5. ASSUME NEW c \in Command, HostSends(c) PROVE AnswerInv'
  BY <1>2, <1>5 DEF HostSends
<1>6. CASE HostReads
  BY <1>2, <1>6 DEF HostReads, AnswerInv, OneOnTheWire
<1>7. CASE Setup \/ ReadProvisionInfo \/ Fails
  BY <1>1, <1>7
  DEF Setup, ReadProvisionInfo, Fails, launcherVars, processVars, AnswerInv, OneOnTheWire
<1>8. CASE ShutDown
  BY <1>8, CommandFields
  DEF ShutDown, Receives, Respond, AnswerInv, OneOnTheWire, AnswerMeansEffect
<1>9. CASE CommandFails
  BY <1>2, <1>9, CommandFields DEF CommandFails, Receives, AnswerInv, OneOnTheWire
<1>10. CASE SignalDone
  <2>1. /\ cmd \in Command /\ cmd.kind \in {"TerminateApp", "KillApp"} /\ cmd.app \in App
        /\ ReceiveStatus(cmd.app) /\ cmd' = NoCommand /\ toHost' = cmd
        /\ toGuest' = toGuest /\ stage' = stage /\ stage = "loop"
    BY <1>10 DEF SignalDone, Respond, ManagerInv, ManagerTypes, ExecutesSignal
  <2>2. toGuest = NoCommand
    BY <1>10 DEF SignalDone, AnswerInv, OneOnTheWire
  <2>3. current[cmd.app] \in Proc /\ proc[current[cmd.app]] = "reaped" /\ UNCHANGED <<proc, current>>
    BY <2>1
    DEF ReceiveStatus, processVars, LauncherInv, LauncherTypeOK, CallHasProcess, StatusMeansExited
  <2> QED
    BY <2>1, <2>2, <2>3, CommandFields DEF AnswerInv, OneOnTheWire, AnswerMeansEffect
<1>11. CASE SignalFails
  BY <1>2, <1>11 DEF SignalFails, AnswerInv, OneOnTheWire
<1>12. ASSUME NEW a \in App, PrepareApp(a) PROVE AnswerInv'
  BY <1>2, <1>12 DEF PrepareApp, Preparation, AnswerInv, OneOnTheWire
<1>13. ASSUME NEW a \in App, LaunchApp(a) PROVE AnswerInv'
  BY <1>2, <1>13 DEF LaunchApp, AnswerInv, OneOnTheWire
<1>14. ASSUME NEW a \in App, StartApp(a) PROVE AnswerInv'
  <2>1. PICK c \in Command, p \in Proc :
          /\ c.kind = "StartApp" /\ c.app = a /\ Receives(c) /\ Launch(a, p) /\ toHost' = c
          /\ UNCHANGED <<stage, cmd>>
    BY <1>14 DEF StartApp, Respond
  <2>2. current'[a] = p /\ proc'[p] = "running"
    BY <1>0, <2>1 DEF Launch, LauncherTypeOK
  <2> QED
    BY <2>1, <2>2, CommandFields DEF Receives, AnswerInv, OneOnTheWire, AnswerMeansEffect
<1>15. ASSUME NEW a \in App, SignalApp(a) PROVE AnswerInv'
  BY <1>2, <1>15, CommandFields DEF SignalApp, Receives, AnswerInv, OneOnTheWire
<1> QED
  BY <1>3, <1>4, <1>5, <1>6, <1>7, <1>8, <1>9, <1>10, <1>11, <1>12, <1>13, <1>14, <1>15
  DEF Next, ManagerStep

\* A response the host reads is true: the process the command named is gone or
\* started, or the realm is halting, and nothing has undone it.
THEOREM AnswersAreTrue == Spec => []AnswerMeansEffect
<1>1. Init => AnswerInv
  BY DEF Init, AnswerInv, OneOnTheWire, AnswerMeansEffect
<1>2. AnswerInv => AnswerMeansEffect
  BY DEF AnswerInv
<1> QED
  BY <1>1, <1>2, AnswerStep, ManagerInvariant, PTL DEF Spec

-----------------------------------------------------------------------------
(***************************************************************************)
(* The stream, seen from the app-manager's end.  The host is an abstract   *)
(* one, which sends one command at a time to a guest that has connected:   *)
(* with it every step of the manager is one of RealmProtocol, or none.     *)
(***************************************************************************)
\* A step of the protocol changes what the host sees of this realm, its only one.
LEMMA ProtocolStep ==
  ASSUME Protocol!Connect(Unknown) \/ (\E k \in {c.kind : c \in Command} : Protocol!Send(Unknown, k))
           \/ Protocol!ReadInfo(Unknown) \/ Protocol!Reply(Unknown) \/ Protocol!End(Unknown)
           \/ Protocol!Read(Unknown)
  PROVE  Protocol!ProtocolNext
  BY DEF Protocol!ProtocolNext

\* Steps the host sees nothing of.
LEMMA ProtocolStutters ==
  ASSUME UNCHANGED <<toGuest, cmd, toHost>>, Progress' = Progress
  PROVE  UNCHANGED Protocol!protocolVars
  BY DEF Protocol!protocolVars, Unanswered

\* A command is answered by the step after which it is neither unread nor executed.
LEMMA ProtocolReply ==
  ASSUME Progress = "serving", Unanswered # "none", Unanswered' = "none", toHost' # NoCommand,
         Progress' = IF Unanswered = "Shutdown" THEN "gone" ELSE "serving"
  PROVE  Protocol!ProtocolNext
  BY ProtocolStep DEF Protocol!Reply

\* The realm goes down, with the command it was executing or has not read.
LEMMA ProtocolEnd ==
  ASSUME stage' = "off", UNCHANGED toHost, Unanswered' \in {Unanswered, "none"}
  PROVE  Protocol!ProtocolNext
  BY ProtocolStep DEF Protocol!End, Progress

\* Every step of the realm is one of the protocol, as long as the host keeps to it.
LEMMA ManagerProtocolStep ==
  LauncherInv /\ ManagerInv /\ AnswerInv /\ [Next]_vars
    => [Protocol!ProtocolNext]_(Protocol!protocolVars)
<1> SUFFICES ASSUME LauncherInv, ManagerInv, AnswerInv, [Next]_vars
             PROVE  [Protocol!ProtocolNext]_(Protocol!protocolVars)
  OBVIOUS
<1>0. /\ toGuest # NoCommand => cmd = NoCommand
      /\ toHost # NoCommand => Unanswered = "none"
      /\ \A c \in Command : c.kind # "none" /\ c # NoCommand
  BY CommandFields DEF AnswerInv, OneOnTheWire, Unanswered
<1>1. CASE UNCHANGED vars
  BY <1>1, ProtocolStutters DEF vars, managerVars, Progress
<1>2. CASE LauncherStep
  BY <1>2, ProtocolStutters DEF LauncherStep, managerVars, Progress
<1>3. ASSUME NEW c \in Command, HostSends(c) PROVE Protocol!ProtocolNext
  <2>1. Protocol!Send(Unknown, c.kind)
    BY <1>0, <1>3
    DEF HostSends, Protocol!Send, Progress, Unanswered, ManagerInv, ManagerTypes, Preparation
  <2> QED
    BY <2>1, ProtocolStep
<1>4. CASE HostReads
  <2>1. /\ toHost # NoCommand /\ toHost' = NoCommand
        /\ Progress' = Progress /\ Unanswered' = Unanswered
    BY <1>4 DEF HostReads, Progress, Unanswered
  <2>2. Protocol!Read(Unknown)
    BY <2>1 DEF Protocol!Read
  <2> QED
    BY <2>2, ProtocolStep
<1>5. CASE Setup
  <2>1. Protocol!Connect(Unknown)
    BY <1>5 DEF Setup, Protocol!Connect, Progress, Unanswered
  <2> QED
    BY <2>1, ProtocolStep
<1>6. CASE ReadProvisionInfo
  <2>1. Unanswered' \in {Unanswered, "none"}
    BY <1>0, <1>6 DEF ReadProvisionInfo, Unanswered, ManagerInv, ExecutesSignal
  <2>2. Protocol!ReadInfo(Unknown)
    BY <1>6, <2>1 DEF ReadProvisionInfo, Protocol!ReadInfo, Progress
  <2> QED
    BY <2>2, ProtocolStep
<1>7. CASE Fails
  BY <1>7, ProtocolEnd DEF Fails, Unanswered
<1>8. CASE ShutDown
  <2>1. PICK c \in Command : c.kind = "Shutdown" /\ Receives(c) /\ toHost' = c
                             /\ stage' = "off" /\ UNCHANGED cmd
    BY <1>8 DEF ShutDown, Respond
  <2>2. Unanswered = "Shutdown" /\ Unanswered' = "none" /\ Progress = "serving"
    BY <1>0, <2>1 DEF Receives, Unanswered, Progress
  <2> QED
    BY <1>0, <2>1, <2>2, ProtocolReply DEF Progress
<1>9. CASE CommandFails
  BY <1>0, <1>9, ProtocolEnd DEF CommandFails, Receives, Unanswered
<1>10. CASE SignalDone
  <2>1. /\ cmd \in Command /\ cmd.kind \in {"TerminateApp", "KillApp"}
        /\ cmd' = NoCommand /\ toHost' = cmd /\ UNCHANGED <<toGuest, stage>> /\ stage = "loop"
    BY <1>10 DEF SignalDone, Respond, ManagerInv, ManagerTypes, ExecutesSignal
  <2>2. Unanswered = cmd.kind /\ Unanswered' = "none"
    BY <1>0, <2>1 DEF Unanswered
  <2> QED
    BY <1>0, <2>1, <2>2, ProtocolReply DEF Progress
<1>11. CASE SignalFails
  BY <1>0, <1>11, ProtocolEnd DEF SignalFails, Unanswered
<1>12. ASSUME NEW a \in App, PrepareApp(a) \/ LaunchApp(a)
       PROVE  UNCHANGED Protocol!protocolVars
  <2>1. a \in todo /\ PassStage(a) /\ stage \in DOMAIN StageAfter /\ UNCHANGED <<toGuest, cmd, toHost>>
    BY <1>12 DEF PrepareApp, LaunchApp, StageAfter, Preparation
  <2>2. stage' \in {"launch", "loop"} \cup Preparation
    BY <2>1, PassStageTypes DEF ManagerInv
  <2> QED
    BY <2>1, <2>2, ProtocolStutters DEF Progress, StageAfter, Preparation
<1>13. ASSUME NEW a \in App, StartApp(a) PROVE Protocol!ProtocolNext
  <2>1. PICK c \in Command : /\ c.kind = "StartApp" /\ Receives(c) /\ toHost' = c
                             /\ UNCHANGED <<stage, cmd>>
    BY <1>13 DEF StartApp, Respond
  <2>2. Unanswered = c.kind /\ Unanswered' = "none" /\ Progress = "serving"
    BY <1>0, <2>1 DEF Receives, Unanswered, Progress
  <2> QED
    BY <1>0, <2>1, <2>2, ProtocolReply DEF Progress
<1>14. ASSUME NEW a \in App, SignalApp(a) PROVE UNCHANGED Protocol!protocolVars
  <2>1. PICK c \in Command : Receives(c) /\ cmd' = c /\ UNCHANGED <<stage, toHost>>
    BY <1>14 DEF SignalApp
  <2>2. Unanswered' = Unanswered /\ Progress' = Progress
    BY <1>0, <2>1 DEF Receives, Unanswered, Progress
  <2> QED
    BY <2>1, <2>2 DEF Protocol!protocolVars
<1> QED
  BY <1>1, <1>2, <1>3, <1>4, <1>5, <1>6, <1>7, <1>8, <1>9, <1>10, <1>11, <1>12, <1>13, <1>14
  DEF Next, ManagerStep

\* The app-manager implements the guest of RealmProtocol, for any applications:
\* one answer to each command it has read, and none after Shutdown or an error.
THEOREM ManagerImplementsProtocol == Spec => ManagerKeepsProtocol
<1>1. Init => Protocol!ProtocolInit
  BY DEF Init, Protocol!ProtocolInit, Progress, Unanswered
<1>2. Init => AnswerInv
  BY DEF Init, AnswerInv, OneOnTheWire, AnswerMeansEffect
<1> QED
  BY <1>1, <1>2, AnswerStep, ManagerProtocolStep, ManagerInvariant, PTL
  DEF Spec, ManagerKeepsProtocol, Protocol!ProtocolSpec
=============================================================================
