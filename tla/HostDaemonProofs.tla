--------------------------- MODULE HostDaemonProofs ---------------------------
(* Proofs about HostDaemon, for any clients, realms and cids.                  *)
EXTENDS HostDaemon, ConnectionDispatcherProofs

(***************************************************************************)
(* The daemon and the guests touch the dispatcher through its operations   *)
(* only, so what is proved of ConnectionDispatcher holds in the daemon.    *)
(***************************************************************************)
\* A task asks for a stream, drops its receiver, or leaves the dispatcher alone.
LEMMA TasksUseDispatcher ==
  ASSUME NEW r \in Realm, TaskStep(r)
  PROVE  RequestStream(r) \/ DropReceivers({r}) \/ UNCHANGED dispatcherVars
  BY DEF TaskStep, TaskRequestsStream, TaskAttaches, TaskTimeout, TaskSeesExit, TaskIOError,
         TaskTakesRequest, TaskReadsResponse, TaskEnds, EndTasks

\* A guest dials, or leaves it alone.
LEMMA GuestsUseDispatcher ==
  ASSUME NEW r \in Realm, GuestStep(r)
  PROVE  Dial(r) \/ UNCHANGED dispatcherVars
  BY DEF GuestStep, GuestConnects, GuestReadsInfo, GuestReplies, GuestFails, QemuExits

\* The tasks of clients that are aborted drop their receivers.
LEMMA DropClientsUsesDispatcher ==
  ASSUME NEW C, DropClients(C)
  PROVE  \E R \in SUBSET Realm : DropReceivers(R)
<1> DEFINE R == {r \in Realm : Owner[r] \in C /\ task[r] \in Live}
<1>1. DropReceivers(R)
  BY DEF DropClients, EndTasks
<1> QED
  BY <1>1

\* A client's handler touches it only by the end of its tasks.
LEMMA ClientsUseDispatcher ==
  ASSUME NEW c \in Client, ClientStep(c)
  PROVE  (\E R \in SUBSET Realm : DropReceivers(R)) \/ UNCHANGED dispatcherVars
<1>1. CASE ClientIOError(c)
  BY <1>1, DropClientsUsesDispatcher DEF ClientIOError
<1>2. CASE ~ClientIOError(c)
  BY <1>2 DEF ClientStep, ClientCommand, ClientConnects, ReceiveResponse, WriteAnswer,
              ClientLeaves, ClientJoined, CreateRealm, LaunchRealm, SendRequest
<1> QED
  BY <1>1, <1>2

\* The listener's steps are the dispatcher's own; main and the acceptor drop clients.
LEMMA DaemonUsesDispatcher ==
  ASSUME DaemonStep
  PROVE  [DispatcherNext]_dispatcherVars
<1>1. CASE MainFails \/ AcceptorFails
  BY <1>1, DropClientsUsesDispatcher DEF MainFails, AcceptorFails, DispatcherNext
<1>2. CASE ListenerStep
  BY <1>2 DEF ListenerStep, DispatcherNext
<1>3. CASE MainSelects \/ MainAwaits \/ AcceptorCancelled \/ AcceptorJoined
  BY <1>3 DEF MainSelects, MainAwaits, AcceptorCancelled, AcceptorJoined
<1> QED
  BY <1>1, <1>2, <1>3 DEF DaemonStep

\* Every step of the daemon is one of the dispatcher's, or leaves it alone.
LEMMA HostStepsDispatcher == [Next]_vars => [DispatcherNext]_dispatcherVars
<1> SUFFICES ASSUME [Next]_vars PROVE [DispatcherNext]_dispatcherVars
  OBVIOUS
<1>1. CASE UNCHANGED vars
  BY <1>1 DEF vars
<1>2. ASSUME NEW r \in Realm, TaskStep(r) PROVE [DispatcherNext]_dispatcherVars
  BY <1>2, TasksUseDispatcher, {r} \in SUBSET Realm DEF DispatcherNext
<1>3. ASSUME NEW r \in Realm, GuestStep(r) PROVE [DispatcherNext]_dispatcherVars
  BY <1>3, GuestsUseDispatcher DEF DispatcherNext
<1>4. ASSUME NEW c \in Client, ClientStep(c) PROVE [DispatcherNext]_dispatcherVars
  BY <1>4, ClientsUseDispatcher DEF DispatcherNext
<1> QED
  BY <1>1, <1>2, <1>3, <1>4, DaemonUsesDispatcher DEF Next

\* The daemon is a user of the dispatcher: clients, timeouts, aborted tasks and
\* a failing main do to it what its specification says, and nothing else.
THEOREM HostUsesDispatcher == Spec => DispatcherSafety
<1>1. Init => DispatcherInit
  BY DEF Init
<1> QED
  BY <1>1, HostStepsDispatcher, PTL DEF Spec, DispatcherSafety

\* In the whole daemon a task that waits and a stream with its cid meet at once.
THEOREM HostMeets == Spec => MeetsAtOnce
<1>1. Spec => DispatcherSafety
  BY HostUsesDispatcher
<1> QED
  BY <1>1, SafetyMeets, PTL

\* ... and its maps and channels satisfy the inductive invariant of the dispatcher.
THEOREM HostDispatcherInvariant == Spec => []DispatcherInv
  BY HostUsesDispatcher, SafetyInvariant, PTL

-----------------------------------------------------------------------------
(***************************************************************************)
(* Requests and responses.  The client has one call, its task one request  *)
(* at a time; what is in the channels belongs to that call, for a task     *)
(* that ends takes a queued request with it and a client that goes takes   *)
(* its tasks and their responses.                                          *)
(***************************************************************************)
CallTypes ==
  /\ task    \in [Realm -> {"none"} \cup Live \cup Ended]
  /\ reqCh   \in [Realm -> Request \cup {NoRequest}]
  /\ respCh  \in [Realm -> {NoResponse, "Ok", "RealmNotConnected"}]
  /\ realms  \in [Realm -> {"absent", "defined", "launched"}]
  /\ client  \in [Client -> {"absent", "idle", "waiting", "replying", "joining", "gone"}]
  /\ calling \in [Client -> Realm \cup {NoRealm}]

WaitingIsCalling ==
  \A c \in Client :
    /\ client[c] = "waiting" <=> calling[c] # NoRealm
    /\ calling[c] # NoRealm => Owner[calling[c]] = c

OnlyLiveTasksHaveRequests ==
  \A r \in Realm : /\ task[r] \notin Live => reqCh[r] = NoRequest
                   /\ realms[r] # "launched" => task[r] = "none"

\* OneOutstanding without the sets.
CallInOnePlace ==
  \A r \in Realm :
    LET queued == reqCh[r] # NoRequest
        forwarded == task[r] = "awaiting"
        answered == respCh[r] # NoResponse
    IN IF calling[Owner[r]] = r
       THEN /\ queued \/ forwarded \/ answered \/ task[r] \in Ended
            /\ ~(queued /\ forwarded) /\ ~(queued /\ answered) /\ ~(forwarded /\ answered)
       ELSE ~queued /\ ~forwarded /\ ~answered

CallsInv == CallTypes /\ WaitingIsCalling /\ OnlyLiveTasksHaveRequests /\ CallInOnePlace

callVars == <<task, reqCh, respCh, realms, client, calling>>

\* At the start there is no client, no task and no request.
LEMMA CallsInit == Init => CallsInv
  BY RealmAssumption, OwnerAssumption
  DEF Init, CallsInv, CallTypes, WaitingIsCalling, OnlyLiveTasksHaveRequests, CallInOnePlace

\* Steps of guests and listener change none of it.
LEMMA CallsUnchanged == CallsInv /\ UNCHANGED callVars => CallsInv'
  BY DEF callVars, CallsInv, CallTypes, WaitingIsCalling, OnlyLiveTasksHaveRequests, CallInOnePlace

\* The steps of a task change its own channels only.
LEMMA CallsTaskStep ==
  ASSUME CallsInv, NEW r \in Realm, TaskStep(r)
  PROVE  CallsInv'
<1> USE RequestAssumption, OwnerAssumption
    DEF CallsInv, CallTypes, WaitingIsCalling, OnlyLiveTasksHaveRequests, CallInOnePlace,
        Live, Ended, NoRequest, NoResponse, AppRequests
<1>1. ASSUME NEW v \in {"ok", "err"}, TaskEnds(r, v) PROVE CallsInv'
  <2>1. /\ task' = [task EXCEPT ![r] = v]
        /\ reqCh' = [reqCh EXCEPT ![r] = NoRequest]
        /\ UNCHANGED <<respCh, realms, client, calling>>
    BY <1>1 DEF TaskEnds, EndTasks, clientVars
  <2>2. realms[r] = "launched"
    BY DEF TaskStep, TaskRequestsStream, TaskAttaches, TaskTimeout, TaskSeesExit, TaskIOError,
           TaskTakesRequest, TaskReadsResponse
  <2> QED
    BY <2>1, <2>2
<1>2. ASSUME NEW s \in {"select", "reaping"}, task[r] \in {"start", "select"},
             task' = [task EXCEPT ![r] = s],
             UNCHANGED <<reqCh, respCh, realms, client, calling>>
      PROVE  CallsInv'
  BY <1>2
<1>3. CASE TaskRequestsStream(r)
  BY <1>1, <1>2, <1>3 DEF TaskRequestsStream, clientVars
<1>4. CASE TaskAttaches(r)
  BY <1>1, <1>4, CallsUnchanged DEF TaskAttaches, callVars, clientVars
<1>5. CASE TaskTimeout(r)
  BY <1>2, <1>5 DEF TaskTimeout, clientVars
<1>6. CASE TaskSeesExit(r) \/ TaskIOError(r)
  BY <1>1, <1>6 DEF TaskSeesExit, TaskIOError
<1>7. CASE TaskTakesRequest(r)
  <2>1. CASE TaskEnds(r, "err")
    BY <1>1, <2>1
  <2>2. CASE ~TaskEnds(r, "err")
    <3>1. /\ task[r] = "select" /\ reqCh[r] # NoRequest
          /\ reqCh' = [reqCh EXCEPT ![r] = NoRequest]
          /\ UNCHANGED <<realms, client, calling>>
          /\ \/ respCh' = [respCh EXCEPT ![r] = "RealmNotConnected"] /\ UNCHANGED task
             \/ task' = [task EXCEPT ![r] = "awaiting"] /\ UNCHANGED respCh
      BY <1>7, <2>2 DEF TaskTakesRequest, clientVars
    <3> QED
      BY <3>1
  <2> QED
    BY <2>1, <2>2
<1>8. CASE TaskReadsResponse(r)
  <2>1. CASE TaskEnds(r, "err")
    BY <1>1, <2>1
  <2>2. CASE ~TaskEnds(r, "err")
    <3>1. /\ task[r] = "awaiting"
          /\ task' = [task EXCEPT ![r] = "select"]
          /\ respCh' = [respCh EXCEPT ![r] = "Ok"]
          /\ UNCHANGED <<reqCh, realms, client, calling>>
      BY <1>8, <2>2 DEF TaskReadsResponse, clientVars
    <3> QED
      BY <3>1
  <2> QED
    BY <2>1, <2>2
<1> QED
  BY <1>3, <1>4, <1>5, <1>6, <1>7, <1>8 DEF TaskStep

\* Dropping clients ends their tasks and takes their channels.
LEMMA CallsDropClients ==
  ASSUME CallsInv, NEW C \in SUBSET Client, DropClients(C)
  PROVE  CallsInv'
<1> DEFINE R == {r \in Realm : Owner[r] \in C /\ task[r] \in Live}
<1>1. /\ task' = [r \in Realm |-> IF r \in R THEN "aborted" ELSE task[r]]
      /\ reqCh' = [r \in Realm |-> IF r \in R THEN NoRequest ELSE reqCh[r]]
      /\ respCh' = [r \in Realm |-> IF Owner[r] \in C THEN NoResponse ELSE respCh[r]]
      /\ client' = [c \in Client |-> IF c \in C THEN "gone" ELSE client[c]]
      /\ calling' = [c \in Client |-> IF c \in C THEN NoRealm ELSE calling[c]]
      /\ UNCHANGED realms
  BY DEF DropClients, EndTasks
<1> HIDE DEF R
<1>2. R \subseteq Realm /\ \A r \in Realm : r \in R <=> Owner[r] \in C /\ task[r] \in Live
  BY DEF R
<1> USE RealmAssumption, OwnerAssumption DEF CallsInv
<1>3. CallTypes'
  BY <1>1, <1>2 DEF CallTypes, Ended
<1>4. WaitingIsCalling'
  BY <1>1 DEF CallTypes, WaitingIsCalling
<1>5. OnlyLiveTasksHaveRequests'
  BY <1>1, <1>2 DEF OnlyLiveTasksHaveRequests, Live
<1>6. CallInOnePlace'
  BY <1>1, <1>2 DEF CallTypes, CallInOnePlace, OnlyLiveTasksHaveRequests, Live, Ended
<1> QED
  BY <1>3, <1>4, <1>5, <1>6

\* A request enters an empty channel of a live task.
LEMMA CallsRequest ==
  ASSUME CallsInv, NEW c \in Client, NEW r \in Realm, NEW q \in Request,
         Owner[r] = c, task[r] \in Live, SendRequest(c, r, q)
  PROVE  CallsInv'
<1> USE DEF CallsInv, CallTypes
<1>1. /\ client[c] = "idle" /\ client' = [client EXCEPT ![c] = "waiting"]
      /\ reqCh' = [reqCh EXCEPT ![r] = q]
      /\ calling' = [calling EXCEPT ![c] = r]
      /\ UNCHANGED <<task, respCh, realms>>
  BY DEF SendRequest
<1>2. calling[c] = NoRealm /\ r # NoRealm
  BY <1>1, RealmAssumption DEF WaitingIsCalling
<1>3. q # NoRequest
  BY RequestAssumption DEF AppRequests, NoRequest
<1>4. reqCh[r] = NoRequest /\ respCh[r] = NoResponse /\ task[r] # "awaiting"
  BY <1>2 DEF CallInOnePlace
<1>5. CallTypes'
  BY <1>1
<1>6. WaitingIsCalling'
  BY <1>1, <1>2 DEF WaitingIsCalling
<1>7. OnlyLiveTasksHaveRequests'
  BY <1>1 DEF OnlyLiveTasksHaveRequests
<1>8. CallInOnePlace'
  <2> SUFFICES ASSUME NEW u \in Realm
               PROVE  LET queued == reqCh'[u] # NoRequest
                          forwarded == task[u] = "awaiting"
                          answered == respCh[u] # NoResponse
                      IN IF calling'[Owner[u]] = u
                         THEN /\ queued \/ forwarded \/ answered \/ task[u] \in Ended
                              /\ ~(queued /\ forwarded) /\ ~(queued /\ answered)
                              /\ ~(forwarded /\ answered)
                         ELSE ~queued /\ ~forwarded /\ ~answered
    BY <1>1 DEF CallInOnePlace
  <2>1. CASE u = r
    BY <1>1, <1>3, <1>4, <2>1
  <2>2. CASE u # r
    <3>1. reqCh'[u] = reqCh[u] /\ Owner[u] \in Client
      BY <1>1, <2>2, OwnerAssumption
    <3>2. calling'[Owner[u]] = u <=> calling[Owner[u]] = u
      BY <1>1, <1>2, <2>2, <3>1, RealmAssumption
    <3> QED
      BY <3>1, <3>2 DEF CallInOnePlace
  <2> QED
    BY <2>1, <2>2
<1> QED
  BY <1>5, <1>6, <1>7, <1>8

\* A client's steps open a call, close it, or end the client with its tasks.
LEMMA CallsClientStep ==
  ASSUME CallsInv, NEW c \in Client, ClientStep(c)
  PROVE  CallsInv'
<1> USE RealmAssumption, RequestAssumption, OwnerAssumption
    DEF CallsInv, CallTypes, WaitingIsCalling, OnlyLiveTasksHaveRequests, CallInOnePlace,
        Live, Ended, NoRequest, NoResponse, AppRequests
<1>1. ASSUME NEW s \in {"idle", "replying", "joining", "gone"}, client[c] # "waiting",
             client' = [client EXCEPT ![c] = s],
             UNCHANGED <<task, reqCh, respCh, realms, calling>>
      PROVE  CallsInv'
  BY <1>1
<1>2. CASE ClientConnects(c) \/ WriteAnswer(c) \/ ClientLeaves(c) \/ ClientJoined(c)
  BY <1>1, <1>2 DEF ClientConnects, WriteAnswer, ClientLeaves, ClientJoined, taskVars
<1>3. CASE ClientIOError(c)
  BY <1>3, CallsDropClients DEF ClientIOError
<1>4. CASE ReceiveResponse(c)
  <2> DEFINE r == calling[c]
  <2>1. /\ client[c] = "waiting" /\ client' = [client EXCEPT ![c] = "replying"]
        /\ respCh' = [respCh EXCEPT ![r] = NoResponse]
        /\ calling' = [calling EXCEPT ![c] = NoRealm]
        /\ respCh[r] # NoResponse \/ task[r] \in Ended
        /\ UNCHANGED <<task, reqCh, realms>>
    BY <1>4 DEF ReceiveResponse, Reply
  <2>2. r \in Realm /\ Owner[r] = c
    BY <2>1
  <2> QED
    BY <2>1, <2>2
<1>5. ASSUME NEW r \in Realm, Owner[r] = c, CreateRealm(c, r) PROVE CallsInv'
  <2>1. /\ client[c] = "idle" /\ client' = [client EXCEPT ![c] = "replying"]
        /\ UNCHANGED <<task, reqCh, respCh, calling>>
        /\ \/ UNCHANGED realms
           \/ realms[r] = "absent" /\ realms' = [realms EXCEPT ![r] = "defined"]
    BY <1>5 DEF CreateRealm, Reply, taskVars
  <2> QED
    BY <2>1
<1>6. ASSUME NEW r \in Realm, Owner[r] = c, LaunchRealm(c, r) PROVE CallsInv'
  <2>1. /\ client[c] = "idle" /\ client' = [client EXCEPT ![c] = "replying"]
        /\ UNCHANGED <<reqCh, respCh, calling>>
        /\ \/ UNCHANGED <<task, realms>>
           \/ /\ realms[r] = "defined" /\ realms' = [realms EXCEPT ![r] = "launched"]
              /\ task' = [task EXCEPT ![r] = "start"]
    BY <1>6 DEF LaunchRealm, Reply
  <2> QED
    BY <2>1
<1>7. ASSUME NEW r \in Realm, NEW q \in Request, Owner[r] = c, SendRequest(c, r, q)
      PROVE  CallsInv'
  <2>1. CASE task[r] \notin Live
    BY <1>1, <1>7, <2>1 DEF SendRequest, Reply
  <2>2. CASE task[r] \in Live
    BY <1>7, <2>2, CallsRequest
  <2> QED
    BY <2>1, <2>2
<1> QED
  BY <1>2, <1>3, <1>4, <1>5, <1>6, <1>7 DEF ClientStep, ClientCommand

\* Every step of the daemon keeps requests in one place.
LEMMA CallsStep == CallsInv /\ [Next]_vars => CallsInv'
<1> SUFFICES ASSUME CallsInv, [Next]_vars PROVE CallsInv'
  OBVIOUS
<1>1. CASE UNCHANGED vars
  BY <1>1, CallsUnchanged DEF vars, taskVars, clientVars, callVars
<1>2. CASE DaemonStep
  <2>1. CASE MainFails \/ AcceptorFails
    <3>1. Connected \in SUBSET Client
      BY DEF Connected
    <3> QED
      BY <2>1, <3>1, CallsDropClients DEF MainFails, AcceptorFails
  <2>2. CASE ListenerStep
    BY <2>2, CallsUnchanged DEF ListenerStep, taskVars, clientVars, callVars
  <2>3. CASE MainSelects \/ MainAwaits \/ AcceptorCancelled \/ AcceptorJoined
    BY <2>3, CallsUnchanged
    DEF MainSelects, MainAwaits, AcceptorCancelled, AcceptorJoined, taskVars, clientVars, callVars
  <2> QED
    BY <1>2, <2>1, <2>2, <2>3 DEF DaemonStep
<1>3. ASSUME NEW r \in Realm, GuestStep(r) PROVE CallsInv'
  BY <1>3, CallsUnchanged
  DEF GuestStep, GuestConnects, GuestReadsInfo, GuestReplies, GuestFails, QemuExits,
      taskVars, clientVars, callVars
<1> QED
  BY <1>1, <1>2, <1>3, CallsTaskStep, CallsClientStep DEF Next

\* Requests and responses never mix, for any number of clients and realms: a
\* client's request is in one place until it is answered, and then in none.
THEOREM RequestsStayInLockstep == Spec => []OneOutstanding
<1>1. CallsInv => OneOutstanding
  <2> SUFFICES ASSUME CallsInv, NEW r \in Realm
               PROVE  IF calling[Owner[r]] = r
                      THEN (\E p \in Places : Pending(r) = {p}) \/ (task[r] \in Ended /\ Pending(r) = {})
                      ELSE Pending(r) = {}
    BY DEF OneOutstanding
  <2>1. CASE calling[Owner[r]] # r
    BY <2>1 DEF CallsInv, CallInOnePlace, Pending
  <2>2. CASE calling[Owner[r]] = r
    <3>1. CASE reqCh[r] # NoRequest
      <4>1. Pending(r) = {"queued"}
        BY <2>2, <3>1 DEF CallsInv, CallInOnePlace, Pending, Places
      <4> QED
        BY <2>2, <4>1 DEF Places
    <3>2. CASE task[r] = "awaiting"
      <4>1. Pending(r) = {"forwarded"}
        BY <2>2, <3>2 DEF CallsInv, CallInOnePlace, Pending, Places
      <4> QED
        BY <2>2, <4>1 DEF Places
    <3>3. CASE respCh[r] # NoResponse
      <4>1. Pending(r) = {"answered"}
        BY <2>2, <3>3 DEF CallsInv, CallInOnePlace, Pending, Places
      <4> QED
        BY <2>2, <4>1 DEF Places
    <3>4. CASE reqCh[r] = NoRequest /\ task[r] # "awaiting" /\ respCh[r] = NoResponse
      <4>1. Pending(r) = {} /\ task[r] \in Ended
        BY <2>2, <3>4 DEF CallsInv, CallInOnePlace, Pending
      <4> QED
        BY <2>2, <4>1
    <3> QED
      BY <3>1, <3>2, <3>3, <3>4
  <2> QED
    BY <2>1, <2>2
<1> QED
  BY <1>1, CallsInit, CallsStep, PTL DEF Spec

-----------------------------------------------------------------------------
(***************************************************************************)
(* Who is joined before the daemon exits: main waits for the acceptor, the *)
(* acceptor for its clients, a client for its tasks, and a task that ends  *)
(* well for its QEMU.                                                      *)
(***************************************************************************)
ExitTypes ==
  /\ qemu \in [Realm -> {"none", "exited"} \cup Running]
  /\ acceptor \in {"accepting", "joining", "ok", "err"}

QemuHasTask == \A r \in Realm : qemu[r] \in Running => task[r] \notin {"none", "ok"}

ClientJoinsTasks ==
  \A r \in Realm : /\ client[Owner[r]] = "gone" => task[r] \notin Live
                   /\ client[Owner[r]] = "absent" => task[r] = "none"

AcceptorJoinsClients ==
  acceptor \in {"ok", "err"} => \A c \in Client : client[c] \in {"absent", "gone"}

MainJoinsAcceptor == main = "exited" => acceptor \in {"ok", "err"}

ExitInv ==
  /\ CallsInv /\ ExitTypes
  /\ QemuHasTask /\ ClientJoinsTasks /\ AcceptorJoinsClients /\ MainJoinsAcceptor

exitVars == <<qemu, task, client, acceptor, main>>

\* At the start nothing runs.
LEMMA ExitInit == Init => ExitInv
  BY CallsInit, OwnerAssumption
  DEF Init, ExitInv, ExitTypes, QemuHasTask, ClientJoinsTasks, AcceptorJoinsClients,
      MainJoinsAcceptor, Running

\* Steps that change none of these variables.
LEMMA ExitUnchanged == ExitInv /\ CallsInv' /\ UNCHANGED exitVars => ExitInv'
  BY DEF exitVars, ExitInv, ExitTypes, QemuHasTask, ClientJoinsTasks, AcceptorJoinsClients,
         MainJoinsAcceptor

\* A task that ends well has seen its QEMU exit.
LEMMA ExitTaskStep ==
  ASSUME ExitInv, CallsInv', NEW r \in Realm, TaskStep(r)
  PROVE  ExitInv'
<1>1. /\ UNCHANGED <<qemu, client, acceptor, main>>
      /\ \A u \in Realm : u # r => task'[u] = task[u]
      /\ task[r] \in Live
      /\ task'[r] # "none" /\ (task'[r] = "ok" => qemu[r] = "exited")
  <2> USE DEF ExitInv, CallsInv, CallTypes, Live, Ended
  <2>1. ASSUME NEW v \in {"ok", "err"}, TaskEnds(r, v), v = "ok" => qemu[r] = "exited",
               task[r] \in Live
        PROVE  /\ UNCHANGED <<qemu, client, acceptor, main>>
               /\ \A u \in Realm : u # r => task'[u] = task[u]
               /\ task'[r] # "none" /\ (task'[r] = "ok" => qemu[r] = "exited")
    BY <2>1 DEF TaskEnds, EndTasks, guestVars, clientVars, daemonVars
  <2>2. CASE TaskRequestsStream(r)
    BY <2>1, <2>2 DEF TaskRequestsStream, guestVars, clientVars, daemonVars
  <2>3. CASE TaskAttaches(r)
    BY <2>1, <2>3 DEF TaskAttaches, clientVars, daemonVars
  <2>4. CASE TaskTimeout(r)
    BY <2>4 DEF TaskTimeout, guestVars, clientVars, daemonVars
  <2>5. CASE TaskSeesExit(r) \/ TaskIOError(r)
    BY <2>1, <2>5 DEF TaskSeesExit, TaskIOError
  <2>6. CASE TaskTakesRequest(r)
    BY <2>1, <2>6 DEF TaskTakesRequest, guestVars, clientVars, daemonVars
  <2>7. CASE TaskReadsResponse(r)
    BY <2>1, <2>7 DEF TaskReadsResponse, guestVars, clientVars, daemonVars
  <2> QED
    BY <2>2, <2>3, <2>4, <2>5, <2>6, <2>7 DEF TaskStep
<1>2. ExitTypes' /\ AcceptorJoinsClients' /\ MainJoinsAcceptor'
  BY <1>1 DEF ExitInv, ExitTypes, AcceptorJoinsClients, MainJoinsAcceptor
<1>3. QemuHasTask'
  BY <1>1 DEF ExitInv, QemuHasTask, Running
<1>4. ClientJoinsTasks'
  BY <1>1 DEF ExitInv, ClientJoinsTasks, Live
<1> QED
  BY <1>2, <1>3, <1>4 DEF ExitInv

\* Clients that are dropped leave no live task; the acceptor drops all that are connected.
LEMMA ExitDropClients ==
  ASSUME ExitInv, CallsInv', NEW C \in SUBSET Client, DropClients(C),
         UNCHANGED main, acceptor' \in {"accepting", "joining", "ok", "err"},
         acceptor \in {"ok", "err"} => acceptor' \in {"ok", "err"},
         acceptor' \in {"ok", "err"} => acceptor \in {"ok", "err"} \/ C = Connected
  PROVE  ExitInv'
<1> DEFINE R == {r \in Realm : Owner[r] \in C /\ task[r] \in Live}
<1>1. /\ task' = [r \in Realm |-> IF r \in R THEN "aborted" ELSE task[r]]
      /\ client' = [c \in Client |-> IF c \in C THEN "gone" ELSE client[c]]
      /\ UNCHANGED qemu
  BY DEF DropClients, EndTasks, guestVars
<1>2. \A r \in Realm : /\ Owner[r] \in C /\ task[r] \in Live => task'[r] = "aborted"
                       /\ ~(Owner[r] \in C /\ task[r] \in Live) => task'[r] = task[r]
  BY <1>1
<1> USE OwnerAssumption DEF ExitInv, CallsInv, CallTypes
<1>3. ExitTypes' /\ MainJoinsAcceptor'
  BY <1>1 DEF ExitTypes, MainJoinsAcceptor
<1>4. QemuHasTask'
  BY <1>1, <1>2 DEF QemuHasTask
<1>5. ClientJoinsTasks'
  BY <1>1, <1>2 DEF ClientJoinsTasks, Live
<1>6. AcceptorJoinsClients'
  BY <1>1 DEF AcceptorJoinsClients, Connected
<1> QED
  BY <1>3, <1>4, <1>5, <1>6

\* A client ends after it has joined its tasks, or they are aborted with it.
LEMMA ExitClientStep ==
  ASSUME ExitInv, CallsInv', NEW c \in Client, ClientStep(c)
  PROVE  ExitInv'
<1> USE OwnerAssumption
    DEF ExitInv, CallsInv, CallTypes, ExitTypes, QemuHasTask, ClientJoinsTasks,
        AcceptorJoinsClients, MainJoinsAcceptor
<1>1. ASSUME NEW s \in {"idle", "waiting", "replying", "joining"},
             client[c] \notin {"absent", "gone"},
             client' = [client EXCEPT ![c] = s], UNCHANGED <<qemu, task, acceptor, main>>
      PROVE  ExitInv'
  BY <1>1
<1>2. CASE ClientConnects(c)
  <2>1. /\ acceptor = "accepting" /\ client[c] = "absent"
        /\ client' = [client EXCEPT ![c] = "idle"] /\ UNCHANGED <<qemu, task, acceptor, main>>
    BY <1>2 DEF ClientConnects, guestVars, taskVars, daemonVars
  <2> QED
    BY <2>1
<1>3. CASE WriteAnswer(c) \/ ClientLeaves(c) \/ ReceiveResponse(c)
  BY <1>1, <1>3
  DEF WriteAnswer, ClientLeaves, ReceiveResponse, Reply, guestVars, taskVars, daemonVars
<1>4. CASE ClientJoined(c)
  <2>1. /\ client[c] = "joining" /\ client' = [client EXCEPT ![c] = "gone"]
        /\ \A r \in Realm : Owner[r] = c => task[r] \notin Live
        /\ UNCHANGED <<qemu, task, acceptor, main>>
    BY <1>4 DEF ClientJoined, guestVars, taskVars, daemonVars
  <2> QED
    BY <2>1
<1>5. CASE ClientIOError(c)
  <2>1. DropClients({c}) /\ UNCHANGED <<main, acceptor>> /\ {c} \in SUBSET Client
    BY <1>5 DEF ClientIOError, daemonVars
  <2> QED
    BY <2>1, ExitDropClients
<1>6. ASSUME NEW r \in Realm, CreateRealm(c, r) PROVE ExitInv'
  BY <1>1, <1>6 DEF CreateRealm, Reply, guestVars, taskVars, daemonVars
<1>7. ASSUME NEW r \in Realm, NEW q \in Request, SendRequest(c, r, q) PROVE ExitInv'
  BY <1>1, <1>7 DEF SendRequest, Reply, guestVars, daemonVars
<1>8. ASSUME NEW r \in Realm, Owner[r] = c, LaunchRealm(c, r) PROVE ExitInv'
  <2>1. /\ client[c] = "idle" /\ client' = [client EXCEPT ![c] = "replying"]
        /\ UNCHANGED <<acceptor, main>>
    BY <1>8 DEF LaunchRealm, Reply, daemonVars
  <2>2. CASE UNCHANGED <<qemu, task>>
    BY <1>1, <2>1, <2>2
  <2>3. CASE \E s \in {"exited", "booting"} :
               qemu' = [qemu EXCEPT ![r] = s] /\ task' = [task EXCEPT ![r] = "start"]
    <3>1. ExitTypes'
      BY <2>1, <2>3 DEF Running
    <3>2. task'[r] = "start" /\ client'[Owner[r]] = "replying"
      BY <1>8, <2>1, <2>3
    <3>3. \A u \in Realm : u # r => /\ task'[u] = task[u]
                                    /\ qemu'[u] = qemu[u]
      BY <2>3
    <3>4. QemuHasTask' /\ ClientJoinsTasks'
      BY <2>1, <3>2, <3>3
    <3>5. AcceptorJoinsClients' /\ MainJoinsAcceptor'
      BY <2>1
    <3> QED
      BY <3>1, <3>4, <3>5
  <2> QED
    BY <1>8, <2>2, <2>3 DEF LaunchRealm
<1> QED
  BY <1>2, <1>3, <1>4, <1>5, <1>6, <1>7, <1>8 DEF ClientStep, ClientCommand

\* A QEMU may exit, but none comes back.
LEMMA ExitGuestStep ==
  ASSUME ExitInv, CallsInv', NEW r \in Realm, GuestStep(r)
  PROVE  ExitInv'
<1>1. /\ UNCHANGED <<task, client, acceptor, main>>
      /\ \A u \in Realm : qemu'[u] \in Running => qemu[u] \in Running
      /\ qemu' \in [Realm -> {"none", "exited"} \cup Running]
  BY DEF GuestStep, GuestConnects, GuestReadsInfo, GuestReplies, GuestFails, QemuExits,
         taskVars, clientVars, daemonVars, ExitInv, ExitTypes, Running
<1> QED
  BY <1>1 DEF ExitInv, ExitTypes, QemuHasTask, ClientJoinsTasks, AcceptorJoinsClients,
              MainJoinsAcceptor

\* The acceptor ends after its clients, main after the acceptor.
LEMMA ExitDaemonStep ==
  ASSUME ExitInv, CallsInv', DaemonStep, main \notin {"exited", "failed"}
  PROVE  ExitInv'
<1>0. Connected \in SUBSET Client
  BY DEF Connected
<1>1. CASE MainFails
  <2>1. /\ DropClients(Connected) /\ main' = "failed"
        /\ acceptor' \in {"ok", "err"} /\ (acceptor = "ok" => acceptor' = "ok")
        /\ UNCHANGED main \/ main' # "exited"
    BY <1>1 DEF MainFails
  <2> DEFINE R == {r \in Realm : Owner[r] \in Connected /\ task[r] \in Live}
  <2>2. /\ task' = [r \in Realm |-> IF r \in R THEN "aborted" ELSE task[r]]
        /\ client' = [c \in Client |-> IF c \in Connected THEN "gone" ELSE client[c]]
        /\ UNCHANGED qemu
    BY <2>1 DEF DropClients, EndTasks, guestVars
  <2>3. \A r \in Realm : /\ Owner[r] \in Connected /\ task[r] \in Live => task'[r] = "aborted"
                         /\ ~(Owner[r] \in Connected /\ task[r] \in Live) => task'[r] = task[r]
    BY <2>2
  <2> USE OwnerAssumption DEF ExitInv, CallsInv, CallTypes
  <2>4. ExitTypes' /\ MainJoinsAcceptor'
    BY <2>1, <2>2 DEF ExitTypes, MainJoinsAcceptor
  <2>5. QemuHasTask'
    BY <2>2, <2>3 DEF QemuHasTask
  <2>6. ClientJoinsTasks'
    BY <2>2, <2>3 DEF ClientJoinsTasks, Live
  <2>7. AcceptorJoinsClients'
    BY <2>2 DEF AcceptorJoinsClients, Connected
  <2> QED
    BY <2>4, <2>5, <2>6, <2>7
<1>2. CASE AcceptorFails
  <2>1. /\ DropClients(Connected) /\ UNCHANGED main
        /\ acceptor = "accepting" /\ acceptor' = "err"
    BY <1>2 DEF AcceptorFails
  <2> QED
    BY <1>0, <2>1, ExitDropClients
<1>3. CASE ListenerStep
  BY <1>3, ExitUnchanged
  DEF ListenerStep, guestVars, taskVars, clientVars, daemonVars, exitVars
<1>4. CASE MainSelects \/ MainAwaits
  BY <1>4
  DEF MainSelects, MainAwaits, AwaitUnix, guestVars, taskVars, clientVars, ExitInv, ExitTypes,
      QemuHasTask, ClientJoinsTasks, AcceptorJoinsClients, MainJoinsAcceptor
<1>5. CASE AcceptorCancelled \/ AcceptorJoined
  <2>1. UNCHANGED <<qemu, task, client, main>>
    BY <1>5 DEF AcceptorCancelled, AcceptorJoined, guestVars, taskVars, clientVars
  <2>2. \/ acceptor = "accepting" /\ acceptor' = "joining"
        \/ acceptor' = "ok" /\ \A c \in Client : client[c] \in {"absent", "gone"}
    BY <1>5 DEF AcceptorCancelled, AcceptorJoined, Connected
  <2> QED
    BY <2>1, <2>2
    DEF ExitInv, ExitTypes, QemuHasTask, ClientJoinsTasks, AcceptorJoinsClients, MainJoinsAcceptor
<1> QED
  BY <1>1, <1>2, <1>3, <1>4, <1>5 DEF DaemonStep

\* Every step of the daemon keeps who waits for whom.
LEMMA ExitStep == ExitInv /\ [Next]_vars => ExitInv'
<1> SUFFICES ASSUME ExitInv, [Next]_vars PROVE ExitInv'
  OBVIOUS
<1>1. CallsInv'
  BY CallsStep DEF ExitInv
<1>2. CASE UNCHANGED vars
  BY <1>1, <1>2, ExitUnchanged DEF vars, guestVars, taskVars, clientVars, daemonVars, exitVars
<1> QED
  BY <1>1, <1>2, ExitTaskStep, ExitClientStep, ExitGuestStep, ExitDaemonStep DEF Next

\* When main returns Ok, a QEMU that still runs is one whose task had failed or
\* was aborted with its client, for any number of clients and realms.
THEOREM ExitIsClean == Spec => []DaemonExitClean
<1>1. ExitInv => DaemonExitClean
  BY OwnerAssumption
  DEF ExitInv, CallsInv, CallTypes, DaemonExitClean, QemuHasTask, ClientJoinsTasks,
      AcceptorJoinsClients, MainJoinsAcceptor, Ended
<1> QED
  BY <1>1, ExitInit, ExitStep, PTL DEF Spec
=============================================================================
