------------------------------ MODULE HostDaemon ------------------------------
(***************************************************************************)
(* The host daemon (vm/src): main with its signal handling, the unix       *)
(* socket acceptor, one ClientHandler task per client, one handle_realm    *)
(* task per launched realm, and the QEMU processes those tasks supervise.  *)
(* ConnectionDispatcher is the rendezvous between guests and tasks.        *)
(*                                                                         *)
(* Realm::txrx is set by launch and never reset, so a Realm object is      *)
(* launched at most once and one name serves for the object, its task, its *)
(* process and its guest.  Every client owns the realms it defined.        *)
(*                                                                         *)
(* A step is the code between two awaits.  The log lines and the output    *)
(* QEMU writes carry no state and are left out; a failing read of that     *)
(* output (it must be UTF-8) is TaskIOError.  An operator marked Variant   *)
(* is not part of the specification: it is the operator after it with a    *)
(* plausible mistake, which the properties are shown to notice.            *)
(***************************************************************************)
EXTENDS ConnectionDispatcher, Naturals, Sequences

CONSTANTS
  Client,   \* connections to the cli socket
  Owner,    \* the client whose ClientHandler::realms holds the realm
  Request   \* the requests clients send to launched realms

NoRequest == "NoRequest"
NoResponse == "NoResponse"
AppRequests == {"StartApp", "TerminateApp", "KillApp"}

ASSUME OwnerAssumption == Owner \in [Realm -> Client]
ASSUME RequestAssumption == Request \subseteq AppRequests \cup {"Shutdown"}

VARIABLES
  qemu,      \* the QEMU process and how far the guest in it has come
  toGuest,   \* frames the host wrote and the guest has not read
  toHost,    \* the guest's response frame is on its way
  task,      \* where handle_realm is
  attached,  \* its local `stream` is Some: RealmInfo was written
  reqCh,     \* mpsc::channel(1) from the client to the task
  respCh,    \* mpsc::channel(1) back
  realms,    \* ClientHandler::realms and Realm::txrx
  client,    \* where ClientHandler::run is
  calling,   \* the realm whose response send_request awaits
  cancelled, \* DaemonContext::cancel
  acceptor,  \* listen_unixsocket
  main       \* main()

guestVars  == <<qemu, toGuest, toHost>>
taskVars   == <<task, attached, reqCh, respCh>>
clientVars == <<realms, client, calling>>
daemonVars == <<cancelled, acceptor, main>>
vars == <<dispatcherVars, guestVars, taskVars, clientVars, daemonVars>>

Running  == {"booting", "connected", "serving", "halting"}
Live     == {"start", "select", "awaiting", "reaping"}
Ended    == {"ok", "err", "aborted"}

\* Types; and a guest is never sent a second request before it has read the first.
TypeOK ==
  /\ DispatcherTypeOK
  /\ qemu     \in [Realm -> {"none", "exited"} \cup Running]
  /\ toGuest  \in [Realm -> Seq({"info"} \cup Request)]
  /\ toHost   \in [Realm -> BOOLEAN]
  /\ task     \in [Realm -> {"none"} \cup Live \cup Ended]
  /\ attached \in [Realm -> BOOLEAN]
  /\ reqCh    \in [Realm -> Request \cup {NoRequest}]
  /\ \A r \in Realm : Len(toGuest[r]) <= 2
  /\ respCh   \in [Realm -> {NoResponse, "Ok", "RealmNotConnected"}]
  /\ realms   \in [Realm -> {"absent", "defined", "launched"}]
  /\ client   \in [Client -> {"absent", "idle", "waiting", "replying", "joining", "gone"}]
  /\ calling  \in [Client -> Realm \cup {NoRealm}]
  /\ cancelled \in BOOLEAN
  /\ acceptor \in {"accepting", "joining", "ok", "err"}
  /\ main     \in {"select", "await_vsock", "await_unix", "exited", "failed"}

Init ==
  /\ DispatcherInit
  /\ qemu     = [r \in Realm |-> "none"]
  /\ toGuest  = [r \in Realm |-> <<>>]
  /\ toHost   = [r \in Realm |-> FALSE]
  /\ task     = [r \in Realm |-> "none"]
  /\ attached = [r \in Realm |-> FALSE]
  /\ reqCh    = [r \in Realm |-> NoRequest]
  /\ respCh   = [r \in Realm |-> NoResponse]
  /\ realms   = [r \in Realm |-> "absent"]
  /\ client   = [c \in Client |-> "absent"]
  /\ calling  = [c \in Client |-> NoRealm]
  /\ cancelled = FALSE
  /\ acceptor = "accepting"
  /\ main     = "select"

-----------------------------------------------------------------------------
(* QEMU and its guest, seen from the host.                                 *)

\* The app-manager connects to the host; a refused connection is GuestFails.
GuestConnects(r) ==
  /\ qemu[r] = "booting"
  /\ Dial(r)
  /\ qemu' = [qemu EXCEPT ![r] = "connected"]
  /\ UNCHANGED <<toGuest, toHost, taskVars, clientVars, daemonVars>>

\* read_provision_info.  serde_read makes a FramedRead of its own for every
\* frame and drops it with whatever it had already buffered, so a command that
\* arrived behind RealmInfo may be lost with it.
GuestReadsInfo(r) ==
  /\ qemu[r] = "connected"
  /\ toGuest[r] # <<>>
  /\ \E rest \in {Tail(toGuest[r]), <<>>} : toGuest' = [toGuest EXCEPT ![r] = rest]
  /\ qemu' = [qemu EXCEPT ![r] = "serving"]
  /\ UNCHANGED <<dispatcherVars, toHost, taskVars, clientVars, daemonVars>>

\* event_loop reads a command, executes it and responds; Shutdown ends it.
GuestReplies(r) ==
  /\ qemu[r] = "serving"
  /\ toGuest[r] # <<>>
  /\ toGuest' = [toGuest EXCEPT ![r] = Tail(@)]
  /\ toHost' = [toHost EXCEPT ![r] = TRUE]
  /\ qemu' = IF Head(toGuest[r]) = "Shutdown"
             THEN [qemu EXCEPT ![r] = "halting"] ELSE qemu
  /\ UNCHANGED <<dispatcherVars, taskVars, clientVars, daemonVars>>

\* Any error ends the app-manager; init then powers the realm off.
GuestFails(r) ==
  /\ qemu[r] \in {"booting", "connected", "serving"}
  /\ qemu' = [qemu EXCEPT ![r] = "halting"]
  /\ UNCHANGED <<dispatcherVars, toGuest, toHost, taskVars, clientVars, daemonVars>>

QemuExits(r) ==
  /\ qemu[r] \in Running
  /\ qemu' = [qemu EXCEPT ![r] = "exited"]
  /\ toGuest' = [toGuest EXCEPT ![r] = <<>>]
  /\ UNCHANGED <<dispatcherVars, toHost, taskVars, clientVars, daemonVars>>

\* The other end of guest s's stream is closed.
PeerGone(s) == qemu[s] \in {"halting", "exited"}

-----------------------------------------------------------------------------
(* Realm::handle_realm.                                                    *)

\* The tasks R end in state v: the receivers of their streams, the streams and
\* their ends of the channels go with them, a queued request included.
EndTasks(R, v) ==
  /\ DropReceivers(R)
  /\ task' = [r \in Realm |-> IF r \in R THEN v ELSE task[r]]
  /\ attached' = [r \in Realm |-> r \notin R /\ attached[r]]
  /\ reqCh' = [r \in Realm |-> IF r \in R THEN NoRequest ELSE reqCh[r]]

TaskEnds(r, v) ==
  /\ EndTasks({r}, v)
  /\ UNCHANGED <<guestVars, respCh, clientVars, daemonVars>>

\* Lock the dispatcher and ask for the stream.
TaskRequestsStream(r) ==
  /\ task[r] = "start"
  /\ \/ RequestPresent(r) /\ TaskEnds(r, "err")
     \/ /\ RequestStream(r)
        /\ task' = [task EXCEPT ![r] = "select"]
        /\ UNCHANGED <<guestVars, attached, reqCh, respCh, clientVars, daemonVars>>

\* The stream arrives: write RealmInfo to it and keep it.
TaskAttaches(r) ==
  LET s == inbox[r] IN
  /\ task[r] = "select"
  /\ ~attached[r]
  /\ s # NoRealm
  /\ \/ PeerGone(s) /\ TaskEnds(r, "err")
     \/ /\ ~PeerGone(s)
        /\ toGuest' = [toGuest EXCEPT ![s] = Append(@, "info")]
        /\ attached' = [attached EXCEPT ![r] = TRUE]
        /\ UNCHANGED <<dispatcherVars, qemu, toHost, task, reqCh, respCh, clientVars, daemonVars>>

\* Variant: leaving the loop drops stream_request.
TaskTimeoutDropsReceiver(r) ==
  /\ task[r] = "select"
  /\ ~attached[r]
  /\ task' = [task EXCEPT ![r] = "reaping"]
  /\ DropReceivers({r})
  /\ UNCHANGED <<guestVars, attached, reqCh, respCh, clientVars, daemonVars>>

\* 90 s without a stream: leave the loop and wait for the process to exit.
TaskTimeout(r) ==
  /\ task[r] = "select"
  /\ ~attached[r]
  /\ task' = [task EXCEPT ![r] = "reaping"]
  /\ UNCHANGED <<dispatcherVars, guestVars, attached, reqCh, respCh, clientVars, daemonVars>>

\* Variant: the exit of the process is noticed in the loop only.
TaskSeesExitInLoop(r) ==
  /\ task[r] = "select"
  /\ qemu[r] = "exited"
  /\ TaskEnds(r, "ok")

\* process.wait() returns, in the loop or after it.
TaskSeesExit(r) ==
  /\ task[r] \in {"select", "reaping"}
  /\ qemu[r] = "exited"
  /\ TaskEnds(r, "ok")

\* Reading QEMU's stdout or stderr fails.
TaskIOError(r) ==
  /\ task[r] = "select"
  /\ TaskEnds(r, "err")

\* Variant: a command is sent and its response never read.
TaskTakesRequestNoWait(r) ==
  /\ task[r] = "select"
  /\ reqCh[r] # NoRequest
  /\ attached[r]
  /\ toGuest' = [toGuest EXCEPT ![inbox[r]] = Append(@, reqCh[r])]
  /\ reqCh' = [reqCh EXCEPT ![r] = NoRequest]
  /\ respCh' = [respCh EXCEPT ![r] = "Ok"]
  /\ UNCHANGED <<dispatcherVars, qemu, toHost, task, attached, clientVars, daemonVars>>

\* Variant: a command is sent as soon as the dispatcher has handed out a stream.
TaskTakesRequestEarly(r) ==
  LET s == inbox[r] IN
  /\ task[r] = "select"
  /\ reqCh[r] # NoRequest
  /\ s # NoRealm
  /\ toGuest' = [toGuest EXCEPT ![s] = Append(@, reqCh[r])]
  /\ reqCh' = [reqCh EXCEPT ![r] = NoRequest]
  /\ task' = [task EXCEPT ![r] = "awaiting"]
  /\ UNCHANGED <<dispatcherVars, qemu, toHost, attached, respCh, clientVars, daemonVars>>

\* A request arrives: forward it, or answer that there is no stream.
TaskTakesRequest(r) ==
  LET s == inbox[r] IN
  /\ task[r] = "select"
  /\ reqCh[r] # NoRequest
  /\ \/ /\ ~attached[r]
        /\ reqCh' = [reqCh EXCEPT ![r] = NoRequest]
        /\ respCh' = [respCh EXCEPT ![r] = "RealmNotConnected"]
        /\ UNCHANGED <<dispatcherVars, guestVars, task, attached, clientVars, daemonVars>>
     \/ attached[r] /\ PeerGone(s) /\ TaskEnds(r, "err")
     \/ /\ attached[r]
        /\ ~PeerGone(s)
        /\ toGuest' = [toGuest EXCEPT ![s] = Append(@, reqCh[r])]
        /\ reqCh' = [reqCh EXCEPT ![r] = NoRequest]
        /\ task' = [task EXCEPT ![r] = "awaiting"]
        /\ UNCHANGED <<dispatcherVars, qemu, toHost, attached, respCh, clientVars, daemonVars>>

\* Variant: a closed stream is not an error.
TaskReadsResponseOnly(r) ==
  LET s == inbox[r] IN
  /\ task[r] = "awaiting"
  /\ toHost[s]
  /\ toHost' = [toHost EXCEPT ![s] = FALSE]
  /\ respCh' = [respCh EXCEPT ![r] = "Ok"]
  /\ task' = [task EXCEPT ![r] = "select"]
  /\ UNCHANGED <<dispatcherVars, qemu, toGuest, attached, reqCh, clientVars, daemonVars>>

\* Variant: the end of the stream is taken for a response.
TaskReadsResponseOrEnd(r) ==
  LET s == inbox[r] IN
  /\ task[r] = "awaiting"
  /\ toHost[s] \/ PeerGone(s)
  /\ toHost' = [toHost EXCEPT ![s] = FALSE]
  /\ respCh' = [respCh EXCEPT ![r] = "Ok"]
  /\ task' = [task EXCEPT ![r] = "select"]
  /\ UNCHANGED <<dispatcherVars, qemu, toGuest, attached, reqCh, clientVars, daemonVars>>

\* serde_read returns the guest's response, or finds the stream closed.
TaskReadsResponse(r) ==
  LET s == inbox[r] IN
  /\ task[r] = "awaiting"
  /\ \/ /\ toHost[s]
        /\ toHost' = [toHost EXCEPT ![s] = FALSE]
        /\ respCh' = [respCh EXCEPT ![r] = "Ok"]
        /\ task' = [task EXCEPT ![r] = "select"]
        /\ UNCHANGED <<dispatcherVars, qemu, toGuest, attached, reqCh, clientVars, daemonVars>>
     \/ ~toHost[s] /\ PeerGone(s) /\ TaskEnds(r, "err")

-----------------------------------------------------------------------------
(* ClientHandler.                                                          *)

ClientConnects(c) ==
  /\ acceptor = "accepting"
  /\ client[c] = "absent"
  /\ client' = [client EXCEPT ![c] = "idle"]
  /\ UNCHANGED <<dispatcherVars, guestVars, taskVars, realms, calling, daemonVars>>

\* handle_user_line has a CommandResult or an error to write; which one, no
\* later step depends on.
Reply(c) == client' = [client EXCEPT ![c] = "replying"]

\* handle_create_realm and Realm::new, which may fail to make the workdir.
CreateRealm(c, r) ==
  /\ client[c] = "idle"
  /\ Reply(c)
  /\ \/ UNCHANGED realms  \* RealmExists, or WorkdirMkdirFail
     \/ realms[r] = "absent" /\ realms' = [realms EXCEPT ![r] = "defined"]
  /\ UNCHANGED <<dispatcherVars, guestVars, taskVars, calling, daemonVars>>

\* handle_launch_realm and Realm::launch.  The kernel refuses a guest cid that
\* is in use: a second QEMU with the cid of a running one exits at once.
LaunchRealm(c, r) ==
  /\ client[c] = "idle"
  /\ Reply(c)
  /\ \/ UNCHANGED <<qemu, task, realms>>  \* no realm, already running, or no QEMU
     \/ /\ realms[r] = "defined"
        /\ qemu' = [qemu EXCEPT ![r] =
                      IF \E s \in Realm : CidOf[s] = CidOf[r] /\ qemu[s] \in Running
                      THEN "exited" ELSE "booting"]
        /\ task' = [task EXCEPT ![r] = "start"]
        /\ realms' = [realms EXCEPT ![r] = "launched"]
  /\ UNCHANGED <<dispatcherVars, toGuest, toHost, attached, reqCh, respCh, calling, daemonVars>>

\* handle_start_app, handle_terminate_app, handle_kill_app and handle_shutdown
\* up to the point where send_request awaits the response.
SendRequest(c, r, q) ==
  /\ client[c] = "idle"
  /\ \/ /\ task[r] \notin Live  \* RealmDoesNotExist, RealmIsNotRunning, RequestChannelError
        /\ Reply(c)
        /\ UNCHANGED <<reqCh, calling>>
     \/ /\ task[r] \in Live
        /\ reqCh' = [reqCh EXCEPT ![r] = q]
        /\ calling' = [calling EXCEPT ![c] = r]
        /\ client' = [client EXCEPT ![c] = "waiting"]
  /\ UNCHANGED <<dispatcherVars, guestVars, task, attached, respCh, realms, daemonVars>>

\* Variant: send_request may give up before the response is there.
ReceiveResponseOrGiveUp(c) ==
  LET r == calling[c] IN
  /\ client[c] = "waiting"
  /\ Reply(c)
  /\ respCh' = [respCh EXCEPT ![r] = NoResponse]
  /\ calling' = [calling EXCEPT ![c] = NoRealm]
  /\ UNCHANGED <<dispatcherVars, guestVars, task, attached, reqCh, realms, daemonVars>>

\* send_request gets a response, or finds the channel closed and empty.
ReceiveResponse(c) ==
  LET r == calling[c] IN
  /\ client[c] = "waiting"
  /\ respCh[r] # NoResponse \/ task[r] \in Ended
  /\ Reply(c)
  /\ respCh' = [respCh EXCEPT ![r] = NoResponse]
  /\ calling' = [calling EXCEPT ![c] = NoRealm]
  /\ UNCHANGED <<dispatcherVars, guestVars, task, attached, reqCh, realms, daemonVars>>

WriteAnswer(c) ==
  /\ client[c] = "replying"
  /\ client' = [client EXCEPT ![c] = "idle"]
  /\ UNCHANGED <<dispatcherVars, guestVars, taskVars, realms, calling, daemonVars>>

\* The client hangs up or sends a blank line, or the daemon is cancelled.
ClientLeaves(c) ==
  /\ client[c] = "idle"
  /\ client' = [client EXCEPT ![c] = "joining"]
  /\ UNCHANGED <<dispatcherVars, guestVars, taskVars, realms, calling, daemonVars>>

\* Variant: the tasks are detached instead of joined.
ClientJoinedNoWait(c) ==
  /\ client[c] = "joining"
  /\ client' = [client EXCEPT ![c] = "gone"]
  /\ UNCHANGED <<dispatcherVars, guestVars, taskVars, realms, calling, daemonVars>>

\* Every task of the JoinSet has been joined.
ClientJoined(c) ==
  /\ client[c] = "joining"
  /\ \A r \in Realm : Owner[r] = c => task[r] \notin Live
  /\ client' = [client EXCEPT ![c] = "gone"]
  /\ UNCHANGED <<dispatcherVars, guestVars, taskVars, realms, calling, daemonVars>>

\* The handlers of clients C are dropped: each JoinSet aborts its tasks, whose
\* Child values are dropped without killing QEMU.
DropClients(C) ==
  LET R == {r \in Realm : Owner[r] \in C /\ task[r] \in Live} IN
  /\ EndTasks(R, "aborted")
  /\ respCh' = [r \in Realm |-> IF Owner[r] \in C THEN NoResponse ELSE respCh[r]]
  /\ client' = [c \in Client |-> IF c \in C THEN "gone" ELSE client[c]]
  /\ calling' = [c \in Client |-> IF c \in C THEN NoRealm ELSE calling[c]]
  /\ UNCHANGED <<guestVars, realms>>

\* Reading a line or writing an answer or a prompt fails: run returns early.
ClientIOError(c) ==
  /\ client[c] \in {"idle", "replying"}
  /\ DropClients({c})
  /\ UNCHANGED daemonVars

-----------------------------------------------------------------------------
(* main and the acceptor.                                                  *)

Connected == {c \in Client : client[c] # "absent"}

\* A thread that is_finished() is not awaited, and its error not looked at.
AwaitUnix == IF acceptor \in {"ok", "err"} THEN "exited" ELSE "await_unix"

\* main's select!: a signal, or one of the two threads has ended.  Cancelling
\* and the checks that follow have no await between them.
MainSelects ==
  /\ main = "select"
  /\ cancelled' = TRUE
  /\ main' = IF listener = "listening" THEN "await_vsock" ELSE AwaitUnix
  /\ UNCHANGED <<dispatcherVars, guestVars, taskVars, clientVars, acceptor>>

ThreadEnded == listener # "listening" \/ acceptor \in {"ok", "err"}

\* The awaited thread has ended without an error.
MainAwaits ==
  /\ \/ main = "await_vsock" /\ listener = "cancelled" /\ main' = AwaitUnix
     \/ main = "await_unix" /\ acceptor = "ok" /\ main' = "exited"
  /\ UNCHANGED <<dispatcherVars, guestVars, taskVars, clientVars, cancelled, acceptor>>

\* The awaited thread failed: main returns the error and the runtime is
\* dropped with every task that is left.
MainFails ==
  /\ \/ main = "await_vsock" /\ listener \in ListenerErrors
     \/ main = "await_unix" /\ acceptor = "err"
  /\ main' = "failed"
  /\ acceptor' = IF acceptor = "ok" THEN "ok" ELSE "err"
  /\ DropClients(Connected)
  /\ UNCHANGED cancelled

AcceptorCancelled ==
  /\ cancelled
  /\ acceptor = "accepting"
  /\ acceptor' = "joining"
  /\ UNCHANGED <<dispatcherVars, guestVars, taskVars, clientVars, cancelled, main>>

AcceptorJoined ==
  /\ acceptor = "joining"
  /\ \A c \in Connected : client[c] = "gone"
  /\ acceptor' = "ok"
  /\ UNCHANGED <<dispatcherVars, guestVars, taskVars, clientVars, cancelled, main>>

\* accept() fails: listen_unixsocket returns and its JoinSet aborts the clients.
AcceptorFails ==
  /\ acceptor = "accepting"
  /\ acceptor' = "err"
  /\ DropClients(Connected)
  /\ UNCHANGED <<cancelled, main>>

\* The steps of listen_vsock.
ListenerStep ==
  /\ \/ \E r \in Realm : AddStream(r)
     \/ AcceptError
     \/ cancelled /\ ListenerCancelled
  /\ UNCHANGED <<guestVars, taskVars, clientVars, daemonVars>>

-----------------------------------------------------------------------------
TaskStep(r) ==
  \/ TaskRequestsStream(r) \/ TaskAttaches(r) \/ TaskTimeout(r) \/ TaskSeesExit(r)
  \/ TaskIOError(r) \/ TaskTakesRequest(r) \/ TaskReadsResponse(r)

GuestStep(r) ==
  \/ GuestConnects(r) \/ GuestReadsInfo(r) \/ GuestReplies(r) \/ GuestFails(r) \/ QemuExits(r)

ClientCommand(c, r) ==
  \/ CreateRealm(c, r) \/ LaunchRealm(c, r)
  \/ \E q \in Request : SendRequest(c, r, q)

ClientStep(c) ==
  \/ ClientConnects(c) \/ ReceiveResponse(c) \/ WriteAnswer(c) \/ ClientLeaves(c)
  \/ ClientJoined(c) \/ ClientIOError(c)
  \/ \E r \in Realm : Owner[r] = c /\ ClientCommand(c, r)

DaemonStep ==
  \/ MainSelects \/ MainAwaits \/ MainFails
  \/ AcceptorCancelled \/ AcceptorJoined \/ AcceptorFails \/ ListenerStep

\* Once main has returned the daemon's process is gone; only QEMUs remain.
Next ==
  \/ main \notin {"exited", "failed"} /\ DaemonStep
  \/ main \notin {"exited", "failed"} /\ \E c \in Client : ClientStep(c)
  \/ main \notin {"exited", "failed"} /\ \E r \in Realm : TaskStep(r)
  \/ \E r \in Realm : GuestStep(r)

\* The tokio scheduler runs every ready task, and select! starts at a random
\* branch, so a branch that stays ready, or is ready again and again, is taken.
\* A client takes its answer or hangs up.  Beyond that users, guests, signals and
\* I/O errors owe nothing: accept() need not fail, an idle client may stay idle.
Fairness ==
  /\ \A r \in Realm : /\ WF_vars(TaskRequestsStream(r))
                      /\ WF_vars(TaskAttaches(r))
                      /\ WF_vars(TaskSeesExit(r))
                      /\ WF_vars(TaskTakesRequest(r))
                      /\ WF_vars(TaskReadsResponse(r))
  /\ \A c \in Client : /\ WF_vars(ReceiveResponse(c))
                       /\ WF_vars(client[c] = "replying" /\ (WriteAnswer(c) \/ ClientIOError(c)))
                       /\ SF_vars(cancelled /\ ClientLeaves(c))
                       /\ WF_vars(ClientJoined(c))
  /\ WF_vars(ThreadEnded /\ MainSelects)
  /\ WF_vars(MainAwaits)
  /\ WF_vars(MainFails)
  /\ WF_vars(AcceptorCancelled)
  /\ WF_vars(AcceptorJoined)
  /\ WF_vars(ListenerStep /\ \E r \in Realm : AddStream(r))
  /\ WF_vars(ListenerStep /\ cancelled /\ ListenerCancelled)

Spec == Init /\ [][Next]_vars
FairSpec == Spec /\ Fairness

-----------------------------------------------------------------------------
\* Where the request the owner of r has sent to its task can be.
Places == {"queued", "forwarded", "answered"}

Pending(r) ==
  {p \in Places :
     \/ p = "queued"    /\ reqCh[r] # NoRequest
     \/ p = "forwarded" /\ task[r] = "awaiting"
     \/ p = "answered"  /\ respCh[r] # NoResponse}

\* send_request pairs requests with responses only by their order in two
\* channels of capacity 1.  A request is therefore in exactly one place while
\* its client waits and its task lives, and no trace of it is left afterwards:
\* no client can read the response of an earlier request, no send ever blocks.
OneOutstanding ==
  \A r \in Realm :
    IF calling[Owner[r]] = r
    THEN (\E p \in Places : Pending(r) = {p}) \/ (task[r] \in Ended /\ Pending(r) = {})
    ELSE Pending(r) = {}

\* The positions of the commands among the frames on their way to guest s.
Commands(s) == {i \in DOMAIN toGuest[s] : toGuest[s][i] # "info"}

\* The vsock protocol has no request ids either.  At most one command or
\* response is on a stream, and only while the task that owns the stream awaits
\* it or is gone: serde_read never returns the response of an earlier command.
LockstepOnWire ==
  \A s \in Realm :
    /\ \A i, j \in Commands(s) : i = j /\ ~toHost[s]
    /\ toHost[s] \/ Commands(s) # {} =>
         \E r \in Realm :
           inbox[r] = s /\ ((attached[r] /\ task[r] = "awaiting") \/ task[r] \in Ended)

\* How far the app-manager of s has come, seen from the host.
GuestState(s) ==
  CASE qemu[s] \in {"none", "booting"} -> "absent"
    [] PeerGone(s) -> "gone"
    [] OTHER -> qemu[s]

\* The command on its way to guest s.
CommandTo(s) ==
  IF Commands(s) = {} THEN NoRequest ELSE toGuest[s][CHOOSE i \in Commands(s) : TRUE]

Protocol == INSTANCE RealmProtocol WITH
  Kind     <- Request,
  Nothing  <- NoRequest,
  guest    <- [s \in Realm |-> GuestState(s)],
  command  <- [s \in Realm |-> CommandTo(s)],
  response <- toHost

\* On every stream the daemon keeps to RealmProtocol, which the app-manager
\* implements: whichever task holds the stream, and whenever it got it.
HostKeepsProtocol == Protocol!ProtocolSpec

\* What has become of the last command for r, seen from outside.
Underway(r) ==
  LET s == inbox[r] IN
  IF reqCh[r] # NoRequest \/ (s # NoRealm /\ Commands(s) # {}) THEN "sent"
  ELSE IF s # NoRealm /\ toHost[s] THEN "executed" ELSE "none"

Calls == INSTANCE RemoteCall WITH
  asking <- {r \in Realm : calling[Owner[r]] = r},
  work   <- [r \in Realm |-> Underway(r)],
  answer <- respCh

\* The daemon implements RemoteCall: whatever tasks, guests and clients fail in
\* between, and whoever else has the realm's cid, an Ok is the answer to this
\* client's command, which a guest has executed, once.
AtMostOnce == Calls!RemoteCallSpec

\* RealmInfo is the first frame a guest reads, and it is written once, even
\* when a stream waited in the dispatcher or realms share a cid.
InfoComesFirst ==
  \A s \in Realm :
    /\ qemu[s] = "connected" /\ toGuest[s] # <<>> => Head(toGuest[s]) = "info"
    /\ \A i \in DOMAIN toGuest[s] : toGuest[s][i] = "info" => i = 1 /\ qemu[s] # "serving"

\* A daemon that shut down (main returned Ok) leaves a QEMU behind only where
\* its supervising task had failed or was aborted with its client.
DaemonExitClean ==
  main = "exited" =>
    \A r \in Realm : qemu[r] \in Running => task[r] \in {"err", "aborted"}

\* The listener, and with it the daemon, fails on its own account, because of a
\* task that had ended when a guest with its cid dialled, or because two guests
\* with one cid did and no task had asked: never because of one realm that lives.
ListenerFailsForDeadTask ==
  /\ listener = "SendError" =>
       \E r, s \in Realm : /\ CidOf[s] = CidOf[r] /\ stream[s] = "accepted"
                           /\ task[r] \in Ended /\ inbox[r] = NoRealm
  /\ listener = "ConnectionPresent" =>
       \E r, s \in Realm : /\ r # s /\ CidOf[s] = CidOf[r]
                           /\ stream[r] = "accepted" /\ stream[s] = "accepted"

\* With a cid per realm a client whose command is under way gets an answer once
\* the realm's QEMU has exited, wherever the task was at that moment.
ClientUnblocked ==
  \A r \in Realm :
    (calling[Owner[r]] = r /\ qemu[r] = "exited") ~> calling[Owner[r]] # r

\* After a signal the daemon stops, provided that every QEMU eventually exits:
\* nothing in the daemon tells them to.
ShutdownCompletes ==
  <>[](\A r \in Realm : qemu[r] \notin Running)
    => (cancelled ~> main \in {"exited", "failed"})

\* "Realm is already running" (realm.rs:30): launch refuses a realm, of a client
\* that is still there, only while its QEMU runs or its task has yet to notice.
AlreadyRunningIsRunning ==
  \A r \in Realm :
    realms[r] = "launched" /\ client[Owner[r]] # "gone" => qemu[r] \in Running \/ task[r] \in Live

\* "Realm didn't connect" (realm.rs:48): a client whose command is under way
\* when the 90 s expire learns of it.
TimeoutIsReported ==
  \A r \in Realm :
    (calling[Owner[r]] = r /\ task[r] = "reaping") ~> calling[Owner[r]] # r
=============================================================================
