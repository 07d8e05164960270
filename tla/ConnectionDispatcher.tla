------------------------- MODULE ConnectionDispatcher -------------------------
(***************************************************************************)
(* The rendezvous between the guests that dial the host over vsock and     *)
(* the handle_realm tasks that wait for them (vm/src/vsock.rs), with the   *)
(* listener thread that feeds it (Daemon::listen_vsock, vm/src/daemon.rs). *)
(*                                                                         *)
(* A Realm is launched at most once (see HostDaemon), so its name stands   *)
(* for the handle_realm task of that launch, for the QEMU process, and for *)
(* the one vsock stream the guest in that process opens.  The dispatcher's *)
(* methods are synchronous and run under one tokio Mutex: each is a step.  *)
(* An operator marked Variant is not part of the specification: it is the  *)
(* operator after it with a plausible mistake, which the properties are    *)
(* shown to notice.                                                        *)
(***************************************************************************)
CONSTANTS
  Realm,    \* launches, each with its task, its guest and its stream
  Cid,      \* vsock context ids
  CidOf,    \* the vsock_cid the user gave each realm; realms may share one
  NoRealm   \* "no entry" in a map, "nothing sent" in a oneshot channel

ASSUME RealmAssumption == NoRealm \notin Realm
ASSUME CidAssumption == CidOf \in [Realm -> Cid]

VARIABLES
  available,  \* HashMap<u32, VsockStream>: streams nobody has asked for
  requests,   \* HashMap<u32, oneshot::Sender>: tasks nobody has dialled
  receiver,   \* the oneshot Receiver of each task
  inbox,      \* the stream sent through each task's oneshot
  stream,     \* the stream of each guest: unopened, in the accept backlog, accepted
  listener    \* listen_vsock: running, or how it ended

dispatcherVars == <<available, requests, receiver, inbox, stream, listener>>

\* listen_vsock ends with Ok when cancelled and with an error otherwise.
ListenerErrors == {"AcceptError", "ConnectionPresent", "SendError"}

\* Types; a stream is available, and a request filed, under the cid of its realm only.
DispatcherTypeOK ==
  /\ available \in [Cid -> Realm \cup {NoRealm}]
  /\ requests  \in [Cid -> Realm \cup {NoRealm}]
  /\ receiver  \in [Realm -> {"none", "open", "dropped"}]
  /\ inbox     \in [Realm -> Realm \cup {NoRealm}]
  /\ stream    \in [Realm -> {"none", "dialed", "accepted"}]
  /\ listener  \in {"listening", "cancelled"} \cup ListenerErrors
  /\ \A c \in Cid : /\ available[c] # NoRealm => CidOf[available[c]] = c
                    /\ requests[c] # NoRealm => CidOf[requests[c]] = c

DispatcherInit ==
  /\ available = [c \in Cid |-> NoRealm]
  /\ requests  = [c \in Cid |-> NoRealm]
  /\ receiver  = [r \in Realm |-> "none"]
  /\ inbox     = [r \in Realm |-> NoRealm]
  /\ stream    = [r \in Realm |-> "none"]
  /\ listener  = "listening"

-----------------------------------------------------------------------------
\* Variant: the stream is copied to the task and stays available.
ResolveCopies(c, s, t) ==
  /\ available' = [available EXCEPT ![c] = s]
  /\ requests'  = [requests EXCEPT ![c] = NoRealm]
  /\ inbox'     = IF receiver'[t] = "open" THEN [inbox EXCEPT ![t] = s] ELSE inbox

\* Variant: the request stays although it was served.
ResolveKeepsRequest(c, s, t) ==
  /\ available' = [available EXCEPT ![c] = NoRealm]
  /\ requests'  = [requests EXCEPT ![c] = t]
  /\ inbox'     = IF receiver'[t] = "open" THEN [inbox EXCEPT ![t] = s] ELSE inbox

\* resolve: with a stream and a request for the same cid, take both out of the
\* maps and send the stream through the oneshot, if its receiver still exists.
Resolve(c, s, t) ==
  /\ available' = [available EXCEPT ![c] = NoRealm]
  /\ requests'  = [requests EXCEPT ![c] = NoRealm]
  /\ inbox'     = IF receiver'[t] = "open" THEN [inbox EXCEPT ![t] = s] ELSE inbox

\* The guest's VsockStream::connect: the stream waits in the accept backlog.
Dial(r) ==
  /\ stream[r] = "none"
  /\ listener = "listening"
  /\ stream' = [stream EXCEPT ![r] = "dialed"]
  /\ UNCHANGED <<available, requests, receiver, inbox, listener>>

\* Variant: add_stream only stores the stream.
AddStreamUnresolved(r) ==
  /\ listener = "listening"
  /\ stream[r] = "dialed"
  /\ available[CidOf[r]] = NoRealm
  /\ stream' = [stream EXCEPT ![r] = "accepted"]
  /\ available' = [available EXCEPT ![CidOf[r]] = r]
  /\ UNCHANGED <<requests, receiver, inbox, listener>>

\* add_stream for the accepted stream of guest r; every error it returns is
\* propagated by listen_vsock and ends the listener.
AddStream(r) ==
  LET c == CidOf[r] IN
  /\ listener = "listening"
  /\ stream[r] = "dialed"
  /\ stream' = [stream EXCEPT ![r] = "accepted"]
  /\ UNCHANGED receiver
  /\ \/ /\ available[c] # NoRealm
        /\ listener' = "ConnectionPresent"
        /\ UNCHANGED <<available, requests, inbox>>
     \/ /\ available[c] = NoRealm
        /\ requests[c] = NoRealm
        /\ available' = [available EXCEPT ![c] = r]
        /\ UNCHANGED <<requests, inbox, listener>>
     \/ /\ available[c] = NoRealm
        /\ requests[c] # NoRealm
        /\ Resolve(c, r, requests[c])
        /\ listener' = IF receiver[requests[c]] = "open" THEN listener ELSE "SendError"

\* Variant: request_stream takes whatever stream is there.
RequestAnyStream(r) ==
  /\ receiver[r] = "none"
  /\ requests[CidOf[r]] = NoRealm
  /\ receiver' = [receiver EXCEPT ![r] = "open"]
  /\ \E c \in Cid : available[c] # NoRealm /\ Resolve(c, available[c], r)
  /\ UNCHANGED <<stream, listener>>

\* request_stream by the task of r when no request for its cid is stored.
RequestStream(r) ==
  LET c == CidOf[r] IN
  /\ receiver[r] = "none"
  /\ requests[c] = NoRealm
  /\ receiver' = [receiver EXCEPT ![r] = "open"]
  /\ \/ /\ available[c] = NoRealm
        /\ requests' = [requests EXCEPT ![c] = r]
        /\ UNCHANGED <<available, inbox>>
     \/ /\ available[c] # NoRealm
        /\ Resolve(c, available[c], r)
  /\ UNCHANGED <<stream, listener>>

\* request_stream's early return, Err(RequestPresent).
RequestPresent(r) == receiver[r] = "none" /\ requests[CidOf[r]] # NoRealm

\* The tasks R end or are aborted: their receivers go out of scope, and what
\* the dispatcher stores for them stays.
DropReceivers(R) ==
  /\ receiver' = [r \in Realm |-> IF r \in R /\ receiver[r] = "open"
                                  THEN "dropped" ELSE receiver[r]]
  /\ UNCHANGED <<available, requests, inbox, stream, listener>>

\* listener.accept() fails.
AcceptError ==
  /\ listener = "listening"
  /\ listener' = "AcceptError"
  /\ UNCHANGED <<available, requests, receiver, inbox, stream>>

\* The cancellation token fires.
ListenerCancelled ==
  /\ listener = "listening"
  /\ listener' = "cancelled"
  /\ UNCHANGED <<available, requests, receiver, inbox, stream>>

DispatcherNext ==
  \/ \E r \in Realm : Dial(r) \/ AddStream(r) \/ RequestStream(r)
  \/ \E R \in SUBSET Realm : DropReceivers(R)
  \/ AcceptError
  \/ ListenerCancelled

DispatcherSafety == DispatcherInit /\ [][DispatcherNext]_dispatcherVars

DispatcherSpec ==
  /\ DispatcherSafety
  /\ \A r \in Realm : WF_dispatcherVars(AddStream(r))

-----------------------------------------------------------------------------
\* Whatever the order in which guests dial, tasks ask and tasks die, no cid is
\* left with both a stream and a request: resolve is called by both sides.
NothingLeftToMatch ==
  \A c \in Cid : available[c] = NoRealm \/ requests[c] = NoRealm

\* A guest's stream is never handed out twice, nor handed out and kept: it sits
\* in at most one of available and the inboxes (resolve moves, never copies).
OneHolderPerStream ==
  /\ \A t, u \in Realm : inbox[t] # NoRealm /\ inbox[t] = inbox[u] => t = u
  /\ \A c, d \in Cid : available[c] # NoRealm /\ available[c] = available[d] => c = d
  /\ \A t \in Realm, c \in Cid : inbox[t] # NoRealm => inbox[t] # available[c]

\* A task only ever receives a stream that came from the cid it asked for.
StreamFromRequestedCid ==
  \A t \in Realm : inbox[t] # NoRealm => CidOf[inbox[t]] = CidOf[t]

\* What can stop the listener, and with it the daemon: SendError needs a task
\* that died while its request was stored, ConnectionPresent needs a second
\* guest with the same cid.  Neither can come from one healthy realm.
ListenerFailureCause ==
  /\ listener = "SendError" =>
       \E t \in Realm : receiver[t] = "dropped" /\ inbox[t] = NoRealm
  /\ listener = "ConnectionPresent" =>
       \E s, t \in Realm : s # t /\ CidOf[s] = CidOf[t]

Meeting == INSTANCE Rendezvous WITH
  waiting <- {t \in Realm : receiver[t] = "open" /\ inbox[t] = NoRealm},
  offered <- {s \in Realm : stream[s] = "accepted" /\ \A t \in Realm : inbox[t] # s},
  given   <- inbox,
  open    <- listener = "listening"

\* The dispatcher implements Rendezvous: of a task and a stream with one cid the
\* second to come finds the first, whatever else came, left or failed between.
MeetsAtOnce == Meeting!RendezvousSpec

\* A task that waits gets a stream once its guest has dialled, its guest's own
\* where no other realm has the cid, unless the task dies or the listener stops.
DialedGuestReachesTask ==
  \A r \in Realm :
    (receiver[r] = "open" /\ stream[r] = "dialed")
      ~> \/ inbox[r] = r
         \/ inbox[r] # NoRealm /\ \E s \in Realm \ {r} : CidOf[s] = CidOf[r]
         \/ receiver[r] = "dropped"
         \/ listener # "listening"
=============================================================================
