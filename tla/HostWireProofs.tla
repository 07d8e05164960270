---------------------------- MODULE HostWireProofs ----------------------------
(* Proofs about HostDaemon that need what is on the wire between its tasks and *)
(* the guests: types, frames, why the listener fails, and at-most-once calls.  *)
EXTENDS HostDaemonProofs

-----------------------------------------------------------------------------
(***************************************************************************)
(* The wire.  RealmInfo and then one command at a time: which frames can   *)
(* be under way follows from what the stream's holder is doing, and from   *)
(* how far its guest has come.                                             *)
(***************************************************************************)
\* The frames a guest has yet to read: without a command, and with one.
IdleWires == {<<>>, <<"info">>}
BusyWires == {<<q>> : q \in Request} \cup {<<"info", q>> : q \in Request}

WireTypes ==
  /\ toGuest \in [Realm -> IdleWires \cup BusyWires]
  /\ toHost \in [Realm -> BOOLEAN]
  /\ attached \in [Realm -> BOOLEAN]
  /\ qemu \in [Realm -> {"none", "exited"} \cup Running]

\* A guest dials while it is connecting, and a realm's QEMU is its only one.
GuestsDialOnce ==
  \A r \in Realm : /\ qemu[r] \in {"none", "booting"} => stream[r] = "none"
                   /\ realms[r] # "launched" => qemu[r] = "none"

\* A task keeps its receiver until it ends; attached means that it has a stream.
TasksKeepStreams ==
  \A r \in Realm : /\ receiver[r] = "open" <=> task[r] \in {"select", "awaiting", "reaping"}
                   /\ receiver[r] = "dropped" => task[r] \in Ended
                   /\ attached[r] => task[r] \in {"select", "awaiting"} /\ inbox[r] # NoRealm
                   /\ task[r] = "awaiting" => attached[r]

\* Nothing is written to a stream, or comes back, before a task has taken it.
UnusedIsSilent ==
  \A s \in Realm :
    \/ \E r \in Realm : inbox[r] = s /\ (attached[r] \/ task[r] \in Ended)
    \/ toGuest[s] = <<>> /\ ~toHost[s] /\ qemu[s] # "serving"

\* A guest that has RealmInfo reads commands; one that has not, RealmInfo first.
GuestReadsInOrder ==
  \A s \in Realm : /\ qemu[s] = "serving" => toGuest[s] \in {<<>>} \cup {<<q>> : q \in Request}
                   /\ qemu[s] = "connected" => toGuest[s] \notin {<<q>> : q \in Request}
                   /\ toHost[s] => toGuest[s] \in IdleWires

\* Between requests the wire is idle, and what a guest has not read is on it.
TaskLeavesWireIdle ==
  \A r \in Realm : attached[r] =>
    /\ task[r] = "select" => toGuest[inbox[r]] \in IdleWires /\ ~toHost[inbox[r]]
    /\ qemu[inbox[r]] = "connected" => toGuest[inbox[r]] # <<>>

WireInv ==
  /\ WireTypes /\ GuestsDialOnce /\ TasksKeepStreams
  /\ UnusedIsSilent /\ GuestReadsInOrder /\ TaskLeavesWireIdle

wireVars == <<toGuest, toHost, attached, qemu, task, realms, receiver, inbox, stream>>

\* A sequence of two is a pair.
LEMMA TwoFrames == ASSUME NEW S, NEW t \in Seq(S), Len(t) = 2 PROVE t = <<t[1], t[2]>>
  OBVIOUS

\* What reading and writing do to the frames that can be under way.
LEMMA Frames ==
  /\ "info" \notin Request
  /\ <<>> \in IdleWires /\ <<"info">> \in IdleWires /\ <<>> # <<"info">>
  /\ Append(<<>>, "info") = <<"info">> /\ Tail(<<"info">>) = <<>>
  /\ \A q \in Request :
       /\ Append(<<>>, q) = <<q>> /\ Append(<<"info">>, q) = <<"info", q>>
       /\ Tail(<<q>>) = <<>> /\ Tail(<<"info", q>>) = <<q>>
       /\ <<q>> # <<>> /\ <<q>> # <<"info">>
       /\ <<"info", q>> # <<>> /\ <<"info", q>> # <<"info">>
       /\ \A p \in Request : <<"info", q>> # <<p>>
  /\ IdleWires \cap BusyWires = {}
<1>1. "info" \notin Request
  BY RequestAssumption DEF AppRequests
<1>2. Append(<<>>, "info") = <<"info">> /\ Tail(<<"info">>) = <<>> /\ <<>> # <<"info">>
  OBVIOUS
<1>3. \A q \in Request : Append(<<>>, q) = <<q>>
  OBVIOUS
<1>4. ASSUME NEW q \in Request PROVE Append(<<"info">>, q) = <<"info", q>>
  <2> DEFINE S == Request \cup {"info"}
             t == Append(<<"info">>, q)
  <2>1. <<"info">> \in Seq(S) /\ q \in S
    OBVIOUS
  <2>2. t \in Seq(S) /\ Len(t) = 2 /\ t[1] = "info" /\ t[2] = q
    BY <2>1
  <2>3. t = <<t[1], t[2]>>
    BY <2>2, TwoFrames
  <2> QED
    BY <2>2, <2>3
<1>5. \A q \in Request : Tail(<<q>>) = <<>> /\ Tail(<<"info", q>>) = <<q>>
  OBVIOUS
<1>6. \A q \in Request : /\ <<q>> # <<>> /\ <<"info", q>> # <<>> /\ <<"info", q>> # <<"info">>
                         /\ \A p \in Request : <<"info", q>> # <<p>>
  OBVIOUS
<1>7. \A q \in Request : <<q>> # <<"info">>
  BY <1>1
<1> QED
  BY <1>1, <1>2, <1>3, <1>4, <1>5, <1>6, <1>7 DEF IdleWires, BusyWires

\* At the start there is no guest and no stream.
LEMMA WireInit == Init => WireInv
  BY DEF Init, DispatcherInit, WireInv, WireTypes, IdleWires, GuestsDialOnce, TasksKeepStreams,
         UnusedIsSilent, GuestReadsInOrder, TaskLeavesWireIdle, Running, Ended

\* Steps that change none of it.
LEMMA WireUnchanged == WireInv /\ UNCHANGED wireVars => WireInv'
  BY DEF wireVars, WireInv, WireTypes, GuestsDialOnce, TasksKeepStreams, UnusedIsSilent,
         GuestReadsInOrder, TaskLeavesWireIdle

\* The dispatcher gives a stream to a task that waits for its first.
LEMMA InboxesFill ==
  ASSUME DispatcherInv, NEW r \in Realm, AddStream(r) \/ RequestStream(r)
  PROVE  \A t \in Realm :
           inbox'[t] = inbox[t] \/ (inbox[t] = NoRealm /\ receiver'[t] = "open")
<1> USE CidAssumption DEF DispatcherInv, DispatcherTypeOK
<1>1. CASE AddStream(r)
  <2>1. UNCHANGED inbox \/ (requests[CidOf[r]] # NoRealm /\ Resolve(CidOf[r], r, requests[CidOf[r]]))
    BY <1>1 DEF AddStream
  <2> QED
    BY <2>1 DEF Resolve, RequesterHasNothing
<1>2. CASE RequestStream(r)
  <2>1. UNCHANGED inbox \/ Resolve(CidOf[r], available[CidOf[r]], r)
    BY <1>2 DEF RequestStream
  <2>2. inbox[r] = NoRealm
    BY <1>2 DEF RequestStream, InboxWasAccepted
  <2> QED
    BY <2>1, <2>2 DEF Resolve
<1> QED
  BY <1>1, <1>2

\* Tasks that end leave their streams as they are.
LEMMA WireTasksEnd ==
  ASSUME WireInv, NEW R \in SUBSET Realm, NEW v \in Ended, \A r \in R : task[r] \in Live,
         EndTasks(R, v), UNCHANGED <<guestVars, realms>>
  PROVE  WireInv'
<1> USE DEF WireInv
<1>1. /\ UNCHANGED <<qemu, toGuest, toHost, realms, inbox, stream>>
      /\ \A r \in Realm : /\ task'[r] = IF r \in R THEN v ELSE task[r]
                          /\ attached'[r] = (r \notin R /\ attached[r])
                          /\ receiver'[r] = IF r \in R /\ receiver[r] = "open"
                                            THEN "dropped" ELSE receiver[r]
  BY DEF EndTasks, DropReceivers, guestVars
<1>2. attached' \in [Realm -> BOOLEAN]
  BY DEF EndTasks
<1>3. WireTypes'
  BY <1>1, <1>2 DEF WireTypes
<1>4. GuestsDialOnce' /\ GuestReadsInOrder'
  BY <1>1 DEF GuestsDialOnce, GuestReadsInOrder
<1>5. TasksKeepStreams'
  BY <1>1 DEF TasksKeepStreams, Live, Ended
<1>6. UnusedIsSilent'
  <2> SUFFICES ASSUME NEW s \in Realm, NEW r \in Realm, inbox[r] = s,
                      attached[r] \/ task[r] \in Ended
               PROVE  attached'[r] \/ task'[r] \in Ended
    BY <1>1 DEF UnusedIsSilent
  <2> QED
    BY <1>1
<1>7. TaskLeavesWireIdle'
  BY <1>1 DEF TaskLeavesWireIdle, TasksKeepStreams
<1> QED
  BY <1>3, <1>4, <1>5, <1>6, <1>7

\* A task asks for its stream; the dispatcher may have it at once.
LEMMA WireRequestsStream ==
  ASSUME WireInv, DispatcherInv, CallTypes, NEW r \in Realm, TaskRequestsStream(r)
  PROVE  WireInv'
<1> USE DEF WireInv
<1>1. CASE TaskEnds(r, "err")
  BY <1>1, WireTasksEnd, {r} \in SUBSET Realm
  DEF TaskRequestsStream, TaskEnds, Live, Ended, clientVars
<1>2. CASE ~TaskEnds(r, "err")
  <2>1. /\ task[r] = "start" /\ task' = [task EXCEPT ![r] = "select"]
        /\ RequestStream(r) /\ receiver' = [receiver EXCEPT ![r] = "open"]
        /\ UNCHANGED <<qemu, toGuest, toHost, attached, realms, stream>>
    BY <1>2 DEF TaskRequestsStream, RequestStream, guestVars, clientVars
  <2>2. \A t \in Realm : inbox[t] # NoRealm => inbox'[t] = inbox[t]
    BY <2>1, InboxesFill
  <2>3. ~attached[r]
    BY <2>1 DEF TasksKeepStreams
  <2>4. \A t \in Realm : t # r => task'[t] = task[t] /\ receiver'[t] = receiver[t]
    BY <2>1
  <2>5. task'[r] = "select" /\ receiver'[r] = "open"
    BY <2>1 DEF DispatcherInv, DispatcherTypeOK, CallTypes
  <2>6. WireTypes' /\ GuestsDialOnce' /\ GuestReadsInOrder'
    BY <2>1 DEF WireTypes, GuestsDialOnce, GuestReadsInOrder
  <2>7. TasksKeepStreams'
    BY <2>1, <2>2, <2>3, <2>4, <2>5, RealmAssumption DEF TasksKeepStreams
  <2>8. UnusedIsSilent'
    <3> SUFFICES ASSUME NEW s \in Realm, NEW t \in Realm, inbox[t] = s,
                        attached[t] \/ task[t] \in Ended
                 PROVE  inbox'[t] = s /\ (attached[t] \/ task'[t] \in Ended)
      BY <2>1 DEF UnusedIsSilent
    <3> QED
      BY <2>1, <2>2, <2>3, <2>4, RealmAssumption DEF Ended
  <2>9. TaskLeavesWireIdle'
    BY <2>1, <2>2, <2>3, <2>4 DEF TaskLeavesWireIdle, TasksKeepStreams
  <2> QED
    BY <2>6, <2>7, <2>8, <2>9
<1> QED
  BY <1>1, <1>2

\* RealmInfo goes to a stream nobody has written to.
LEMMA WireAttaches ==
  ASSUME WireInv, DispatcherInv, CallTypes, NEW r \in Realm, TaskAttaches(r)
  PROVE  WireInv'
<1> DEFINE s == inbox[r]
<1> USE DEF WireInv
<1>1. CASE TaskEnds(r, "err")
  BY <1>1, WireTasksEnd, {r} \in SUBSET Realm DEF TaskAttaches, TaskEnds, Live, Ended, clientVars
<1>2. CASE ~TaskEnds(r, "err")
  <2>1. /\ task[r] = "select" /\ ~attached[r] /\ s # NoRealm /\ ~PeerGone(s)
        /\ toGuest' = [toGuest EXCEPT ![s] = Append(@, "info")]
        /\ attached' = [attached EXCEPT ![r] = TRUE]
        /\ UNCHANGED <<qemu, toHost, task, realms, receiver, inbox, stream>>
    BY <1>2 DEF TaskAttaches, dispatcherVars, clientVars
  <2>2. s \in Realm
    BY <2>1 DEF DispatcherInv, DispatcherTypeOK
  <2>3. \A t \in Realm : t # r => inbox[t] # s
    BY <2>1 DEF DispatcherInv, OneHolderPerStream
  <2>4. toGuest[s] = <<>> /\ ~toHost[s] /\ qemu[s] # "serving"
    BY <2>1, <2>2, <2>3 DEF UnusedIsSilent, Ended
  <2>5. /\ toGuest'[s] = <<"info">>
        /\ \A u \in Realm : u # s => toGuest'[u] = toGuest[u]
    BY <2>1, <2>2, <2>4, Frames DEF WireTypes
  <2>6. /\ attached'[r] = TRUE
        /\ \A t \in Realm : t # r => attached'[t] = attached[t]
    BY <2>1 DEF WireTypes
  <2>7. toGuest' \in [Realm -> IdleWires \cup BusyWires] /\ attached' \in [Realm -> BOOLEAN]
    BY <2>1, <2>2, <2>4, Frames DEF WireTypes
  <2>8. WireTypes' /\ GuestsDialOnce'
    BY <2>1, <2>7 DEF WireTypes, GuestsDialOnce
  <2>9. TasksKeepStreams'
    BY <2>1, <2>6 DEF TasksKeepStreams
  <2>10. UnusedIsSilent'
    <3> SUFFICES ASSUME NEW u \in Realm
                 PROVE  \/ \E t \in Realm : inbox[t] = u /\ (attached'[t] \/ task[t] \in Ended)
                        \/ toGuest'[u] = <<>> /\ ~toHost[u] /\ qemu[u] # "serving"
      BY <2>1 DEF UnusedIsSilent
    <3>1. CASE u = s
      BY <2>6, <3>1
    <3>2. CASE u # s
      BY <2>5, <2>6, <3>2 DEF UnusedIsSilent
    <3> QED
      BY <3>1, <3>2
  <2>11. GuestReadsInOrder'
    BY <2>1, <2>2, <2>4, <2>5, Frames DEF GuestReadsInOrder
  <2>12. TaskLeavesWireIdle'
    <3> SUFFICES ASSUME NEW t \in Realm, attached'[t]
                 PROVE  /\ task[t] = "select" => toGuest'[inbox[t]] \in IdleWires /\ ~toHost[inbox[t]]
                        /\ qemu[inbox[t]] = "connected" => toGuest'[inbox[t]] # <<>>
      BY <2>1 DEF TaskLeavesWireIdle
    <3>1. CASE t = r
      BY <2>4, <2>5, <3>1, Frames
    <3>2. CASE t # r
      <4>1. attached[t] /\ inbox[t] # s /\ inbox[t] \in Realm
        BY <2>3, <2>6, <3>2 DEF TasksKeepStreams, DispatcherInv, DispatcherTypeOK
      <4> QED
        BY <2>5, <4>1 DEF TaskLeavesWireIdle
    <3> QED
      BY <3>1, <3>2
  <2> QED
    BY <2>8, <2>9, <2>10, <2>11, <2>12
<1> QED
  BY <1>1, <1>2

\* A command goes to an idle wire, behind RealmInfo where the guest has yet to read it.
LEMMA WireTakesRequest ==
  ASSUME WireInv, DispatcherInv, CallTypes, NEW r \in Realm, TaskTakesRequest(r)
  PROVE  WireInv'
<1> DEFINE s == inbox[r]
           q == reqCh[r]
<1> USE DEF WireInv
<1>1. CASE TaskEnds(r, "err")
  BY <1>1, WireTasksEnd, {r} \in SUBSET Realm
  DEF TaskTakesRequest, TaskEnds, Live, Ended, clientVars
<1>2. CASE ~TaskEnds(r, "err") /\ ~attached[r]
  BY <1>2, WireUnchanged
  DEF TaskTakesRequest, wireVars, dispatcherVars, guestVars, clientVars
<1>3. CASE ~TaskEnds(r, "err") /\ attached[r]
  <2>1. /\ task[r] = "select" /\ q # NoRequest /\ ~PeerGone(s)
        /\ toGuest' = [toGuest EXCEPT ![s] = Append(@, q)]
        /\ task' = [task EXCEPT ![r] = "awaiting"]
        /\ UNCHANGED <<qemu, toHost, attached, realms, receiver, inbox, stream>>
    BY <1>3 DEF TaskTakesRequest, dispatcherVars, clientVars
  <2>2. s \in Realm /\ s # NoRealm /\ q \in Request
    BY <1>3, <2>1 DEF DispatcherInv, DispatcherTypeOK, TasksKeepStreams, CallTypes
  <2>3. \A t \in Realm : t # r => inbox[t] # s
    BY <2>2 DEF DispatcherInv, OneHolderPerStream
  <2>4. /\ toGuest[s] \in IdleWires /\ ~toHost[s]
        /\ qemu[s] = "connected" => toGuest[s] = <<"info">>
        /\ qemu[s] = "serving" => toGuest[s] = <<>>
    <3>1. toGuest[s] \in IdleWires /\ ~toHost[s]
      BY <1>3, <2>1 DEF TaskLeavesWireIdle
    <3>2. qemu[s] = "connected" => toGuest[s] = <<"info">>
      BY <1>3, <3>1 DEF TaskLeavesWireIdle, IdleWires
    <3>3. qemu[s] = "serving" => toGuest[s] = <<>>
      BY <2>2, <3>1, Frames DEF GuestReadsInOrder, IdleWires
    <3> QED
      BY <3>1, <3>2, <3>3
  <2>5. /\ toGuest'[s] = IF toGuest[s] = <<>> THEN <<q>> ELSE <<"info", q>>
        /\ \A u \in Realm : u # s => toGuest'[u] = toGuest[u]
    <3>1. toGuest'[s] = Append(toGuest[s], q)
      BY <2>1, <2>2 DEF WireTypes
    <3> QED
      BY <2>1, <2>2, <2>4, <3>1, Frames DEF WireTypes, IdleWires
  <2>6. toGuest'[s] \in BusyWires
    BY <2>2, <2>5 DEF BusyWires
  <2>7. /\ task'[r] = "awaiting"
        /\ \A t \in Realm : t # r => task'[t] = task[t]
    BY <2>1 DEF CallTypes
  <2>8. WireTypes' /\ GuestsDialOnce'
    BY <2>1, <2>2, <2>6 DEF WireTypes, GuestsDialOnce
  <2>9. TasksKeepStreams'
    BY <1>3, <2>1, <2>7 DEF TasksKeepStreams
  <2>10. UnusedIsSilent'
    <3> SUFFICES ASSUME NEW u \in Realm
                 PROVE  \/ \E t \in Realm : inbox[t] = u /\ (attached[t] \/ task'[t] \in Ended)
                        \/ toGuest'[u] = <<>> /\ ~toHost[u] /\ qemu[u] # "serving"
      BY <2>1 DEF UnusedIsSilent
    <3>1. CASE u = s
      BY <1>3, <3>1
    <3>2. CASE u # s
      BY <1>3, <2>1, <2>5, <2>7, <3>2 DEF UnusedIsSilent, Ended
    <3> QED
      BY <3>1, <3>2
  <2>11. GuestReadsInOrder'
    BY <2>1, <2>2, <2>4, <2>5, Frames DEF GuestReadsInOrder
  <2>12. TaskLeavesWireIdle'
    <3> SUFFICES ASSUME NEW t \in Realm, attached[t]
                 PROVE  /\ task'[t] = "select" => toGuest'[inbox[t]] \in IdleWires /\ ~toHost[inbox[t]]
                        /\ qemu[inbox[t]] = "connected" => toGuest'[inbox[t]] # <<>>
      BY <2>1 DEF TaskLeavesWireIdle
    <3>1. CASE t = r
      BY <2>2, <2>5, <2>7, <3>1, Frames
    <3>2. CASE t # r
      <4>1. inbox[t] # s /\ inbox[t] \in Realm
        BY <2>3, <3>2 DEF TasksKeepStreams, DispatcherInv, DispatcherTypeOK
      <4> QED
        BY <2>5, <2>7, <3>2, <4>1 DEF TaskLeavesWireIdle
    <3> QED
      BY <3>1, <3>2
  <2> QED
    BY <2>8, <2>9, <2>10, <2>11, <2>12
<1> QED
  BY <1>1, <1>2, <1>3

\* A response leaves the wire idle again.
LEMMA WireReadsResponse ==
  ASSUME WireInv, DispatcherInv, CallTypes, NEW r \in Realm, TaskReadsResponse(r)
  PROVE  WireInv'
<1> DEFINE s == inbox[r]
<1> USE DEF WireInv
<1>1. CASE TaskEnds(r, "err")
  BY <1>1, WireTasksEnd, {r} \in SUBSET Realm
  DEF TaskReadsResponse, TaskEnds, Live, Ended, clientVars
<1>2. CASE ~TaskEnds(r, "err")
  <2>1. /\ task[r] = "awaiting" /\ toHost[s]
        /\ toHost' = [toHost EXCEPT ![s] = FALSE]
        /\ task' = [task EXCEPT ![r] = "select"]
        /\ UNCHANGED <<qemu, toGuest, attached, realms, receiver, inbox, stream>>
    BY <1>2 DEF TaskReadsResponse, dispatcherVars, clientVars
  <2>2. attached[r] /\ s \in Realm /\ s # NoRealm
    BY <2>1 DEF DispatcherInv, DispatcherTypeOK, TasksKeepStreams
  <2>3. \A t \in Realm : t # r => inbox[t] # s
    BY <2>2 DEF DispatcherInv, OneHolderPerStream
  <2>4. toGuest[s] \in IdleWires
    BY <2>1, <2>2 DEF GuestReadsInOrder
  <2>5. ~toHost'[s] /\ \A u \in Realm : u # s => toHost'[u] = toHost[u]
    BY <2>1, <2>2 DEF WireTypes
  <2>6. /\ task'[r] = "select"
        /\ \A t \in Realm : t # r => task'[t] = task[t]
    BY <2>1 DEF CallTypes
  <2>7. WireTypes' /\ GuestsDialOnce' /\ GuestReadsInOrder'
    BY <2>1, <2>2, <2>5 DEF WireTypes, GuestsDialOnce, GuestReadsInOrder
  <2>8. TasksKeepStreams'
    BY <2>1, <2>2, <2>6 DEF TasksKeepStreams
  <2>9. UnusedIsSilent'
    BY <2>1, <2>2, <2>5, <2>6 DEF UnusedIsSilent, Ended
  <2>10. TaskLeavesWireIdle'
    <3> SUFFICES ASSUME NEW t \in Realm, attached[t]
                 PROVE  /\ task'[t] = "select" => toGuest[inbox[t]] \in IdleWires /\ ~toHost'[inbox[t]]
                        /\ qemu[inbox[t]] = "connected" => toGuest[inbox[t]] # <<>>
      BY <2>1 DEF TaskLeavesWireIdle
    <3>1. CASE t = r
      BY <2>2, <2>4, <2>5, <3>1 DEF TaskLeavesWireIdle
    <3>2. CASE t # r
      <4>1. inbox[t] # s /\ inbox[t] \in Realm
        BY <2>3, <3>2 DEF TasksKeepStreams, DispatcherInv, DispatcherTypeOK
      <4> QED
        BY <2>5, <2>6, <3>2, <4>1 DEF TaskLeavesWireIdle
    <3> QED
      BY <3>1, <3>2
  <2> QED
    BY <2>7, <2>8, <2>9, <2>10
<1> QED
  BY <1>1, <1>2

\* The steps of a task write and read as its place in handle_realm says.
LEMMA WireTaskStep ==
  ASSUME WireInv, DispatcherInv, CallTypes, NEW r \in Realm, TaskStep(r)
  PROVE  WireInv'
<1>1. CASE TaskTimeout(r)
  <2>1. /\ task[r] = "select" /\ ~attached[r] /\ task' = [task EXCEPT ![r] = "reaping"]
        /\ UNCHANGED <<qemu, toGuest, toHost, attached, realms, receiver, inbox, stream>>
    BY <1>1 DEF TaskTimeout, dispatcherVars, guestVars, clientVars
  <2>2. task'[r] = "reaping" /\ \A t \in Realm : t # r => task'[t] = task[t]
    BY <2>1 DEF CallTypes
  <2> QED
    BY <2>1, <2>2
    DEF WireInv, WireTypes, GuestsDialOnce, TasksKeepStreams, UnusedIsSilent,
        GuestReadsInOrder, TaskLeavesWireIdle, Ended
<1>2. CASE TaskSeesExit(r) \/ TaskIOError(r)
  BY <1>2, WireTasksEnd, {r} \in SUBSET Realm
  DEF TaskSeesExit, TaskIOError, TaskEnds, Live, Ended, clientVars
<1> QED
  BY <1>1, <1>2, WireRequestsStream, WireAttaches, WireTakesRequest, WireReadsResponse DEF TaskStep

\* A guest connects once, then reads RealmInfo, then answers each command.
LEMMA WireGuestStep ==
  ASSUME WireInv, DispatcherInv, NEW s \in Realm, GuestStep(s)
  PROVE  WireInv'
<1> USE DEF WireInv
<1>1. UNCHANGED <<task, attached, realms, receiver, inbox>>
  BY DEF GuestStep, GuestConnects, GuestReadsInfo, GuestReplies, GuestFails, QemuExits,
         Dial, dispatcherVars, taskVars, clientVars
<1>2. /\ \A u \in Realm : u # s => /\ toGuest'[u] = toGuest[u] /\ toHost'[u] = toHost[u]
                                   /\ qemu'[u] = qemu[u] /\ stream'[u] = stream[u]
      /\ qemu[s] \in Running /\ qemu'[s] \in Running \cup {"exited"}
      /\ qemu' \in [Realm -> {"none", "exited"} \cup Running]
  BY DEF GuestStep, GuestConnects, GuestReadsInfo, GuestReplies, GuestFails, QemuExits,
         Dial, Running, WireTypes, DispatcherInv, DispatcherTypeOK, dispatcherVars
<1>3. CASE GuestConnects(s)
  <2>1. /\ stream[s] = "none" /\ qemu'[s] = "connected" /\ UNCHANGED <<toGuest, toHost>>
    BY <1>3 DEF GuestConnects, Dial, WireTypes
  <2>2. \A r \in Realm : inbox[r] # s
    BY <2>1, RealmAssumption DEF DispatcherInv, InboxWasAccepted
  <2>3. toGuest[s] = <<>> /\ ~toHost[s]
    BY <2>2 DEF UnusedIsSilent
  <2>4. WireTypes' /\ GuestsDialOnce' /\ TasksKeepStreams'
    BY <1>1, <1>2, <2>1 DEF WireTypes, GuestsDialOnce, TasksKeepStreams, Running
  <2>5. UnusedIsSilent'
    BY <1>1, <1>2, <2>1, <2>3 DEF UnusedIsSilent
  <2>6. GuestReadsInOrder'
    BY <1>2, <2>1, <2>3, Frames DEF GuestReadsInOrder
  <2>7. TaskLeavesWireIdle'
    <3> SUFFICES ASSUME NEW r \in Realm, attached[r]
                 PROVE  /\ task[r] = "select" => toGuest[inbox[r]] \in IdleWires /\ ~toHost[inbox[r]]
                        /\ qemu'[inbox[r]] = "connected" => toGuest[inbox[r]] # <<>>
      BY <1>1, <2>1 DEF TaskLeavesWireIdle
    <3>1. inbox[r] \in Realm /\ inbox[r] # s
      BY <2>2 DEF TasksKeepStreams, DispatcherInv, DispatcherTypeOK
    <3> QED
      BY <1>2, <3>1 DEF TaskLeavesWireIdle
  <2> QED
    BY <2>4, <2>5, <2>6, <2>7
<1>4. ASSUME \/ GuestReadsInfo(s) \/ GuestReplies(s) \/ GuestFails(s) \/ QemuExits(s)
      PROVE  GuestsDialOnce' /\ TasksKeepStreams'
  <2>1. UNCHANGED stream
    BY <1>4 DEF GuestReadsInfo, GuestReplies, GuestFails, QemuExits, dispatcherVars
  <2>2. qemu'[s] \in {"none", "booting"} => qemu[s] \in {"none", "booting"}
    BY <1>4 DEF GuestReadsInfo, GuestReplies, GuestFails, QemuExits, WireTypes
  <2> QED
    BY <1>1, <1>2, <2>1, <2>2 DEF GuestsDialOnce, TasksKeepStreams, Running
<1>5. CASE GuestReadsInfo(s)
  <2>1. /\ qemu[s] = "connected" /\ toGuest[s] # <<>> /\ UNCHANGED toHost
        /\ toGuest'[s] \in {Tail(toGuest[s]), <<>>} /\ qemu'[s] = "serving"
    BY <1>5 DEF GuestReadsInfo, WireTypes
  <2>2. toGuest[s] \in {<<"info">>} \cup {<<"info", q>> : q \in Request}
    BY <2>1 DEF WireTypes, IdleWires, BusyWires, GuestReadsInOrder
  <2>3. /\ toGuest'[s] \in {<<>>} \cup {<<q>> : q \in Request}
        /\ toGuest[s] \in IdleWires => toGuest'[s] = <<>>
    BY <2>1, <2>2, Frames DEF IdleWires
  <2>4. toGuest' \in [Realm -> IdleWires \cup BusyWires]
    <3>1. toGuest'[s] \in IdleWires \cup BusyWires
      BY <2>3 DEF IdleWires, BusyWires
    <3> QED
      BY <1>5, <3>1 DEF GuestReadsInfo, WireTypes
  <2>5. WireTypes'
    BY <1>1, <1>2, <2>1, <2>4 DEF WireTypes
  <2>6. UnusedIsSilent'
    <3>1. \E r \in Realm : inbox[r] = s /\ (attached[r] \/ task[r] \in Ended)
      BY <2>1 DEF UnusedIsSilent
    <3> QED
      BY <1>1, <1>2, <2>1, <3>1 DEF UnusedIsSilent
  <2>7. GuestReadsInOrder'
    BY <1>2, <2>1, <2>3, Frames DEF GuestReadsInOrder, IdleWires
  <2>8. TaskLeavesWireIdle'
    <3> SUFFICES ASSUME NEW r \in Realm, attached[r]
                 PROVE  /\ task[r] = "select" => toGuest'[inbox[r]] \in IdleWires /\ ~toHost[inbox[r]]
                        /\ qemu'[inbox[r]] = "connected" => toGuest'[inbox[r]] # <<>>
      BY <1>1, <2>1 DEF TaskLeavesWireIdle
    <3>1. inbox[r] \in Realm
      BY DEF TasksKeepStreams, DispatcherInv, DispatcherTypeOK
    <3> QED
      BY <1>2, <2>1, <2>3, <3>1, Frames DEF TaskLeavesWireIdle
  <2> QED
    BY <1>4, <1>5, <2>5, <2>6, <2>7, <2>8
<1>6. CASE GuestReplies(s)
  <2>1. /\ qemu[s] = "serving" /\ toGuest[s] # <<>>
        /\ toGuest' = [toGuest EXCEPT ![s] = Tail(@)]
        /\ toHost' = [toHost EXCEPT ![s] = TRUE]
        /\ qemu'[s] \in {"serving", "halting"}
    BY <1>6 DEF GuestReplies, WireTypes
  <2>2. toGuest[s] \in BusyWires /\ Tail(toGuest[s]) = <<>>
    BY <2>1, Frames DEF GuestReadsInOrder, BusyWires
  <2>3. toGuest'[s] = <<>> /\ toHost'[s]
    BY <2>1, <2>2 DEF WireTypes
  <2>4. WireTypes'
    BY <1>1, <1>2, <2>1, <2>2, Frames DEF WireTypes
  <2>5. UnusedIsSilent'
    <3>1. \E r \in Realm : inbox[r] = s /\ (attached[r] \/ task[r] \in Ended)
      BY <2>1 DEF UnusedIsSilent
    <3> QED
      BY <1>1, <1>2, <3>1 DEF UnusedIsSilent
  <2>6. GuestReadsInOrder'
    BY <1>2, <2>1, <2>3, Frames DEF GuestReadsInOrder
  <2>7. TaskLeavesWireIdle'
    <3> SUFFICES ASSUME NEW r \in Realm, attached[r]
                 PROVE  /\ task[r] = "select" => toGuest'[inbox[r]] \in IdleWires /\ ~toHost'[inbox[r]]
                        /\ qemu'[inbox[r]] = "connected" => toGuest'[inbox[r]] # <<>>
      BY <1>1 DEF TaskLeavesWireIdle
    <3>1. inbox[r] \in Realm
      BY DEF TasksKeepStreams, DispatcherInv, DispatcherTypeOK
    <3>2. CASE inbox[r] = s
      <4>1. task[r] # "select"
        BY <2>2, <3>2, Frames DEF TaskLeavesWireIdle
      <4> QED
        BY <2>1, <3>2, <4>1
    <3> QED
      BY <1>2, <3>1, <3>2 DEF TaskLeavesWireIdle
  <2> QED
    BY <1>4, <1>6, <2>4, <2>5, <2>6, <2>7
<1>7. CASE GuestFails(s) \/ QemuExits(s)
  <2>1. /\ qemu'[s] \in {"halting", "exited"} /\ UNCHANGED toHost
        /\ toGuest'[s] = toGuest[s] \/ toGuest'[s] = <<>>
        /\ toGuest' \in [Realm -> IdleWires \cup BusyWires]
    BY <1>7, Frames DEF GuestFails, QemuExits, WireTypes
  <2>2. WireTypes'
    BY <1>1, <1>2, <2>1 DEF WireTypes
  <2>3. UnusedIsSilent'
    BY <1>1, <1>2, <2>1 DEF UnusedIsSilent
  <2>4. GuestReadsInOrder'
    BY <1>2, <2>1, Frames DEF GuestReadsInOrder
  <2>5. TaskLeavesWireIdle'
    <3> SUFFICES ASSUME NEW r \in Realm, attached[r]
                 PROVE  /\ task[r] = "select" => toGuest'[inbox[r]] \in IdleWires /\ ~toHost[inbox[r]]
                        /\ qemu'[inbox[r]] = "connected" => toGuest'[inbox[r]] # <<>>
      BY <1>1, <2>1 DEF TaskLeavesWireIdle
    <3>1. inbox[r] \in Realm
      BY DEF TasksKeepStreams, DispatcherInv, DispatcherTypeOK
    <3> QED
      BY <1>2, <2>1, <3>1, Frames DEF TaskLeavesWireIdle
  <2> QED
    BY <1>4, <1>7, <2>2, <2>3, <2>4, <2>5
<1> QED
  BY <1>3, <1>5, <1>6, <1>7 DEF GuestStep

\* A launch gives a realm its first and only QEMU.
LEMMA WireLaunch ==
  ASSUME WireInv, DispatcherInv, CallsInv, NEW c \in Client, NEW r \in Realm, LaunchRealm(c, r)
  PROVE  WireInv'
<1> USE DEF WireInv, CallsInv, CallTypes
<1>1. UNCHANGED <<toGuest, toHost, attached, receiver, inbox, stream>>
  BY DEF LaunchRealm, dispatcherVars
<1>2. CASE UNCHANGED <<qemu, task, realms>>
  BY <1>1, <1>2, WireUnchanged DEF wireVars
<1>3. CASE ~UNCHANGED <<qemu, task, realms>>
  <2>1. /\ realms[r] = "defined" /\ realms' = [realms EXCEPT ![r] = "launched"]
        /\ task' = [task EXCEPT ![r] = "start"]
        /\ \E v \in {"exited", "booting"} : qemu' = [qemu EXCEPT ![r] = v]
    BY <1>3 DEF LaunchRealm
  <2>2. task[r] = "none" /\ qemu[r] = "none" /\ stream[r] = "none"
    BY <2>1 DEF OnlyLiveTasksHaveRequests, GuestsDialOnce
  <2>3. /\ \A u \in Realm : u # r => task'[u] = task[u] /\ qemu'[u] = qemu[u] /\ realms'[u] = realms[u]
        /\ task'[r] = "start" /\ qemu'[r] \in {"exited", "booting"} /\ realms'[r] = "launched"
    BY <2>1 DEF WireTypes
  <2>4. WireTypes' /\ GuestsDialOnce'
    BY <1>1, <2>1, <2>2, <2>3 DEF WireTypes, GuestsDialOnce, Running
  <2>5. TasksKeepStreams'
    BY <1>1, <2>2, <2>3 DEF TasksKeepStreams, Ended
  <2>6. UnusedIsSilent'
    BY <1>1, <2>2, <2>3 DEF UnusedIsSilent, Ended
  <2>7. GuestReadsInOrder'
    BY <1>1, <2>3 DEF GuestReadsInOrder
  <2>8. TaskLeavesWireIdle'
    <3>1. \A t \in Realm : attached[t] => t # r /\ inbox[t] \in Realm
      BY <2>2 DEF TasksKeepStreams, DispatcherInv, DispatcherTypeOK
    <3> QED
      BY <1>1, <2>3, <3>1 DEF TaskLeavesWireIdle
  <2> QED
    BY <2>4, <2>5, <2>6, <2>7, <2>8
<1> QED
  BY <1>2, <1>3

\* Clients that go take their live tasks with them.
LEMMA WireDropClients ==
  ASSUME WireInv, NEW C, DropClients(C)
  PROVE  WireInv'
<1> DEFINE R == {r \in Realm : Owner[r] \in C /\ task[r] \in Live}
<1>1. EndTasks(R, "aborted") /\ UNCHANGED <<guestVars, realms>>
  BY DEF DropClients
<1> QED
  BY <1>1, WireTasksEnd DEF Ended

\* A client's handler never writes to a stream.
LEMMA WireClientStep ==
  ASSUME WireInv, DispatcherInv, CallsInv, NEW c \in Client, ClientStep(c)
  PROVE  WireInv'
<1>1. CASE ClientIOError(c)
  BY <1>1, WireDropClients DEF ClientIOError
<1>2. ASSUME NEW r \in Realm, LaunchRealm(c, r) PROVE WireInv'
  BY <1>2, WireLaunch
<1>3. ASSUME NEW r \in Realm, CreateRealm(c, r) PROVE WireInv'
  <2>1. /\ UNCHANGED <<toGuest, toHost, attached, qemu, task, receiver, inbox, stream>>
        /\ \A u \in Realm : realms'[u] # "launched" => realms[u] # "launched"
    BY <1>3 DEF CreateRealm, dispatcherVars, guestVars, taskVars, CallsInv, CallTypes
  <2> QED
    BY <2>1 DEF WireInv, WireTypes, GuestsDialOnce, TasksKeepStreams, UnusedIsSilent,
                GuestReadsInOrder, TaskLeavesWireIdle
<1>4. ASSUME NEW r \in Realm, NEW q \in Request, SendRequest(c, r, q) PROVE WireInv'
  BY <1>4, WireUnchanged DEF SendRequest, wireVars, dispatcherVars, guestVars
<1>5. CASE \/ ClientConnects(c) \/ ReceiveResponse(c) \/ WriteAnswer(c) \/ ClientLeaves(c)
           \/ ClientJoined(c)
  BY <1>5, WireUnchanged
  DEF ClientConnects, ReceiveResponse, WriteAnswer, ClientLeaves, ClientJoined,
      wireVars, dispatcherVars, guestVars, taskVars
<1> QED
  BY <1>1, <1>2, <1>3, <1>4, <1>5 DEF ClientStep, ClientCommand

\* The listener hands out streams nobody has written to; the rest of the daemon drops tasks.
LEMMA WireDaemonStep ==
  ASSUME WireInv, DispatcherInv, DaemonStep
  PROVE  WireInv'
<1> USE DEF WireInv
<1>1. CASE MainFails \/ AcceptorFails
  BY <1>1, WireDropClients DEF MainFails, AcceptorFails
<1>2. CASE MainSelects \/ MainAwaits \/ AcceptorCancelled \/ AcceptorJoined
  BY <1>2, WireUnchanged
  DEF MainSelects, MainAwaits, AcceptorCancelled, AcceptorJoined,
      wireVars, dispatcherVars, guestVars, taskVars, clientVars
<1>3. CASE ListenerStep
  <2>1. UNCHANGED <<toGuest, toHost, attached, qemu, task, realms>>
    BY <1>3 DEF ListenerStep, guestVars, taskVars, clientVars
  <2>2. CASE AcceptError \/ ListenerCancelled
    BY <2>1, <2>2, WireUnchanged DEF AcceptError, ListenerCancelled, wireVars
  <2>3. ASSUME NEW r \in Realm, AddStream(r) PROVE WireInv'
    <3>1. /\ UNCHANGED receiver /\ stream[r] = "dialed"
          /\ \A s \in Realm : stream'[s] = "none" <=> stream[s] = "none"
      BY <2>3 DEF AddStream, DispatcherInv, DispatcherTypeOK
    <3>2. \A t \in Realm : inbox[t] # NoRealm => inbox'[t] = inbox[t]
      BY <2>3, InboxesFill
    <3>3. WireTypes' /\ GuestsDialOnce' /\ GuestReadsInOrder'
      BY <2>1, <3>1 DEF WireTypes, GuestsDialOnce, GuestReadsInOrder
    <3>4. TasksKeepStreams'
      BY <2>1, <3>1, <3>2, RealmAssumption DEF TasksKeepStreams
    <3>5. UnusedIsSilent'
      BY <2>1, <3>2, RealmAssumption DEF UnusedIsSilent
    <3>6. TaskLeavesWireIdle'
      BY <2>1, <3>2 DEF TaskLeavesWireIdle, TasksKeepStreams
    <3> QED
      BY <3>3, <3>4, <3>5, <3>6
  <2> QED
    BY <1>3, <2>2, <2>3 DEF ListenerStep
<1> QED
  BY <1>1, <1>2, <1>3 DEF DaemonStep

\* Every step of the daemon and of its guests keeps the wire in order.
LEMMA WireStep == WireInv /\ DispatcherInv /\ CallsInv /\ [Next]_vars => WireInv'
<1> SUFFICES ASSUME WireInv, DispatcherInv, CallsInv, [Next]_vars PROVE WireInv'
  OBVIOUS
<1>1. CASE UNCHANGED vars
  BY <1>1, WireUnchanged
  DEF vars, wireVars, dispatcherVars, guestVars, taskVars, clientVars
<1> QED
  BY <1>1, WireTaskStep, WireClientStep, WireGuestStep, WireDaemonStep DEF Next, CallsInv

\* Dispatcher, calls and wire together.
HostInv == DispatcherInv /\ CallsInv /\ WireInv

\* The daemon keeps all three.
LEMMA HostInvariant == Spec => []HostInv
<1>1. Init => HostInv
  BY CallsInit, WireInit, InitInv DEF Init, HostInv
<1>2. CallsInv /\ WireInv /\ DispatcherInv /\ [Next]_vars => CallsInv' /\ WireInv'
  BY CallsStep, WireStep
<1>3. Spec => []DispatcherInv
  BY HostDispatcherInvariant
<1>4. Init => CallsInv /\ WireInv
  BY CallsInit, WireInit
<1> QED
  BY <1>2, <1>3, <1>4, PTL DEF Spec, HostInv

\* Where commands are: nowhere on an idle wire, at one place on a busy one.
LEMMA CommandPositions ==
  ASSUME NEW w
  PROVE  /\ w \in IdleWires => {i \in DOMAIN w : w[i] # "info"} = {}
         /\ w \in BusyWires => \E k \in {1, 2} : {i \in DOMAIN w : w[i] # "info"} = {k}
<1>1. CASE w = <<>>
  BY <1>1, Frames DEF BusyWires
<1>2. CASE w = <<"info">>
  <2>1. \A i \in DOMAIN w : w[i] = "info"
    BY <1>2
  <2> QED
    BY <1>2, <2>1, Frames DEF BusyWires
<1>3. ASSUME NEW q \in Request, w = <<q>>
      PROVE  {i \in DOMAIN w : w[i] # "info"} = {1} /\ w \notin IdleWires
  <2>1. DOMAIN w = {1} /\ w[1] = q
    BY <1>3
  <2> QED
    BY <1>3, <2>1, Frames DEF IdleWires
<1>4. ASSUME NEW q \in Request, w = <<"info", q>>
      PROVE  {i \in DOMAIN w : w[i] # "info"} = {2} /\ w \notin IdleWires
  <2>1. DOMAIN w = {1, 2} /\ w[1] = "info" /\ w[2] = q
    BY <1>4
  <2> QED
    BY <1>4, <2>1, Frames DEF IdleWires
<1> QED
  BY <1>1, <1>2, <1>3, <1>4 DEF IdleWires, BusyWires

\* ... on the stream of guest s, now and after a step.
LEMMA CommandsOnWire ==
  ASSUME NEW s \in Realm
  PROVE  /\ toGuest[s] \in IdleWires => Commands(s) = {}
         /\ toGuest[s] \in BusyWires => \E i \in {1, 2} : Commands(s) = {i}
         /\ toGuest'[s] \in IdleWires => Commands(s)' = {}
         /\ toGuest'[s] \in BusyWires => \E i \in {1, 2} : Commands(s)' = {i}
  BY CommandPositions DEF Commands

\* One command or response per stream, and only for a task that awaits it or is
\* gone: for any realms, however tasks and guests fail.
THEOREM WireIsInLockstep == Spec => []LockstepOnWire
<1>1. HostInv => LockstepOnWire
  <2> SUFFICES ASSUME HostInv, NEW s \in Realm
               PROVE  /\ \A i, j \in Commands(s) : i = j /\ ~toHost[s]
                      /\ toHost[s] \/ Commands(s) # {} =>
                           \E r \in Realm :
                             inbox[r] = s /\ ((attached[r] /\ task[r] = "awaiting") \/ task[r] \in Ended)
    BY DEF LockstepOnWire
  <2> USE DEF HostInv, WireInv
  <2>1. toGuest[s] \in IdleWires \cup BusyWires
    BY DEF WireTypes
  <2>2. toHost[s] => toGuest[s] \in IdleWires
    BY DEF GuestReadsInOrder
  <2>3. \A i, j \in Commands(s) : i = j /\ ~toHost[s]
    BY <2>1, <2>2, CommandsOnWire
  <2>4. ASSUME toHost[s] \/ Commands(s) # {}
        PROVE  \E r \in Realm :
                 inbox[r] = s /\ ((attached[r] /\ task[r] = "awaiting") \/ task[r] \in Ended)
    <3>1. toHost[s] \/ toGuest[s] \notin IdleWires
      BY <2>4, CommandsOnWire
    <3>2. PICK r \in Realm : inbox[r] = s /\ (attached[r] \/ task[r] \in Ended)
      BY <3>1, Frames DEF UnusedIsSilent
    <3>3. CASE attached[r]
      BY <3>1, <3>2, <3>3 DEF TaskLeavesWireIdle, TasksKeepStreams
    <3> QED
      BY <3>2, <3>3
  <2> QED
    BY <2>3, <2>4
<1> QED
  BY <1>1, HostInvariant, PTL

\* Every guest reads RealmInfo first and once, for any realms and cids.
THEOREM RealmInfoComesFirst == Spec => []InfoComesFirst
<1>1. HostInv => InfoComesFirst
  <2> SUFFICES ASSUME HostInv, NEW s \in Realm
               PROVE  /\ qemu[s] = "connected" /\ toGuest[s] # <<>> => Head(toGuest[s]) = "info"
                      /\ \A i \in DOMAIN toGuest[s] :
                           toGuest[s][i] = "info" => i = 1 /\ qemu[s] # "serving"
    BY DEF InfoComesFirst
  <2>1. toGuest[s] \in IdleWires \cup BusyWires
    BY DEF HostInv, WireInv, WireTypes
  <2>2. /\ qemu[s] = "serving" => toGuest[s] \in {<<>>} \cup {<<q>> : q \in Request}
        /\ qemu[s] = "connected" => toGuest[s] \notin {<<q>> : q \in Request}
    BY DEF HostInv, WireInv, GuestReadsInOrder
  <2>3. CASE toGuest[s] = <<>>
    BY <2>3
  <2>4. CASE toGuest[s] = <<"info">>
    <3>1. DOMAIN toGuest[s] = {1} /\ Head(toGuest[s]) = "info"
      BY <2>4
    <3> QED
      BY <2>2, <2>4, <3>1, Frames
  <2>5. ASSUME NEW q \in Request, toGuest[s] = <<q>>
        PROVE  /\ qemu[s] # "connected"
               /\ \A i \in DOMAIN toGuest[s] : toGuest[s][i] # "info"
    <3>1. DOMAIN toGuest[s] = {1} /\ toGuest[s][1] = q
      BY <2>5
    <3> QED
      BY <2>2, <2>5, <3>1, Frames
  <2>6. ASSUME NEW q \in Request, toGuest[s] = <<"info", q>>
        PROVE  /\ qemu[s] # "serving" /\ Head(toGuest[s]) = "info"
               /\ \A i \in DOMAIN toGuest[s] : toGuest[s][i] = "info" => i = 1
    <3>1. /\ DOMAIN toGuest[s] = {1, 2} /\ toGuest[s][2] = q /\ toGuest[s][1] = "info"
          /\ Head(toGuest[s]) = "info"
      BY <2>6
    <3> QED
      BY <2>2, <2>6, <3>1, Frames
  <2> QED
    BY <2>1, <2>3, <2>4, <2>5, <2>6 DEF IdleWires, BusyWires
<1> QED
  BY <1>1, HostInvariant, PTL

-----------------------------------------------------------------------------
(* What is left of the types.                                                  *)
MainTypes ==
  /\ cancelled \in BOOLEAN
  /\ acceptor \in {"accepting", "joining", "ok", "err"}
  /\ main \in {"select", "await_vsock", "await_unix", "exited", "failed"}

\* main and the acceptor move between the places the code has.
LEMMA MainTypesStep == MainTypes /\ [Next]_vars => MainTypes'
<1> SUFFICES ASSUME MainTypes, [Next]_vars PROVE MainTypes'
  OBVIOUS
<1>1. ASSUME UNCHANGED daemonVars PROVE MainTypes'
  BY <1>1 DEF daemonVars, MainTypes
<1>2. CASE UNCHANGED vars
  BY <1>1, <1>2 DEF vars
<1>3. CASE DaemonStep
  BY <1>1, <1>3
  DEF DaemonStep, MainSelects, MainAwaits, MainFails, AcceptorCancelled, AcceptorJoined,
      AcceptorFails, ListenerStep, AwaitUnix, MainTypes
<1>4. ASSUME NEW c \in Client, ClientStep(c) PROVE MainTypes'
  BY <1>1, <1>4
  DEF ClientStep, ClientCommand, ClientConnects, ReceiveResponse, WriteAnswer, ClientLeaves,
      ClientJoined, ClientIOError, CreateRealm, LaunchRealm, SendRequest
<1>5. ASSUME NEW r \in Realm, TaskStep(r) PROVE MainTypes'
  BY <1>1, <1>5
  DEF TaskStep, TaskRequestsStream, TaskAttaches, TaskTimeout, TaskSeesExit, TaskIOError,
      TaskTakesRequest, TaskReadsResponse, TaskEnds
<1>6. ASSUME NEW r \in Realm, GuestStep(r) PROVE MainTypes'
  BY <1>1, <1>6
  DEF GuestStep, GuestConnects, GuestReadsInfo, GuestReplies, GuestFails, QemuExits
<1> QED
  BY <1>2, <1>3, <1>4, <1>5, <1>6 DEF Next

\* Every variable of the daemon keeps its type, and at most RealmInfo and one
\* command are on their way to a guest.
THEOREM HostTypeCorrect == Spec => []TypeOK
<1>1. Spec => []MainTypes
  <2>1. Init => MainTypes
    BY DEF Init, MainTypes
  <2> QED
    BY <2>1, MainTypesStep, PTL DEF Spec
<1>2. HostInv /\ MainTypes => TypeOK
  <2> SUFFICES ASSUME HostInv, MainTypes PROVE TypeOK
    OBVIOUS
  <2>1. ASSUME NEW w \in IdleWires \cup BusyWires
        PROVE  w \in Seq({"info"} \cup Request) /\ Len(w) <= 2
    <3>1. CASE w = <<>>
      BY <3>1
    <3>2. CASE w = <<"info">>
      <4>1. <<"info">> \in Seq({"info"} \cup Request) /\ Len(<<"info">>) = 1
        OBVIOUS
      <4> QED
        BY <3>2, <4>1
    <3>3. ASSUME NEW q \in Request, w = <<q>> PROVE w \in Seq({"info"} \cup Request) /\ Len(w) <= 2
      BY <3>3
    <3>4. ASSUME NEW q \in Request, w = <<"info", q>>
          PROVE  w \in Seq({"info"} \cup Request) /\ Len(w) <= 2
      <4>1. <<"info", q>> \in Seq({"info"} \cup Request)
        OBVIOUS
      <4>2. Len(<<"info", q>>) = 2
        OBVIOUS
      <4> QED
        BY <3>4, <4>1, <4>2
    <3> QED
      BY <2>1, <3>1, <3>2, <3>3, <3>4 DEF IdleWires, BusyWires
  <2>2. toGuest \in [Realm -> IdleWires \cup BusyWires]
    BY DEF HostInv, WireInv, WireTypes
  <2>3. /\ toGuest \in [Realm -> Seq({"info"} \cup Request)]
        /\ \A r \in Realm : Len(toGuest[r]) <= 2
    BY <2>1, <2>2
  <2> QED
    BY <2>3
    DEF TypeOK, HostInv, DispatcherInv, CallsInv, CallTypes, WireInv, WireTypes, MainTypes
<1> QED
  BY <1>1, <1>2, HostInvariant, PTL

-----------------------------------------------------------------------------
(***************************************************************************)
(* Why the listener fails.  The dispatcher names a dropped receiver or two *)
(* guests with one cid; in the daemon those are a task that has ended and  *)
(* two guests that have both dialled, and both stay so.                    *)
(***************************************************************************)
\* A task that has ended stays so, with the stream it had or without one.
LEMMA EndedStays ==
  ASSUME HostInv, HostInv', [Next]_vars, NEW r \in Realm, task[r] \in Ended
  PROVE  task'[r] \in Ended /\ inbox'[r] = inbox[r]
<1> USE DEF HostInv, CallsInv, CallTypes
<1>1. task[r] \notin Live \cup {"none"}
  BY DEF Live, Ended
<1>2. task'[r] = task[r]
  <2>1. ASSUME UNCHANGED task PROVE task'[r] = task[r]
    BY <2>1
  <2>2. ASSUME NEW C, DropClients(C) PROVE task'[r] = task[r]
    BY <1>1, <2>2 DEF DropClients, EndTasks
  <2>3. CASE UNCHANGED vars
    BY <2>3 DEF vars, taskVars
  <2>4. CASE DaemonStep
    BY <2>2, <2>4
    DEF DaemonStep, MainSelects, MainAwaits, MainFails, AcceptorCancelled, AcceptorJoined,
        AcceptorFails, ListenerStep, taskVars
  <2>5. ASSUME NEW u \in Realm, TaskStep(u) PROVE task'[r] = task[r]
    <3>1. u # r
      BY <1>1, <2>5
      DEF TaskStep, TaskRequestsStream, TaskAttaches, TaskTimeout, TaskSeesExit, TaskIOError,
          TaskTakesRequest, TaskReadsResponse, Live
    <3> QED
      BY <2>5, <3>1
      DEF TaskStep, TaskRequestsStream, TaskAttaches, TaskTimeout, TaskSeesExit, TaskIOError,
          TaskTakesRequest, TaskReadsResponse, TaskEnds, EndTasks
  <2>6. ASSUME NEW u \in Realm, GuestStep(u) PROVE task'[r] = task[r]
    BY <2>6
    DEF GuestStep, GuestConnects, GuestReadsInfo, GuestReplies, GuestFails, QemuExits, taskVars
  <2>7. ASSUME NEW c \in Client, NEW u \in Realm, LaunchRealm(c, u) PROVE task'[r] = task[r]
    BY <1>1, <2>7 DEF LaunchRealm, OnlyLiveTasksHaveRequests
  <2>8. ASSUME NEW c \in Client, ClientStep(c) PROVE task'[r] = task[r]
    BY <2>2, <2>7, <2>8
    DEF ClientStep, ClientCommand, ClientConnects, ReceiveResponse, WriteAnswer, ClientLeaves,
        ClientJoined, ClientIOError, CreateRealm, SendRequest, taskVars
  <2> QED
    BY <2>3, <2>4, <2>5, <2>6, <2>8 DEF Next
<1>3. receiver'[r] # "open"
  BY <1>1, <1>2 DEF WireInv, TasksKeepStreams, Live
<1>4. inbox'[r] = inbox[r]
  BY <1>3, HostStepsDispatcher, InboxesFill
  DEF DispatcherNext, dispatcherVars, Dial, DropReceivers, AcceptError, ListenerCancelled
<1> QED
  BY <1>2, <1>4

\* add_stream's two errors, at the moment they are returned.
LEMMA ListenerFailsNow ==
  ASSUME HostInv, NEW s \in Realm, AddStream(s), UNCHANGED task
  PROVE  \/ listener' \notin {"SendError", "ConnectionPresent"}
         \/ ListenerFailsForDeadTask'
<1> DEFINE c == CidOf[s]
<1> USE CidAssumption DEF HostInv, DispatcherInv, DispatcherTypeOK
<1>1. c \in Cid /\ stream[s] = "dialed" /\ stream'[s] = "accepted" /\ listener = "listening"
  BY DEF AddStream
<1>2. \A u \in Realm : stream[u] = "accepted" => stream'[u] = "accepted"
  BY DEF AddStream
<1>3. CASE available[c] # NoRealm
  <2> DEFINE u == available[c]
  <2>1. u \in Realm /\ CidOf[u] = c /\ stream[u] = "accepted" /\ u # s
    BY <1>1, <1>3 DEF AvailableWasAccepted
  <2>2. listener' = "ConnectionPresent"
    BY <1>3 DEF AddStream
  <2> QED
    BY <1>1, <1>2, <2>1, <2>2 DEF ListenerFailsForDeadTask
<1>4. CASE available[c] = NoRealm /\ requests[c] = NoRealm
  BY <1>1, <1>4 DEF AddStream
<1>5. CASE available[c] = NoRealm /\ requests[c] # NoRealm
  <2> DEFINE t == requests[c]
  <2>1. t \in Realm /\ CidOf[t] = c /\ inbox[t] = NoRealm /\ receiver[t] # "none"
    BY <1>1, <1>5 DEF RequesterHasNothing
  <2>2. /\ listener' = IF receiver[t] = "open" THEN listener ELSE "SendError"
        /\ receiver[t] # "open" => UNCHANGED inbox
    BY <1>5 DEF AddStream, Resolve
  <2>3. CASE receiver[t] = "open"
    BY <1>1, <2>2, <2>3
  <2>4. CASE receiver[t] # "open"
    <3>1. task[t] \in Ended
      BY <2>1, <2>4 DEF WireInv, TasksKeepStreams
    <3> QED
      BY <1>1, <2>1, <2>2, <2>4, <3>1 DEF ListenerFailsForDeadTask
  <2> QED
    BY <2>3, <2>4
<1> QED
  BY <1>3, <1>4, <1>5

\* Who is to blame stays to blame.
LEMMA ListenerFailsStep ==
  HostInv /\ HostInv' /\ ListenerFailsForDeadTask /\ [Next]_vars => ListenerFailsForDeadTask'
<1> SUFFICES ASSUME HostInv, HostInv', ListenerFailsForDeadTask, [Next]_vars
             PROVE  ListenerFailsForDeadTask'
  OBVIOUS
<1>1. \A r \in Realm : stream[r] = "accepted" => stream'[r] = "accepted"
  BY HostStepsDispatcher
  DEF HostInv, DispatcherInv, DispatcherTypeOK, DispatcherNext, dispatcherVars, Dial, AddStream,
      RequestStream, DropReceivers, AcceptError, ListenerCancelled
<1>2. CASE UNCHANGED listener
  BY <1>1, <1>2, EndedStays DEF ListenerFailsForDeadTask
<1>3. ASSUME NEW s \in Realm, AddStream(s), ListenerStep PROVE ListenerFailsForDeadTask'
  BY <1>3, ListenerFailsNow DEF ListenerStep, taskVars, ListenerFailsForDeadTask
<1>4. CASE AcceptError \/ ListenerCancelled
  BY <1>4 DEF AcceptError, ListenerCancelled, ListenerFailsForDeadTask
<1>5. UNCHANGED listener \/ ListenerStep
  <2>1. CASE UNCHANGED vars
    BY <2>1 DEF vars, dispatcherVars
  <2>2. ASSUME NEW r \in Realm, TaskStep(r) PROVE UNCHANGED listener
    BY <2>2, TasksUseDispatcher DEF RequestStream, DropReceivers, dispatcherVars
  <2>3. ASSUME NEW r \in Realm, GuestStep(r) PROVE UNCHANGED listener
    BY <2>3, GuestsUseDispatcher DEF Dial, dispatcherVars
  <2>4. ASSUME NEW c \in Client, ClientStep(c) PROVE UNCHANGED listener
    BY <2>4, ClientsUseDispatcher DEF DropReceivers, dispatcherVars
  <2>5. CASE DaemonStep
    BY <2>5, DropClientsUsesDispatcher
    DEF DaemonStep, MainSelects, MainAwaits, MainFails, AcceptorCancelled, AcceptorJoined,
        AcceptorFails, DropReceivers, dispatcherVars
  <2> QED
    BY <2>1, <2>2, <2>3, <2>4, <2>5 DEF Next
<1> QED
  BY <1>2, <1>3, <1>4, <1>5 DEF ListenerStep

\* The listener fails on its own account, for a task that had ended, or for two
\* guests with one cid: in no daemon because of one realm that lives.
THEOREM ListenerOutlivesRealms == Spec => []ListenerFailsForDeadTask
<1>1. Init => ListenerFailsForDeadTask
  BY DEF Init, DispatcherInit, ListenerFailsForDeadTask
<1> QED
  BY <1>1, ListenerFailsStep, HostInvariant, PTL DEF Spec

-----------------------------------------------------------------------------
(***************************************************************************)
(* Commands from outside.  A queued request, a frame on the stream its     *)
(* task holds and a response on the way back are one command of            *)
(* RemoteCall; a wire that is idle has none.                               *)
(***************************************************************************)
\* The invariants hold after the step as well.
LEMMA HostStep == HostInv /\ [Next]_vars => HostInv'
  BY CallsStep, WireStep, HostStepsDispatcher, NextInv DEF HostInv

\* A task that is between requests has nothing on its wire.
LEMMA BetweenRequests ==
  ASSUME HostInv, NEW r \in Realm, task[r] \notin Ended \cup {"awaiting"}, inbox[r] # NoRealm
  PROVE  Commands(inbox[r]) = {} /\ ~toHost[inbox[r]]
<1> DEFINE s == inbox[r]
<1> USE DEF HostInv, WireInv
<1>1. s \in Realm /\ \A t \in Realm : inbox[t] = s => t = r
  BY DEF DispatcherInv, DispatcherTypeOK, OneHolderPerStream
<1>2. CASE attached[r]
  <2>1. toGuest[s] \in IdleWires /\ ~toHost[s]
    BY <1>2 DEF TaskLeavesWireIdle, TasksKeepStreams
  <2> QED
    BY <1>1, <2>1, CommandsOnWire
<1>3. CASE ~attached[r]
  <2>1. toGuest[s] = <<>> /\ ~toHost[s]
    BY <1>1, <1>3 DEF UnusedIsSilent
  <2> QED
    BY <1>1, <2>1, CommandsOnWire, Frames
<1> QED
  BY <1>2, <1>3

\* Underway reads the task's channel and the stream it was given.
LEMMA UnderwaySame ==
  ASSUME NEW r \in Realm, reqCh'[r] = reqCh[r], inbox'[r] = inbox[r],
         inbox[r] # NoRealm => /\ Commands(inbox[r])' = Commands(inbox[r])
                               /\ toHost'[inbox[r]] = toHost[inbox[r]]
  PROVE  Underway(r)' = Underway(r)
<1>1. CASE inbox[r] = NoRealm
  BY <1>1 DEF Underway
<1>2. CASE inbox[r] # NoRealm
  <2> DEFINE s == inbox[r]
  <2>1. Commands(inbox[r])' = Commands(s)
    BY <1>2
  <2> QED
    BY <1>2, <2>1 DEF Underway
<1> QED
  BY <1>1, <1>2

\* Steps that only hand out streams change no command: a new stream is silent.
LEMMA NewStreamsAreSilent ==
  ASSUME HostInv, HostInv', UNCHANGED <<toGuest, toHost, reqCh>>,
         \A r \in Realm : inbox[r] # NoRealm => inbox'[r] = inbox[r], NEW r \in Realm
  PROVE  Underway(r)' = Underway(r)
<1> USE DEF HostInv, WireInv
<1>1. \A s \in Realm : Commands(s)' = Commands(s)
  BY DEF Commands
<1>2. CASE inbox'[r] = inbox[r]
  <2>1. inbox[r] \in Realm \cup {NoRealm}
    BY DEF DispatcherInv, DispatcherTypeOK
  <2>2. inbox[r] # NoRealm => /\ Commands(inbox[r])' = Commands(inbox[r])
                              /\ toHost'[inbox[r]] = toHost[inbox[r]]
    BY <1>1, <1>2, <2>1 DEF Commands
  <2> QED
    BY <1>2, <2>2, UnderwaySame
<1>3. CASE inbox'[r] # inbox[r]
  <2> DEFINE s == inbox'[r]
  <2>1. inbox[r] = NoRealm /\ s \in Realm
    BY <1>3 DEF DispatcherInv, DispatcherTypeOK
  <2>2. \A t \in Realm : inbox[t] # s
    <3> SUFFICES ASSUME NEW t \in Realm, inbox[t] = s PROVE FALSE
      OBVIOUS
    <3>1. inbox'[t] = s /\ s # NoRealm
      BY <2>1, RealmAssumption
    <3> QED
      BY <2>1, <3>1, RealmAssumption DEF DispatcherInv, OneHolderPerStream
  <2>3. Commands(s) = {} /\ ~toHost[s]
    BY <2>1, <2>2, CommandsOnWire, Frames DEF UnusedIsSilent
  <2>4. Commands(inbox[r])' = {} /\ ~toHost'[s]
    BY <1>1, <2>1, <2>3 DEF Commands
  <2> QED
    BY <2>1, <2>4 DEF Underway
<1> QED
  BY <1>2, <1>3

\* Steps in which clients only stop waiting, or commands get lost on the way.
LEMMA CallsFinish ==
  ASSUME NEW R \in SUBSET Realm,
         \A r \in Realm : calling'[Owner[r]] = r <=> calling[Owner[r]] = r /\ r \notin R,
         respCh' = [r \in Realm |-> IF r \in R THEN NoResponse ELSE respCh[r]],
         \A r \in R : calling[Owner[r]] # r => respCh[r] = NoResponse,
         \A r \in Realm : \/ Underway(r)' = Underway(r)
                          \/ Underway(r) = "sent" /\ Underway(r)' = "none"
  PROVE  Calls!RemoteCallNext
<1> DEFINE asking == {r \in Realm : calling[Owner[r]] = r}
           lost == {r \in Realm : Underway(r) = "sent" /\ Underway(r)' = "none"}
<1>1. [r \in Realm |-> Underway(r)]'
        = [r \in Realm |-> IF r \in lost THEN "none" ELSE [u \in Realm |-> Underway(u)][r]]
  OBVIOUS
<1>2. asking' = asking \ R
  OBVIOUS
<1>3. respCh' = [r \in Realm |-> IF r \in asking \ asking' THEN NoResponse ELSE respCh[r]]
  BY <1>2
<1>4. Calls!Finish
  <2>1. lost \in SUBSET {r \in Realm : [u \in Realm |-> Underway(u)][r] = "sent"}
    OBVIOUS
  <2> HIDE DEF lost
  <2> QED
    BY <1>1, <1>2, <1>3, <2>1 DEF Calls!Finish
<1> QED
  BY <1>4 DEF Calls!RemoteCallNext

\* ... among them those in which nothing but a lost command changes.
LEMMA CallsLose ==
  ASSUME CallTypes, UNCHANGED <<calling, respCh>>,
         \A r \in Realm : \/ Underway(r)' = Underway(r)
                          \/ Underway(r) = "sent" /\ Underway(r)' = "none"
  PROVE  Calls!RemoteCallNext
<1>1. /\ \A r \in Realm : calling'[Owner[r]] = r <=> calling[Owner[r]] = r /\ r \notin {}
      /\ respCh' = [r \in Realm |-> IF r \in {} THEN NoResponse ELSE respCh[r]]
  BY DEF CallTypes
<1>2. /\ {} \in SUBSET Realm
      /\ \A r \in {} : calling[Owner[r]] # r => respCh[r] = NoResponse
  OBVIOUS
<1> QED
  BY <1>1, <1>2, CallsFinish

\* Tasks that end lose the request in their channel; what is on the wire stays.
LEMMA EndTasksLose ==
  ASSUME HostInv, NEW R \in SUBSET Realm, NEW v, EndTasks(R, v), UNCHANGED guestVars, NEW r \in Realm
  PROVE  \/ Underway(r)' = Underway(r)
         \/ Underway(r) = "sent" /\ Underway(r)' = "none"
<1> USE DEF HostInv, CallsInv
<1>1. /\ UNCHANGED <<inbox, toGuest, toHost>>
      /\ reqCh'[r] = IF r \in R THEN NoRequest ELSE reqCh[r]
  BY DEF EndTasks, DropReceivers, guestVars
<1>2. Commands(inbox[r])' = Commands(inbox[r])
  BY <1>1 DEF Commands
<1>3. CASE reqCh'[r] = reqCh[r]
  BY <1>1, <1>2, <1>3, UnderwaySame
<1>4. CASE reqCh'[r] # reqCh[r]
  <2>1. reqCh[r] # NoRequest /\ reqCh'[r] = NoRequest
    BY <1>1, <1>4
  <2>2. task[r] \in Live /\ task[r] # "awaiting"
    BY <2>1 DEF OnlyLiveTasksHaveRequests, CallInOnePlace
  <2>3. inbox[r] # NoRealm => Commands(inbox[r]) = {} /\ ~toHost[inbox[r]]
    BY <2>2, BetweenRequests DEF Live, Ended
  <2>4. Underway(r) = "sent"
    BY <2>1 DEF Underway
  <2>5. Underway(r)' = "none"
    BY <1>1, <1>2, <2>1, <2>3 DEF Underway
  <2> QED
    BY <2>4, <2>5
<1> QED
  BY <1>3, <1>4

\* The task's answers: the guest's response, or that there is no stream.
LEMMA CallsAnswer ==
  ASSUME HostInv, NEW r \in Realm, UNCHANGED calling,
         respCh[r] = NoResponse, calling[Owner[r]] = r,
         \/ Underway(r) = "executed" /\ respCh' = [respCh EXCEPT ![r] = "Ok"]
         \/ Underway(r) = "sent" /\ respCh' = [respCh EXCEPT ![r] = "RealmNotConnected"],
         Underway(r)' = "none",
         \A t \in Realm \ {r} : Underway(t)' = Underway(t)
  PROVE  Calls!RemoteCallNext
<1>1. [t \in Realm |-> Underway(t)]' = [[t \in Realm |-> Underway(t)] EXCEPT ![r] = "none"]
  OBVIOUS
<1>2. Calls!Answer(r)
  BY <1>1 DEF Calls!Answer
<1> QED
  BY <1>2 DEF Calls!RemoteCallNext

\* Of the streams that tasks hold, a step on one leaves the commands of all others.
LEMMA OtherWires ==
  ASSUME HostInv, NEW s \in Realm, UNCHANGED <<inbox, reqCh>>,
         \A u \in Realm : u # s => toGuest'[u] = toGuest[u] /\ toHost'[u] = toHost[u],
         NEW r \in Realm, inbox[r] # s
  PROVE  Underway(r)' = Underway(r)
<1>1. inbox[r] \in Realm \cup {NoRealm}
  BY DEF HostInv, DispatcherInv, DispatcherTypeOK
<1>2. inbox[r] # NoRealm => /\ Commands(inbox[r])' = Commands(inbox[r])
                            /\ toHost'[inbox[r]] = toHost[inbox[r]]
  BY <1>1 DEF Commands
<1> QED
  BY <1>2, UnderwaySame

\* A task forwards a command, answers it, or loses it.
LEMMA CallsTaskSteps ==
  ASSUME HostInv, HostInv', NEW r \in Realm, TaskStep(r)
  PROVE  Calls!RemoteCallNext
<1> USE DEF HostInv, CallsInv
<1>1. ASSUME NEW v, TaskEnds(r, v) PROVE Calls!RemoteCallNext
  BY <1>1, EndTasksLose, CallsLose, {r} \in SUBSET Realm DEF TaskEnds, clientVars
<1>2. CASE TaskRequestsStream(r) /\ ~TaskEnds(r, "err")
  <2>1. /\ RequestStream(r) /\ UNCHANGED <<toGuest, toHost, reqCh, respCh, calling>>
    BY <1>2 DEF TaskRequestsStream, guestVars, clientVars
  <2> QED
    BY <2>1, InboxesFill, NewStreamsAreSilent, CallsLose
<1>3. CASE TaskAttaches(r) /\ ~TaskEnds(r, "err")
  <2> DEFINE s == inbox[r]
  <2>1. /\ task[r] = "select" /\ s # NoRealm
        /\ toGuest' = [toGuest EXCEPT ![s] = Append(@, "info")]
        /\ UNCHANGED <<inbox, toHost, reqCh, respCh, calling>>
        /\ ~attached[r]
    BY <1>3 DEF TaskAttaches, dispatcherVars, clientVars
  <2>2. s \in Realm /\ \A t \in Realm : inbox[t] = s => t = r
    BY <2>1 DEF DispatcherInv, DispatcherTypeOK, OneHolderPerStream
  <2>3. toGuest[s] = <<>>
    BY <2>1, <2>2 DEF WireInv, UnusedIsSilent, Ended
  <2>4. toGuest'[s] = <<"info">> /\ \A u \in Realm : u # s => toGuest'[u] = toGuest[u]
    BY <2>1, <2>2, <2>3, Frames DEF WireInv, WireTypes
  <2>5. Commands(s) = {} /\ Commands(s)' = {}
    BY <2>1, <2>2, <2>3, <2>4, Frames, CommandsOnWire
  <2>6. Underway(r)' = Underway(r)
    <3>1. Commands(inbox[r])' = Commands(s)
      BY <2>1, <2>5 DEF Commands
    <3> QED
      BY <2>1, <3>1, UnderwaySame
  <2>7. \A t \in Realm : Underway(t)' = Underway(t)
    BY <2>1, <2>2, <2>4, <2>6, OtherWires
  <2> QED
    BY <2>1, <2>7, CallsLose
<1>4. CASE TaskTimeout(r)
  BY <1>4, NewStreamsAreSilent, CallsLose DEF TaskTimeout, dispatcherVars, guestVars, clientVars
<1>5. CASE TaskTakesRequest(r) /\ ~TaskEnds(r, "err")
  <2> DEFINE s == inbox[r]
             q == reqCh[r]
  <2>1. /\ task[r] = "select" /\ q # NoRequest /\ q \in Request
        /\ reqCh' = [reqCh EXCEPT ![r] = NoRequest]
        /\ UNCHANGED <<inbox, toHost, calling>>
    BY <1>5 DEF TaskTakesRequest, dispatcherVars, guestVars, clientVars, CallTypes
  <2>2. calling[Owner[r]] = r /\ respCh[r] = NoResponse
    BY <2>1 DEF CallInOnePlace
  <2>3. Underway(r) = "sent"
    BY <2>1 DEF Underway
  <2>4. reqCh'[r] = NoRequest /\ \A t \in Realm : t # r => reqCh'[t] = reqCh[t]
    BY <2>1 DEF CallTypes
  <2>5. CASE ~attached[r]
    <3>1. respCh' = [respCh EXCEPT ![r] = "RealmNotConnected"] /\ UNCHANGED toGuest
      BY <1>5, <2>5 DEF TaskTakesRequest, guestVars
    <3>2. \A u : Commands(u)' = Commands(u)
      BY <3>1 DEF Commands
    <3>3. Commands(inbox[r])' = Commands(s)
      BY <2>1, <3>1 DEF Commands
    <3>4. Underway(r)' = "none"
      BY <2>1, <2>4, <3>3, BetweenRequests DEF Underway, Ended
    <3>5. \A t \in Realm \ {r} : Underway(t)' = Underway(t)
      <4> SUFFICES ASSUME NEW t \in Realm \ {r} PROVE Underway(t)' = Underway(t)
        OBVIOUS
      <4>1. Commands(inbox[t])' = Commands(inbox[t])
        BY <2>1, <3>1 DEF Commands
      <4> QED
        BY <2>1, <2>4, <4>1, UnderwaySame
    <3> QED
      BY <2>1, <2>2, <2>3, <3>1, <3>4, <3>5, CallsAnswer
  <2>6. CASE attached[r]
    <3>1. /\ toGuest' = [toGuest EXCEPT ![s] = Append(@, q)] /\ UNCHANGED respCh
      BY <1>5, <2>6 DEF TaskTakesRequest
    <3>2. s \in Realm /\ s # NoRealm /\ \A t \in Realm : inbox[t] = s => t = r
      BY <2>6 DEF WireInv, TasksKeepStreams, DispatcherInv, DispatcherTypeOK, OneHolderPerStream
    <3>3. toGuest[s] \in IdleWires
      BY <2>1, <2>6 DEF WireInv, TaskLeavesWireIdle
    <3>4. toGuest'[s] \in BusyWires
      <4>1. toGuest'[s] = Append(toGuest[s], q)
        BY <3>1, <3>2 DEF WireInv, WireTypes
      <4> QED
        BY <2>1, <3>3, <4>1, Frames DEF IdleWires, BusyWires
    <3>5. Commands(s)' # {}
      BY <2>1, <3>2, <3>4, CommandsOnWire
    <3>6. Underway(r)' = "sent"
      <4>1. Commands(inbox[r])' # {}
        BY <2>1, <3>5 DEF Commands
      <4> QED
        BY <2>1, <3>2, <4>1 DEF Underway
    <3>7. \A t \in Realm \ {r} : Underway(t)' = Underway(t)
      <4> SUFFICES ASSUME NEW t \in Realm \ {r} PROVE Underway(t)' = Underway(t)
        OBVIOUS
      <4>1. inbox[t] # NoRealm => inbox[t] \in Realm /\ inbox[t] # s
        BY <3>2 DEF DispatcherInv, DispatcherTypeOK
      <4>2. inbox[t] # NoRealm => Commands(inbox[t])' = Commands(inbox[t])
        BY <2>1, <3>1, <3>2, <4>1 DEF Commands, WireInv, WireTypes
      <4> QED
        BY <2>1, <2>4, <4>2, UnderwaySame
    <3> QED
      BY <2>1, <2>3, <3>1, <3>6, <3>7, CallsLose
  <2> QED
    BY <2>5, <2>6
<1>6. CASE TaskReadsResponse(r) /\ ~TaskEnds(r, "err")
  <2> DEFINE s == inbox[r]
  <2>1. /\ task[r] = "awaiting" /\ toHost[s]
        /\ toHost' = [toHost EXCEPT ![s] = FALSE]
        /\ respCh' = [respCh EXCEPT ![r] = "Ok"]
        /\ UNCHANGED <<inbox, toGuest, reqCh, calling>>
    BY <1>6 DEF TaskReadsResponse, dispatcherVars, clientVars
  <2>2. calling[Owner[r]] = r /\ respCh[r] = NoResponse /\ reqCh[r] = NoRequest
    BY <2>1 DEF CallInOnePlace
  <2>3. s \in Realm /\ s # NoRealm /\ \A t \in Realm : inbox[t] = s => t = r
    BY <2>1 DEF WireInv, TasksKeepStreams, DispatcherInv, DispatcherTypeOK, OneHolderPerStream
  <2>4. Commands(s) = {}
    BY <2>1, <2>3, CommandsOnWire DEF WireInv, GuestReadsInOrder
  <2>5. ~toHost'[s] /\ \A u \in Realm : u # s => toHost'[u] = toHost[u]
    BY <2>1, <2>3 DEF WireInv, WireTypes
  <2>6. Underway(r) = "executed"
    BY <2>1, <2>2, <2>3, <2>4 DEF Underway
  <2>7. Underway(r)' = "none"
    <3>1. Commands(inbox[r])' = {}
      BY <2>1, <2>4 DEF Commands
    <3> QED
      BY <2>1, <2>2, <2>5, <3>1 DEF Underway
  <2>8. \A t \in Realm \ {r} : Underway(t)' = Underway(t)
    BY <2>1, <2>3, <2>5, OtherWires
  <2> QED
    BY <2>1, <2>2, <2>6, <2>7, <2>8, CallsAnswer
<1> QED
  BY <1>1, <1>2, <1>3, <1>4, <1>5, <1>6 DEF TaskStep, TaskSeesExit, TaskIOError

\* A guest executes the command at the head of its stream, or loses it.
LEMMA CallsGuestSteps ==
  ASSUME HostInv, HostInv', NEW s \in Realm, GuestStep(s)
  PROVE  Calls!RemoteCallNext
<1> USE DEF HostInv, CallsInv
<1>1. /\ UNCHANGED <<inbox, reqCh, respCh, calling>>
      /\ \A u \in Realm : u # s => toGuest'[u] = toGuest[u] /\ toHost'[u] = toHost[u]
  BY DEF GuestStep, GuestConnects, GuestReadsInfo, GuestReplies, GuestFails, QemuExits, Dial,
         dispatcherVars, taskVars, clientVars, WireInv, WireTypes
<1>2. \A r \in Realm : inbox[r] # s => Underway(r)' = Underway(r)
  BY <1>1, OtherWires
<1>3. CASE UNCHANGED <<toGuest, toHost>>
  BY <1>1, <1>3, NewStreamsAreSilent, CallsLose
<1>4. CASE GuestReadsInfo(s) \/ QemuExits(s)
  <2>1. UNCHANGED toHost
    BY <1>4 DEF GuestReadsInfo, QemuExits
  <2>2. ASSUME NEW r \in Realm, inbox[r] = s
        PROVE  \/ Underway(r)' = Underway(r)
               \/ Underway(r) = "sent" /\ Underway(r)' = "none"
    <3>0. s # NoRealm
      BY RealmAssumption
    <3>1. Commands(s)' = {} \/ (Commands(s) # {} /\ Commands(s)' # {})
      <4>1. CASE toGuest'[s] \in IdleWires
        BY <4>1, CommandsOnWire
      <4>2. CASE toGuest'[s] \notin IdleWires
        <5>1. /\ toGuest'[s] # <<>> /\ toGuest[s] # <<>> /\ toGuest'[s] = Tail(toGuest[s])
          BY <1>4, <4>2, Frames DEF GuestReadsInfo, QemuExits, WireInv, WireTypes
        <5>2. toGuest[s] \in BusyWires
          BY <5>1, Frames DEF WireInv, WireTypes, IdleWires
        <5>3. toGuest'[s] \in BusyWires
          BY <4>2 DEF WireInv, WireTypes
        <5> QED
          BY <5>2, <5>3, CommandsOnWire
      <4> QED
        BY <4>1, <4>2
    <3>2. Commands(inbox[r])' = Commands(s)'
      BY <1>1, <2>2 DEF Commands
    <3>3. Commands(s) # {} => ~toHost[s]
      BY CommandsOnWire, Frames DEF WireInv, WireTypes, GuestReadsInOrder
    <3>4. CASE reqCh[r] # NoRequest
      BY <1>1, <3>4 DEF Underway
    <3>5. CASE reqCh[r] = NoRequest /\ Commands(s)' = {}
      <4>1. CASE Commands(s) = {}
        BY <1>1, <2>1, <2>2, <3>2, <3>5, <4>1 DEF Underway
      <4>2. CASE Commands(s) # {}
        <5>1. Underway(r) = "sent"
          BY <2>2, <3>0, <4>2 DEF Underway
        <5>2. Underway(r)' = "none"
          BY <1>1, <2>1, <2>2, <3>2, <3>3, <3>5, <4>2 DEF Underway
        <5> QED
          BY <5>1, <5>2
      <4> QED
        BY <4>1, <4>2
    <3>6. CASE reqCh[r] = NoRequest /\ Commands(s) # {} /\ Commands(s)' # {}
      BY <1>1, <2>2, <3>0, <3>2, <3>6 DEF Underway
    <3> QED
      BY <3>1, <3>4, <3>5, <3>6
  <2> QED
    BY <1>1, <1>2, <2>2, CallsLose
<1>5. CASE GuestReplies(s)
  <2>1. /\ qemu[s] = "serving" /\ toGuest[s] # <<>>
        /\ toGuest' = [toGuest EXCEPT ![s] = Tail(@)]
        /\ toHost' = [toHost EXCEPT ![s] = TRUE]
    BY <1>5 DEF GuestReplies
  <2>2. toGuest[s] \in BusyWires /\ Tail(toGuest[s]) = <<>>
    <3>1. PICK q \in Request : toGuest[s] = <<q>>
      BY <2>1 DEF WireInv, GuestReadsInOrder
    <3> QED
      BY <3>1, Frames DEF BusyWires
  <2>3. toGuest'[s] = <<>> /\ toHost'[s] = TRUE
    BY <2>1, <2>2 DEF WireInv, WireTypes
  <2>4. Commands(s) # {} /\ Commands(s)' = {}
    BY <2>2, <2>3, Frames, CommandsOnWire
  <2>5. ASSUME NEW r \in Realm, inbox[r] = s, reqCh[r] = NoRequest
        PROVE  Calls!RemoteCallNext
    <3>1. Underway(r) = "sent"
      BY <2>4, <2>5, RealmAssumption DEF Underway
    <3>2. Commands(inbox[r])' = {}
      BY <1>1, <2>4, <2>5 DEF Commands
    <3>3. Underway(r)' = "executed"
      BY <1>1, <2>3, <2>5, <3>2, RealmAssumption DEF Underway
    <3>4. \A t \in Realm : t # r => inbox[t] # s
      BY <2>5, RealmAssumption DEF DispatcherInv, OneHolderPerStream
    <3>5. [t \in Realm |-> Underway(t)]' = [[t \in Realm |-> Underway(t)] EXCEPT ![r] = "executed"]
      BY <1>2, <3>3, <3>4
    <3>6. Calls!Execute(r)
      BY <1>1, <3>1, <3>5 DEF Calls!Execute
    <3> QED
      BY <3>6 DEF Calls!RemoteCallNext
  <2>6. ASSUME \A r \in Realm : inbox[r] = s => reqCh[r] # NoRequest
        PROVE  Calls!RemoteCallNext
    <3>1. \A r \in Realm : inbox[r] = s => Underway(r)' = Underway(r)
      BY <1>1, <2>6 DEF Underway
    <3> QED
      BY <1>1, <1>2, <3>1, CallsLose
  <2> QED
    BY <2>5, <2>6
<1>6. GuestConnects(s) \/ GuestFails(s) => UNCHANGED <<toGuest, toHost>>
  BY DEF GuestConnects, GuestFails
<1> QED
  BY <1>3, <1>4, <1>5, <1>6 DEF GuestStep

\* Dropped clients stop waiting, and the requests in their channels are lost.
LEMMA CallsDrop ==
  ASSUME HostInv, NEW C, DropClients(C)
  PROVE  Calls!RemoteCallNext
<1> DEFINE D == {r \in Realm : Owner[r] \in C}
           R == {r \in Realm : Owner[r] \in C /\ task[r] \in Live}
<1>1. /\ EndTasks(R, "aborted") /\ UNCHANGED guestVars
      /\ respCh' = [r \in Realm |-> IF Owner[r] \in C THEN NoResponse ELSE respCh[r]]
      /\ calling' = [c \in Client |-> IF c \in C THEN NoRealm ELSE calling[c]]
  BY DEF DropClients
<1>2. \A r \in Realm : \/ Underway(r)' = Underway(r)
                       \/ Underway(r) = "sent" /\ Underway(r)' = "none"
  BY <1>1, EndTasksLose
<1>3. \A r \in Realm : calling'[Owner[r]] = r <=> calling[Owner[r]] = r /\ r \notin D
  BY <1>1, OwnerAssumption, RealmAssumption
<1>4. respCh' = [r \in Realm |-> IF r \in D THEN NoResponse ELSE respCh[r]]
  BY <1>1
<1>5. \A r \in D : calling[Owner[r]] # r => respCh[r] = NoResponse
  BY DEF HostInv, CallsInv, CallInOnePlace
<1> QED
  BY <1>2, <1>3, <1>4, <1>5, CallsFinish

\* A client sends a command when nothing is left of the last, or stops waiting.
LEMMA CallsClientSteps ==
  ASSUME HostInv, HostInv', NEW c \in Client, ClientStep(c)
  PROVE  Calls!RemoteCallNext
<1> USE DEF HostInv, CallsInv
<1>1. ASSUME UNCHANGED <<inbox, toGuest, toHost, reqCh, respCh, calling>>
      PROVE  Calls!RemoteCallNext
  BY <1>1, NewStreamsAreSilent, CallsLose
<1>2. CASE ClientIOError(c)
  BY <1>2, CallsDrop DEF ClientIOError
<1>3. CASE ReceiveResponse(c)
  <2> DEFINE r == calling[c]
  <2>1. /\ client[c] = "waiting" /\ respCh' = [respCh EXCEPT ![r] = NoResponse]
        /\ calling' = [calling EXCEPT ![c] = NoRealm]
        /\ UNCHANGED <<inbox, toGuest, toHost, reqCh>>
    BY <1>3 DEF ReceiveResponse, dispatcherVars, guestVars
  <2>2. r \in Realm /\ Owner[r] = c
    BY <2>1 DEF WaitingIsCalling, CallTypes
  <2>3. \A u \in Realm : Underway(u)' = Underway(u)
    BY <2>1, NewStreamsAreSilent
  <2>4. respCh' = [u \in Realm |-> IF u \in {r} THEN NoResponse ELSE respCh[u]]
    BY <2>1, <2>2 DEF CallTypes
  <2>5. \A u \in Realm : calling'[Owner[u]] = u <=> calling[Owner[u]] = u /\ u \notin {r}
    <3> SUFFICES ASSUME NEW u \in Realm
                 PROVE  calling'[Owner[u]] = u <=> calling[Owner[u]] = u /\ u # r
      OBVIOUS
    <3>1. CASE Owner[u] = c
      BY <2>1, <2>2, <3>1, RealmAssumption DEF CallTypes
    <3>2. CASE Owner[u] # c
      BY <2>1, <2>2, <3>2, OwnerAssumption DEF CallTypes
    <3> QED
      BY <3>1, <3>2
  <2> QED
    BY <2>2, <2>3, <2>4, <2>5, CallsFinish
<1>4. ASSUME NEW r \in Realm, NEW q \in Request, Owner[r] = c, SendRequest(c, r, q), task[r] \in Live
      PROVE  Calls!RemoteCallNext
  <2>1. /\ client[c] = "idle" /\ reqCh' = [reqCh EXCEPT ![r] = q]
        /\ calling' = [calling EXCEPT ![c] = r]
        /\ UNCHANGED <<inbox, toGuest, toHost, respCh>>
    BY <1>4 DEF SendRequest, dispatcherVars, guestVars
  <2>2. calling[c] = NoRealm /\ r # NoRealm
    BY <2>1, RealmAssumption DEF WaitingIsCalling
  <2>3. reqCh[r] = NoRequest /\ respCh[r] = NoResponse /\ task[r] # "awaiting"
    BY <1>4, <2>2 DEF CallInOnePlace
  <2>4. Underway(r) = "none"
    BY <1>4, <2>3, BetweenRequests DEF Underway, Live, Ended
  <2>5. q # NoRequest
    BY RequestAssumption DEF AppRequests, NoRequest
  <2>6. Underway(r)' = "sent"
    BY <2>1, <2>5 DEF Underway, CallTypes
  <2>7. \A u \in Realm \ {r} : Underway(u)' = Underway(u)
    <3> SUFFICES ASSUME NEW u \in Realm \ {r} PROVE Underway(u)' = Underway(u)
      OBVIOUS
    <3>1. reqCh'[u] = reqCh[u] /\ Commands(inbox[u])' = Commands(inbox[u])
      BY <2>1 DEF CallTypes, Commands
    <3> QED
      BY <2>1, <3>1, UnderwaySame
  <2>8. [u \in Realm |-> Underway(u)]' = [[u \in Realm |-> Underway(u)] EXCEPT ![r] = "sent"]
    BY <2>6, <2>7
  <2>9. {u \in Realm : calling[Owner[u]] = u}' = {u \in Realm : calling[Owner[u]] = u} \cup {r}
    <3>1. \A u \in Realm : calling'[Owner[u]] = u <=> calling[Owner[u]] = u \/ u = r
      <4> SUFFICES ASSUME NEW u \in Realm
                   PROVE  calling'[Owner[u]] = u <=> calling[Owner[u]] = u \/ u = r
        OBVIOUS
      <4>1. CASE Owner[u] = c
        BY <1>4, <2>1, <2>2, <4>1, RealmAssumption DEF CallTypes
      <4>2. CASE Owner[u] # c
        BY <1>4, <2>1, <4>2, OwnerAssumption DEF CallTypes
      <4> QED
        BY <4>1, <4>2
    <3> QED
      BY <3>1
  <2>10. r \notin {u \in Realm : calling[Owner[u]] = u}
    BY <1>4, <2>2
  <2>11. Calls!Ask(r)
    BY <2>1, <2>3, <2>4, <2>8, <2>9, <2>10 DEF Calls!Ask
  <2> QED
    BY <2>11 DEF Calls!RemoteCallNext
<1>5. ASSUME NEW r \in Realm, NEW q \in Request, SendRequest(c, r, q), task[r] \notin Live
      PROVE  Calls!RemoteCallNext
  BY <1>1, <1>5 DEF SendRequest, dispatcherVars, guestVars
<1>6. CASE ClientConnects(c) \/ WriteAnswer(c) \/ ClientLeaves(c) \/ ClientJoined(c)
  BY <1>1, <1>6
  DEF ClientConnects, WriteAnswer, ClientLeaves, ClientJoined, dispatcherVars, guestVars, taskVars
<1>7. ASSUME NEW r \in Realm, CreateRealm(c, r) \/ LaunchRealm(c, r)
      PROVE  Calls!RemoteCallNext
  BY <1>1, <1>7 DEF CreateRealm, LaunchRealm, dispatcherVars, guestVars, taskVars
<1> QED
  BY <1>2, <1>3, <1>4, <1>5, <1>6, <1>7 DEF ClientStep, ClientCommand

\* The listener gives silent streams only; main and the acceptor drop clients.
LEMMA CallsDaemonSteps ==
  ASSUME HostInv, HostInv', DaemonStep
  PROVE  Calls!RemoteCallNext
<1> USE DEF HostInv, CallsInv
<1>1. CASE MainFails \/ AcceptorFails
  BY <1>1, CallsDrop DEF MainFails, AcceptorFails
<1>2. CASE ListenerStep
  <2>1. UNCHANGED <<toGuest, toHost, reqCh, respCh, calling>>
    BY <1>2 DEF ListenerStep, guestVars, taskVars, clientVars
  <2>2. \A r \in Realm : inbox[r] # NoRealm => inbox'[r] = inbox[r]
    BY <1>2, InboxesFill DEF ListenerStep, AcceptError, ListenerCancelled
  <2> QED
    BY <2>1, <2>2, NewStreamsAreSilent, CallsLose
<1>3. CASE MainSelects \/ MainAwaits \/ AcceptorCancelled \/ AcceptorJoined
  BY <1>3, NewStreamsAreSilent, CallsLose
  DEF MainSelects, MainAwaits, AcceptorCancelled, AcceptorJoined,
      dispatcherVars, guestVars, taskVars, clientVars
<1> QED
  BY <1>1, <1>2, <1>3 DEF DaemonStep

\* The daemon implements RemoteCall, for any clients, realms and cids: a command
\* is executed at most once, and Ok is the answer to one that was.
THEOREM HostCallsAtMostOnce == Spec => AtMostOnce
<1>1. Init => Calls!RemoteCallInit
  <2> SUFFICES ASSUME Init PROVE Calls!RemoteCallInit
    OBVIOUS
  <2>1. {r \in Realm : calling[Owner[r]] = r} = {}
    BY OwnerAssumption, RealmAssumption DEF Init
  <2>2. \A r \in Realm : Underway(r) = "none"
    BY DEF Init, DispatcherInit, Underway
  <2> QED
    BY <2>1, <2>2 DEF Calls!RemoteCallInit, Init
<1>2. HostInv /\ [Next]_vars => [Calls!RemoteCallNext]_(Calls!remoteCallVars)
  <2> SUFFICES ASSUME HostInv, [Next]_vars
               PROVE  [Calls!RemoteCallNext]_(Calls!remoteCallVars)
    OBVIOUS
  <2>1. HostInv'
    BY HostStep
  <2>2. CASE UNCHANGED vars
    BY <2>1, <2>2, NewStreamsAreSilent, CallsLose
    DEF vars, dispatcherVars, guestVars, taskVars, clientVars, HostInv, CallsInv
  <2> QED
    BY <2>1, <2>2, CallsTaskSteps, CallsGuestSteps, CallsClientSteps, CallsDaemonSteps DEF Next
<1> QED
  BY <1>1, <1>2, HostInvariant, PTL DEF Spec, AtMostOnce, Calls!RemoteCallSpec

-----------------------------------------------------------------------------
(***************************************************************************)
(* The stream, seen from the daemon's end.  Whatever a task does on a      *)
(* stream, and a guest at its other end, is a step of RealmProtocol.       *)
(***************************************************************************)
\* The command among the frames w.
CommandIn(w) ==
  LET C == {i \in DOMAIN w : w[i] # "info"} IN
  IF C = {} THEN NoRequest ELSE w[CHOOSE i \in C : TRUE]

\* It is the only one there is.
LEMMA CommandInFrames ==
  /\ \A w \in IdleWires : CommandIn(w) = NoRequest
  /\ \A q \in Request : CommandIn(<<q>>) = q /\ CommandIn(<<"info", q>>) = q /\ q # NoRequest
<1>1. ASSUME NEW w \in IdleWires PROVE CommandIn(w) = NoRequest
  BY CommandPositions DEF CommandIn
<1>2. ASSUME NEW q \in Request PROVE CommandIn(<<q>>) = q
  <2> DEFINE w == <<q>>
  <2>1. w[1] = q /\ {i \in DOMAIN w : w[i] # "info"} = {1}
    BY <1>2, Frames
  <2> QED
    BY <2>1 DEF CommandIn
<1>3. ASSUME NEW q \in Request PROVE CommandIn(<<"info", q>>) = q
  <2> DEFINE w == <<"info", q>>
  <2>1. w[2] = q /\ DOMAIN w = {1, 2} /\ w[1] = "info" /\ q # "info"
    BY <1>3, Frames
  <2>2. {i \in DOMAIN w : w[i] # "info"} = {2}
    BY <2>1
  <2> QED
    BY <2>1, <2>2 DEF CommandIn
<1>4. \A q \in Request : q # NoRequest
  BY RequestAssumption DEF AppRequests, NoRequest
<1> QED
  BY <1>1, <1>2, <1>3, <1>4

\* What the protocol sees of guest s, now and after a step.
LEMMA CommandToIsIn ==
  ASSUME NEW s \in Realm
  PROVE  CommandTo(s) = CommandIn(toGuest[s]) /\ CommandTo(s)' = CommandIn(toGuest'[s])
  BY DEF CommandTo, CommandIn, Commands

\* A step on one stream is seen on that stream only.
LEMMA SeenOnOneStream ==
  ASSUME NEW s \in Realm,
         \A u \in Realm : u # s => /\ toGuest'[u] = toGuest[u] /\ qemu'[u] = qemu[u]
                                   /\ toHost'[u] = toHost[u],
         WireTypes, WireTypes'
  PROVE  /\ [u \in Realm |-> GuestState(u)]'
              = [[u \in Realm |-> GuestState(u)] EXCEPT ![s] = GuestState(s)']
         /\ GuestState(s)' = GuestState(s) =>
              [u \in Realm |-> GuestState(u)]' = [u \in Realm |-> GuestState(u)]
         /\ [u \in Realm |-> CommandTo(u)]'
              = [[u \in Realm |-> CommandTo(u)] EXCEPT ![s] = CommandTo(s)']
         /\ CommandTo(s)' = CommandTo(s) =>
              [u \in Realm |-> CommandTo(u)]' = [u \in Realm |-> CommandTo(u)]
         /\ toHost' = [toHost EXCEPT ![s] = toHost'[s]]
         /\ toHost'[s] = toHost[s] => toHost' = toHost
<1>1. \A u \in Realm : u # s => GuestState(u)' = GuestState(u)
  BY DEF GuestState, PeerGone
<1>2. \A u \in Realm : u # s => CommandTo(u)' = CommandTo(u)
  BY CommandToIsIn
<1>3. /\ toHost' = [toHost EXCEPT ![s] = toHost'[s]]
      /\ toHost'[s] = toHost[s] => toHost' = toHost
  BY DEF WireTypes
<1> QED
  BY <1>1, <1>2, <1>3

\* Steps the protocol sees nothing of.
LEMMA SeenOnNone ==
  ASSUME UNCHANGED <<toGuest, toHost>>, \A s \in Realm : GuestState(s)' = GuestState(s)
  PROVE  UNCHANGED Protocol!protocolVars
<1>1. \A s \in Realm : CommandTo(s)' = CommandTo(s)
  BY CommandToIsIn
<1> QED
  BY <1>1 DEF Protocol!protocolVars

\* ... all those that leave the guests and their streams alone.
LEMMA GuestsAlone == UNCHANGED guestVars => UNCHANGED Protocol!protocolVars
  BY SeenOnNone DEF guestVars, GuestState, PeerGone

\* A task sends one command at a time, to a guest that has connected, and reads
\* one response; writing RealmInfo the protocol does not see.
LEMMA ProtocolTaskSteps ==
  ASSUME HostInv, HostInv', NEW r \in Realm, TaskStep(r)
  PROVE  [Protocol!ProtocolNext]_(Protocol!protocolVars)
<1> USE DEF HostInv, WireInv
<1>1. ASSUME NEW v, TaskEnds(r, v) PROVE UNCHANGED Protocol!protocolVars
  BY <1>1, GuestsAlone DEF TaskEnds
<1>2. CASE TaskRequestsStream(r) \/ TaskTimeout(r) \/ TaskSeesExit(r) \/ TaskIOError(r)
  BY <1>1, <1>2, GuestsAlone DEF TaskRequestsStream, TaskTimeout, TaskSeesExit, TaskIOError
<1>3. CASE TaskAttaches(r) /\ ~TaskEnds(r, "err")
  <2>1. PICK s \in Realm : inbox[r] = s
    BY <1>3 DEF TaskAttaches, DispatcherInv, DispatcherTypeOK
  <2>2. /\ task[r] = "select" /\ ~attached[r]
        /\ toGuest' = [toGuest EXCEPT ![s] = Append(@, "info")]
        /\ UNCHANGED <<qemu, toHost>>
    BY <1>3, <2>1 DEF TaskAttaches
  <2>3. toGuest[s] = <<>>
    BY <2>1, <2>2, RealmAssumption DEF UnusedIsSilent, Ended, DispatcherInv, OneHolderPerStream
  <2>4. toGuest'[s] = <<"info">> /\ \A u \in Realm : u # s => toGuest'[u] = toGuest[u]
    BY <2>2, <2>3, Frames DEF WireTypes
  <2>5. CommandTo(s)' = CommandTo(s)
    BY <2>3, <2>4, CommandInFrames, CommandToIsIn, Frames
  <2>6. GuestState(s)' = GuestState(s)
    BY <2>2 DEF GuestState, PeerGone
  <2> QED
    BY <2>2, <2>4, <2>5, <2>6, SeenOnOneStream DEF Protocol!protocolVars
<1>4. CASE TaskTakesRequest(r) /\ ~TaskEnds(r, "err") /\ attached[r]
  <2>1. PICK s \in Realm : inbox[r] = s
    BY <1>4 DEF TasksKeepStreams, DispatcherInv, DispatcherTypeOK
  <2>2. PICK q \in Request : q = reqCh[r]
    BY <1>4 DEF TaskTakesRequest, CallsInv, CallTypes
  <2>3. /\ task[r] = "select" /\ ~PeerGone(s)
        /\ toGuest' = [toGuest EXCEPT ![s] = Append(@, q)]
        /\ UNCHANGED <<qemu, toHost>>
    BY <1>4, <2>1, <2>2 DEF TaskTakesRequest
  <2>4. toGuest[s] \in IdleWires /\ ~toHost[s]
    BY <1>4, <2>1, <2>3 DEF TaskLeavesWireIdle
  <2>5. GuestState(s) \in {"connected", "serving"}
    <3>1. stream[s] # "none"
      BY <2>1, RealmAssumption DEF DispatcherInv, InboxWasAccepted
    <3> QED
      BY <2>3, <3>1 DEF GuestState, PeerGone, GuestsDialOnce, WireTypes, Running
  <2>6. toGuest'[s] \in {<<q>>, <<"info", q>>}
    BY <2>3, <2>4, Frames DEF IdleWires, WireTypes
  <2>7. CommandTo(s) = NoRequest /\ CommandTo(s)' = q
    BY <2>4, <2>6, CommandInFrames, CommandToIsIn
  <2>8. \A u \in Realm : u # s => toGuest'[u] = toGuest[u]
    BY <2>3 DEF WireTypes
  <2>9. GuestState(s)' = GuestState(s)
    BY <2>3 DEF GuestState, PeerGone
  <2>10. Protocol!Send(s, q)
    BY <2>3, <2>4, <2>5, <2>7, <2>8, <2>9, SeenOnOneStream DEF Protocol!Send
  <2> QED
    BY <2>10 DEF Protocol!ProtocolNext
<1>5. CASE TaskTakesRequest(r) /\ ~TaskEnds(r, "err") /\ ~attached[r]
  BY <1>5, GuestsAlone DEF TaskTakesRequest
<1>6. CASE TaskReadsResponse(r) /\ ~TaskEnds(r, "err")
  <2>1. PICK s \in Realm : inbox[r] = s
    BY <1>6 DEF TaskReadsResponse, TasksKeepStreams, DispatcherInv, DispatcherTypeOK
  <2>2. /\ toHost[s] /\ toHost' = [toHost EXCEPT ![s] = FALSE]
        /\ UNCHANGED <<qemu, toGuest>>
    BY <1>6, <2>1 DEF TaskReadsResponse
  <2>3. /\ toHost'[s] = FALSE
        /\ \A u \in Realm : u # s => toHost'[u] = toHost[u]
    BY <2>2 DEF WireTypes
  <2>4. GuestState(s)' = GuestState(s) /\ CommandTo(s)' = CommandTo(s)
    BY <2>2, CommandToIsIn DEF GuestState, PeerGone
  <2>5. Protocol!Read(s)
    BY <2>2, <2>3, <2>4, SeenOnOneStream DEF Protocol!Read
  <2> QED
    BY <2>5 DEF Protocol!ProtocolNext
<1> QED
  BY <1>1, <1>2, <1>3, <1>4, <1>5, <1>6 DEF TaskStep

\* A guest connects once, reads RealmInfo before any command, answers the one it
\* was sent, and never comes back.
LEMMA ProtocolGuestSteps ==
  ASSUME HostInv, HostInv', NEW s \in Realm, GuestStep(s)
  PROVE  [Protocol!ProtocolNext]_(Protocol!protocolVars)
<1> USE DEF HostInv, WireInv
<1>1. \A u \in Realm : u # s => /\ toGuest'[u] = toGuest[u] /\ qemu'[u] = qemu[u]
                                /\ toHost'[u] = toHost[u]
  BY DEF GuestStep, GuestConnects, GuestReadsInfo, GuestReplies, GuestFails, QemuExits, WireTypes
<1>2. CASE GuestConnects(s)
  <2>1. qemu[s] = "booting" /\ qemu'[s] = "connected" /\ UNCHANGED <<toGuest, toHost>>
    BY <1>2 DEF GuestConnects, WireTypes
  <2>2. GuestState(s) = "absent" /\ GuestState(s)' = "connected" /\ CommandTo(s)' = CommandTo(s)
    BY <2>1, CommandToIsIn DEF GuestState, PeerGone
  <2>3. Protocol!Connect(s)
    BY <1>1, <2>1, <2>2, SeenOnOneStream DEF Protocol!Connect
  <2> QED
    BY <2>3 DEF Protocol!ProtocolNext
<1>3. CASE GuestReadsInfo(s)
  <2>1. /\ qemu[s] = "connected" /\ toGuest[s] # <<>> /\ UNCHANGED toHost
        /\ toGuest'[s] \in {Tail(toGuest[s]), <<>>} /\ qemu'[s] = "serving"
    BY <1>3 DEF GuestReadsInfo, WireTypes
  <2>2. toGuest[s] \in {<<"info">>} \cup {<<"info", q>> : q \in Request}
    BY <2>1 DEF WireTypes, IdleWires, BusyWires, GuestReadsInOrder
  <2>3. CommandTo(s)' \in {CommandTo(s), NoRequest}
    <3>1. CASE toGuest'[s] = <<>>
      BY <3>1, CommandInFrames, CommandToIsIn, Frames
    <3>2. CASE toGuest'[s] = Tail(toGuest[s]) /\ toGuest[s] = <<"info">>
      BY <3>1, <3>2, Frames
    <3>3. ASSUME NEW q \in Request, toGuest'[s] = Tail(toGuest[s]), toGuest[s] = <<"info", q>>
          PROVE  CommandTo(s)' = CommandTo(s)
      <4>1. toGuest'[s] = <<q>>
        BY <3>3, Frames
      <4>2. CommandIn(<<q>>) = q /\ CommandIn(<<"info", q>>) = q
        BY <3>3, CommandInFrames
      <4> QED
        BY <3>3, <4>1, <4>2, CommandToIsIn
    <3> QED
      BY <2>1, <2>2, <3>1, <3>2, <3>3
  <2>4. GuestState(s) = "connected" /\ GuestState(s)' = "serving"
    BY <2>1 DEF GuestState, PeerGone
  <2>5. Protocol!ReadInfo(s)
    BY <1>1, <2>1, <2>3, <2>4, SeenOnOneStream DEF Protocol!ReadInfo
  <2> QED
    BY <2>5 DEF Protocol!ProtocolNext
<1>4. CASE GuestReplies(s)
  <2>1. /\ qemu[s] = "serving" /\ toGuest[s] # <<>>
        /\ toGuest' = [toGuest EXCEPT ![s] = Tail(@)]
        /\ toHost' = [toHost EXCEPT ![s] = TRUE]
        /\ qemu'[s] = IF Head(toGuest[s]) = "Shutdown" THEN "halting" ELSE "serving"
    BY <1>4 DEF GuestReplies, WireTypes
  <2>2. PICK q \in Request : toGuest[s] = <<q>>
    BY <2>1 DEF GuestReadsInOrder
  <2>3. toGuest'[s] = <<>> /\ toHost'[s] = TRUE
    BY <2>1, <2>2, Frames DEF WireTypes
  <2>4. CommandTo(s) = q /\ q # NoRequest /\ CommandTo(s)' = NoRequest
    BY <2>2, <2>3, CommandInFrames, CommandToIsIn, Frames
  <2>5. Head(toGuest[s]) = q
    BY <2>2
  <2>6. GuestState(s) = "serving" /\ GuestState(s)' = IF q = "Shutdown" THEN "gone" ELSE "serving"
    BY <2>1, <2>5 DEF GuestState, PeerGone
  <2>7. Protocol!Reply(s)
    <3>1. CASE q = "Shutdown"
      BY <1>1, <2>3, <2>4, <2>6, <3>1, SeenOnOneStream DEF Protocol!Reply
    <3>2. CASE q # "Shutdown"
      BY <1>1, <2>3, <2>4, <2>6, <3>2, SeenOnOneStream DEF Protocol!Reply
    <3> QED
      BY <3>1, <3>2
  <2> QED
    BY <2>7 DEF Protocol!ProtocolNext
<1>5. CASE GuestFails(s) \/ QemuExits(s)
  <2>1. /\ qemu'[s] \in {"halting", "exited"} /\ UNCHANGED toHost
        /\ toGuest'[s] \in {toGuest[s], <<>>}
    BY <1>5 DEF GuestFails, QemuExits, WireTypes
  <2>2. CommandTo(s)' \in {CommandTo(s), NoRequest}
    BY <2>1, CommandInFrames, CommandToIsIn, Frames
  <2>3. GuestState(s)' = "gone"
    BY <2>1 DEF GuestState, PeerGone
  <2>4. Protocol!End(s)
    BY <1>1, <2>1, <2>2, <2>3, SeenOnOneStream DEF Protocol!End
  <2> QED
    BY <2>4 DEF Protocol!ProtocolNext
<1> QED
  BY <1>2, <1>3, <1>4, <1>5 DEF GuestStep

\* A launch gives a realm a guest that is not there yet, or, its cid refused,
\* one that is gone; no other step of a client or of the daemon is seen.
LEMMA ProtocolClientSteps ==
  ASSUME HostInv, HostInv', NEW c \in Client, ClientStep(c)
  PROVE  [Protocol!ProtocolNext]_(Protocol!protocolVars)
<1> USE DEF HostInv, WireInv
<1>1. ASSUME NEW r \in Realm, LaunchRealm(c, r), ~UNCHANGED <<qemu, task, realms>>
      PROVE  [Protocol!ProtocolNext]_(Protocol!protocolVars)
  <2>1. /\ realms[r] = "defined" /\ UNCHANGED <<toGuest, toHost>>
        /\ \E v \in {"exited", "booting"} : qemu' = [qemu EXCEPT ![r] = v]
    BY <1>1 DEF LaunchRealm
  <2>2. qemu[r] = "none"
    BY <2>1 DEF GuestsDialOnce
  <2>3. /\ qemu'[r] \in {"exited", "booting"}
        /\ \A u \in Realm : u # r => qemu'[u] = qemu[u]
    BY <2>1 DEF WireTypes
  <2>4. GuestState(r) = "absent" /\ CommandTo(r)' = CommandTo(r)
    BY <2>1, <2>2, CommandToIsIn DEF GuestState, PeerGone
  <2>5. CASE qemu'[r] = "exited"
    <3>1. GuestState(r)' = "gone"
      BY <2>5 DEF GuestState, PeerGone
    <3>2. Protocol!End(r)
      BY <2>1, <2>3, <2>4, <3>1, SeenOnOneStream DEF Protocol!End
    <3> QED
      BY <3>2 DEF Protocol!ProtocolNext
  <2>6. CASE qemu'[r] = "booting"
    <3>1. GuestState(r)' = "absent"
      BY <2>6 DEF GuestState, PeerGone
    <3> QED
      BY <2>1, <2>3, <2>4, <3>1, SeenOnOneStream DEF Protocol!protocolVars
  <2> QED
    BY <2>3, <2>5, <2>6
<1>2. ASSUME NEW r \in Realm, LaunchRealm(c, r), UNCHANGED qemu
      PROVE  UNCHANGED Protocol!protocolVars
  BY <1>2, GuestsAlone DEF LaunchRealm, guestVars
<1>3. ASSUME NEW r \in Realm, CreateRealm(c, r) \/ (\E q \in Request : SendRequest(c, r, q))
      PROVE  UNCHANGED Protocol!protocolVars
  BY <1>3, GuestsAlone DEF CreateRealm, SendRequest
<1>4. CASE \/ ClientConnects(c) \/ ReceiveResponse(c) \/ WriteAnswer(c) \/ ClientLeaves(c)
           \/ ClientJoined(c) \/ ClientIOError(c)
  BY <1>4, GuestsAlone
  DEF ClientConnects, ReceiveResponse, WriteAnswer, ClientLeaves, ClientJoined, ClientIOError,
      DropClients
<1> QED
  BY <1>1, <1>2, <1>3, <1>4 DEF ClientStep, ClientCommand

\* The listener, the acceptor and main never touch a stream.
LEMMA ProtocolDaemonSteps == DaemonStep => UNCHANGED Protocol!protocolVars
  BY GuestsAlone
  DEF DaemonStep, MainSelects, MainAwaits, MainFails, AcceptorCancelled, AcceptorJoined,
      AcceptorFails, ListenerStep, DropClients

\* The daemon implements the host of RealmProtocol on every stream, for any realms,
\* cids and clients: the app-manager may rely on one command at a time.
THEOREM HostImplementsProtocol == Spec => HostKeepsProtocol
<1>1. Init => Protocol!ProtocolInit
  <2> SUFFICES ASSUME Init, NEW s \in Realm
               PROVE  GuestState(s) = "absent" /\ CommandTo(s) = NoRequest /\ toHost[s] = FALSE
    BY DEF Protocol!ProtocolInit, Init
  <2> QED
    BY CommandInFrames, CommandToIsIn, Frames DEF Init, GuestState, PeerGone
<1>2. HostInv /\ [Next]_vars => [Protocol!ProtocolNext]_(Protocol!protocolVars)
  <2> SUFFICES ASSUME HostInv, [Next]_vars
               PROVE  [Protocol!ProtocolNext]_(Protocol!protocolVars)
    OBVIOUS
  <2>1. HostInv'
    BY HostStep
  <2>2. UNCHANGED vars => UNCHANGED Protocol!protocolVars
    BY GuestsAlone DEF vars
  <2> QED
    BY <2>1, <2>2, ProtocolTaskSteps, ProtocolGuestSteps, ProtocolClientSteps,
       ProtocolDaemonSteps
    DEF Next
<1> QED
  BY <1>1, <1>2, HostInvariant, PTL DEF Spec, HostKeepsProtocol, Protocol!ProtocolSpec
=============================================================================
