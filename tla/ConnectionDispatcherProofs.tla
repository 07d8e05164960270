----------------------- MODULE ConnectionDispatcherProofs -----------------------
(* Proofs about ConnectionDispatcher, for any realms, cids and assignment of   *)
(* cids to realms.                                                             *)
EXTENDS ConnectionDispatcher, TLAPS

(***************************************************************************)
(* The inductive invariant: the properties themselves, and where a stream  *)
(* or a task in the maps has to be in its own life.  A stream in a map or  *)
(* in an inbox was accepted, so the next one add_stream brings is new; a   *)
(* task in requests has asked and has received nothing.                    *)
(***************************************************************************)
AvailableWasAccepted ==
  \A c \in Cid : available[c] # NoRealm => stream[available[c]] = "accepted"

RequesterHasNothing ==
  \A c \in Cid : requests[c] # NoRealm =>
    inbox[requests[c]] = NoRealm /\ receiver[requests[c]] # "none"

InboxWasAccepted ==
  \A t \in Realm : inbox[t] # NoRealm => stream[inbox[t]] = "accepted" /\ receiver[t] # "none"

DispatcherInv ==
  /\ DispatcherTypeOK
  /\ AvailableWasAccepted
  /\ RequesterHasNothing
  /\ InboxWasAccepted
  /\ NothingLeftToMatch
  /\ OneHolderPerStream
  /\ StreamFromRequestedCid
  /\ ListenerFailureCause

\* The empty dispatcher satisfies the invariant.
LEMMA InitInv == DispatcherInit => DispatcherInv
  BY RealmAssumption, CidAssumption
  DEF DispatcherInit, DispatcherInv, DispatcherTypeOK, AvailableWasAccepted, RequesterHasNothing,
      InboxWasAccepted, NothingLeftToMatch, OneHolderPerStream, StreamFromRequestedCid,
      ListenerFailureCause

\* Steps that only touch stream, receiver or listener.
LEMMA DialInv ==
  ASSUME NEW r \in Realm, DispatcherInv, Dial(r)
  PROVE  DispatcherInv'
  BY RealmAssumption, CidAssumption
  DEF Dial, DispatcherInv, DispatcherTypeOK, AvailableWasAccepted, RequesterHasNothing,
      InboxWasAccepted, NothingLeftToMatch, OneHolderPerStream, StreamFromRequestedCid,
      ListenerFailureCause

\* Tasks that end: what they asked for stays filed.
LEMMA DropInv ==
  ASSUME NEW R \in SUBSET Realm, DispatcherInv, DropReceivers(R)
  PROVE  DispatcherInv'
<1> USE RealmAssumption, CidAssumption DEF DispatcherInv, DispatcherTypeOK, DropReceivers
<1>1. DispatcherTypeOK'
  OBVIOUS
<1>2. AvailableWasAccepted' /\ NothingLeftToMatch' /\ OneHolderPerStream' /\ StreamFromRequestedCid'
  BY DEF AvailableWasAccepted, NothingLeftToMatch, OneHolderPerStream, StreamFromRequestedCid
<1>3. \A t \in Realm : receiver'[t] = "none" <=> receiver[t] = "none"
  OBVIOUS
<1>4. RequesterHasNothing' /\ InboxWasAccepted'
  BY <1>3 DEF RequesterHasNothing, InboxWasAccepted
<1>5. ListenerFailureCause'
  BY DEF ListenerFailureCause
<1> QED
  BY <1>1, <1>2, <1>4, <1>5

\* The listener ends without the dispatcher having part in it.
LEMMA ListenerInv ==
  ASSUME DispatcherInv, AcceptError \/ ListenerCancelled
  PROVE  DispatcherInv'
  BY RealmAssumption, CidAssumption
  DEF AcceptError, ListenerCancelled, DispatcherInv, DispatcherTypeOK, ListenerErrors,
      AvailableWasAccepted, RequesterHasNothing, InboxWasAccepted, NothingLeftToMatch,
      OneHolderPerStream, StreamFromRequestedCid, ListenerFailureCause

-----------------------------------------------------------------------------
(* add_stream, one lemma for each of its outcomes.                             *)

\* add_stream hands the stream over, keeps it or refuses it; each outcome keeps the invariant.
LEMMA AddStreamInv ==
  ASSUME NEW r \in Realm, DispatcherInv, AddStream(r)
  PROVE  DispatcherInv'
<1> DEFINE c == CidOf[r]
<1> USE RealmAssumption, CidAssumption DEF DispatcherInv, DispatcherTypeOK
<1>1. c \in Cid /\ stream[r] = "dialed" /\ stream' = [stream EXCEPT ![r] = "accepted"]
      /\ receiver' = receiver /\ listener = "listening"
  BY DEF AddStream
<1>2. \A t \in Realm : stream[t] = "accepted" => t # r /\ stream'[t] = "accepted"
  BY <1>1
<1>3. (\A d \in Cid : available[d] # r) /\ (\A t \in Realm : inbox[t] # r)
  BY <1>1 DEF AvailableWasAccepted, InboxWasAccepted
<1>4. CASE available[c] # NoRealm
  <2>1. listener' = "ConnectionPresent" /\ UNCHANGED <<available, requests, inbox>>
    BY <1>4 DEF AddStream
  <2>2. available[c] \in Realm /\ available[c] # r /\ CidOf[available[c]] = CidOf[r]
    BY <1>1, <1>3, <1>4
  <2>3. ListenerFailureCause'
    BY <2>1, <2>2 DEF ListenerFailureCause
  <2>4. DispatcherTypeOK'
    BY <1>1, <2>1 DEF ListenerErrors
  <2> QED
    BY <1>1, <1>2, <2>1, <2>3, <2>4
    DEF AvailableWasAccepted, RequesterHasNothing, InboxWasAccepted, NothingLeftToMatch,
        OneHolderPerStream, StreamFromRequestedCid
<1>5. CASE available[c] = NoRealm /\ requests[c] = NoRealm
  <2>1. available' = [available EXCEPT ![c] = r] /\ UNCHANGED <<requests, inbox, listener>>
    BY <1>5 DEF AddStream
  <2>2. DispatcherTypeOK'
    BY <1>1, <2>1
  <2>3. AvailableWasAccepted' /\ RequesterHasNothing' /\ InboxWasAccepted'
    BY <1>1, <1>2, <2>1 DEF AvailableWasAccepted, RequesterHasNothing, InboxWasAccepted
  <2>4. NothingLeftToMatch' /\ StreamFromRequestedCid' /\ ListenerFailureCause'
    BY <1>1, <1>5, <2>1 DEF NothingLeftToMatch, StreamFromRequestedCid, ListenerFailureCause
  <2>5. OneHolderPerStream'
    BY <1>1, <1>3, <2>1 DEF OneHolderPerStream
  <2> QED
    BY <2>2, <2>3, <2>4, <2>5
<1>6. CASE available[c] = NoRealm /\ requests[c] # NoRealm
  <2> DEFINE t == requests[c]
  <2>1. t \in Realm /\ CidOf[t] = c /\ inbox[t] = NoRealm /\ receiver[t] # "none"
    BY <1>1, <1>6 DEF RequesterHasNothing
  <2>2. /\ available' = [available EXCEPT ![c] = NoRealm]
        /\ requests' = [requests EXCEPT ![c] = NoRealm]
        /\ inbox' = IF receiver[t] = "open" THEN [inbox EXCEPT ![t] = r] ELSE inbox
        /\ listener' = IF receiver[t] = "open" THEN listener ELSE "SendError"
    BY <1>1, <1>6 DEF AddStream, Resolve
  <2>3. available' = available
    BY <1>1, <1>6, <2>2
  <2>4. \A d \in Cid : requests'[d] # NoRealm => requests'[d] = requests[d] /\ requests[d] # t
    BY <1>1, <2>1, <2>2
  <2>5. \A u \in Realm : inbox'[u] = inbox[u] \/ (u = t /\ inbox'[u] = r)
    BY <2>1, <2>2
  <2>6. DispatcherTypeOK'
    BY <1>1, <2>1, <2>2, <2>3 DEF ListenerErrors
  <2>7. AvailableWasAccepted'
    BY <1>2, <2>3 DEF AvailableWasAccepted
  <2>8. RequesterHasNothing'
    BY <1>1, <2>4, <2>5 DEF RequesterHasNothing
  <2>9. InboxWasAccepted'
    BY <1>1, <1>2, <2>1, <2>5 DEF InboxWasAccepted
  <2>10. NothingLeftToMatch'
    BY <2>3, <2>4 DEF NothingLeftToMatch
  <2>11. OneHolderPerStream'
    BY <1>3, <2>3, <2>5 DEF OneHolderPerStream
  <2>12. StreamFromRequestedCid'
    BY <2>1, <2>5 DEF StreamFromRequestedCid
  <2>13. ListenerFailureCause'
    BY <1>1, <2>1, <2>2 DEF ListenerFailureCause
  <2> QED
    BY <2>6, <2>7, <2>8, <2>9, <2>10, <2>11, <2>12, <2>13
<1> QED
  BY <1>4, <1>5, <1>6

-----------------------------------------------------------------------------
(* request_stream, without and with a stream that waits for it.                *)

\* request_stream takes a stream that waits, or files the request.
LEMMA RequestStreamInv ==
  ASSUME NEW t \in Realm, DispatcherInv, RequestStream(t)
  PROVE  DispatcherInv'
<1> DEFINE c == CidOf[t]
<1> USE RealmAssumption, CidAssumption DEF DispatcherInv, DispatcherTypeOK
<1>1. /\ c \in Cid /\ receiver[t] = "none" /\ requests[c] = NoRealm
      /\ receiver' = [receiver EXCEPT ![t] = "open"]
      /\ UNCHANGED <<stream, listener>>
  BY DEF RequestStream
<1>2. inbox[t] = NoRealm /\ \A d \in Cid : requests[d] # t
  BY <1>1 DEF InboxWasAccepted, RequesterHasNothing
<1>3. CASE available[c] = NoRealm
  <2>1. requests' = [requests EXCEPT ![c] = t] /\ UNCHANGED <<available, inbox>>
    BY <1>3 DEF RequestStream, Resolve
  <2>2. DispatcherTypeOK'
    BY <1>1, <2>1
  <2>3. AvailableWasAccepted' /\ InboxWasAccepted'
    BY <1>1, <2>1 DEF AvailableWasAccepted, InboxWasAccepted
  <2>4. RequesterHasNothing'
    BY <1>1, <1>2, <2>1 DEF RequesterHasNothing
  <2>5. NothingLeftToMatch' /\ OneHolderPerStream' /\ StreamFromRequestedCid'
    BY <1>1, <1>3, <2>1 DEF NothingLeftToMatch, OneHolderPerStream, StreamFromRequestedCid
  <2>6. ListenerFailureCause'
    BY <1>1, <2>1 DEF ListenerFailureCause
  <2> QED
    BY <2>2, <2>3, <2>4, <2>5, <2>6
<1>4. CASE available[c] # NoRealm
  <2> DEFINE s == available[c]
  <2>1. s \in Realm /\ CidOf[s] = c /\ stream[s] = "accepted"
    BY <1>1, <1>4 DEF AvailableWasAccepted
  <2>2. /\ available' = [available EXCEPT ![c] = NoRealm]
        /\ requests' = requests
        /\ inbox' = [inbox EXCEPT ![t] = s]
    BY <1>1, <1>4 DEF RequestStream, Resolve
  <2>3. (\A d \in Cid : available'[d] # s) /\ (\A u \in Realm : inbox[u] # s)
    BY <1>1, <2>1, <2>2 DEF OneHolderPerStream
  <2>4. \A d \in Cid : available'[d] # NoRealm => available'[d] = available[d]
    BY <1>1, <2>2
  <2>5. \A u \in Realm : (u = t /\ inbox'[u] = s) \/ (u # t /\ inbox'[u] = inbox[u])
    BY <2>2
  <2>6. DispatcherTypeOK'
    BY <1>1, <2>1, <2>2
  <2>7. AvailableWasAccepted'
    BY <1>1, <2>4 DEF AvailableWasAccepted
  <2>8. RequesterHasNothing'
    BY <1>1, <1>2, <2>2, <2>5 DEF RequesterHasNothing
  <2>9. InboxWasAccepted'
    BY <1>1, <2>1, <2>5 DEF InboxWasAccepted
  <2>10. NothingLeftToMatch'
    BY <2>2, <2>4 DEF NothingLeftToMatch
  <2>11. OneHolderPerStream'
    BY <2>1, <2>3, <2>4, <2>5 DEF OneHolderPerStream
  <2>12. StreamFromRequestedCid'
    BY <2>1, <2>5 DEF StreamFromRequestedCid
  <2>13. ListenerFailureCause'
    BY <1>1, <2>5 DEF ListenerFailureCause
  <2> QED
    BY <2>6, <2>7, <2>8, <2>9, <2>10, <2>11, <2>12, <2>13
<1> QED
  BY <1>3, <1>4

-----------------------------------------------------------------------------
\* Every step preserves the invariant, and so does a step that changes nothing.
LEMMA NextInv == DispatcherInv /\ [DispatcherNext]_dispatcherVars => DispatcherInv'
<1> SUFFICES ASSUME DispatcherInv, [DispatcherNext]_dispatcherVars
             PROVE  DispatcherInv'
  OBVIOUS
<1>1. CASE UNCHANGED dispatcherVars
  BY <1>1 DEF dispatcherVars, DispatcherInv, DispatcherTypeOK, AvailableWasAccepted,
     RequesterHasNothing, InboxWasAccepted, NothingLeftToMatch, OneHolderPerStream,
     StreamFromRequestedCid, ListenerFailureCause
<1>2. CASE \E r \in Realm : Dial(r) \/ AddStream(r) \/ RequestStream(r)
  BY <1>2, DialInv, AddStreamInv, RequestStreamInv
<1>3. CASE \E R \in SUBSET Realm : DropReceivers(R)
  BY <1>3, DropInv
<1>4. CASE AcceptError \/ ListenerCancelled
  BY <1>4, ListenerInv
<1> QED
  BY <1>1, <1>2, <1>3, <1>4 DEF DispatcherNext

\* Every reachable state satisfies the invariant, whatever the listener's fairness.
THEOREM SafetyInvariant == DispatcherSafety => []DispatcherInv
<1>1. DispatcherInit => DispatcherInv
  BY InitInv
<1>2. DispatcherInv /\ [DispatcherNext]_dispatcherVars => DispatcherInv'
  BY NextInv
<1> QED
  BY <1>1, <1>2, PTL DEF DispatcherSafety

COROLLARY DispatcherInvariant == DispatcherSpec => []DispatcherInv
  BY SafetyInvariant, PTL DEF DispatcherSpec

\* Type correctness: the maps hold realms, each under its own cid.
THEOREM DispatcherTypeCorrect == DispatcherSpec => []DispatcherTypeOK
<1>1. DispatcherInv => DispatcherTypeOK
  BY DEF DispatcherInv
<1> QED
  BY <1>1, DispatcherInvariant, PTL

\* add_stream and request_stream never leave a stream and a request for the same
\* cid behind: nobody waits for a stream that is there.
THEOREM NothingIsLeftToMatch == DispatcherSpec => []NothingLeftToMatch
<1>1. DispatcherInv => NothingLeftToMatch
  BY DEF DispatcherInv
<1> QED
  BY <1>1, DispatcherInvariant, PTL

\* resolve moves streams: a stream is in one place only, for any sharing of cids.
THEOREM StreamsAreNotShared == DispatcherSpec => []OneHolderPerStream
<1>1. DispatcherInv => OneHolderPerStream
  BY DEF DispatcherInv
<1> QED
  BY <1>1, DispatcherInvariant, PTL

\* A task receives only streams of the cid it asked for.
THEOREM StreamsComeFromTheCid == DispatcherSpec => []StreamFromRequestedCid
<1>1. DispatcherInv => StreamFromRequestedCid
  BY DEF DispatcherInv
<1> QED
  BY <1>1, DispatcherInvariant, PTL

\* The listener fails only for an accept error, for a task that died before its
\* guest dialled, or for two realms with one cid.
THEOREM ListenerFailuresHaveCauses == DispatcherSpec => []ListenerFailureCause
<1>1. DispatcherInv => ListenerFailureCause
  BY DEF DispatcherInv
<1> QED
  BY <1>1, DispatcherInvariant, PTL

-----------------------------------------------------------------------------
(* ConnectionDispatcher implements Rendezvous.                                 *)

\* Nothing is forgotten: a task that waits is in requests, and a stream that no
\* task has is in available as long as the listener listens.
WaitingIsStored ==
  \A t \in Realm : receiver[t] = "open" /\ inbox[t] = NoRealm => requests[CidOf[t]] = t

AcceptedIsStored ==
  listener = "listening" =>
    \A s \in Realm : stream[s] = "accepted" =>
      available[CidOf[s]] = s \/ \E t \in Realm : inbox[t] = s

StoredInv == DispatcherInv /\ WaitingIsStored /\ AcceptedIsStored

\* At the start nobody waits and no stream was accepted.
LEMMA StoredInit == DispatcherInit => StoredInv
  BY InitInv DEF StoredInv, DispatcherInit, WaitingIsStored, AcceptedIsStored

\* An accepted stream is filed or sent, and a request it answers is no longer filed.
LEMMA StoredAddStream ==
  ASSUME NEW r \in Realm, StoredInv, AddStream(r)
  PROVE  WaitingIsStored' /\ AcceptedIsStored'
<1> DEFINE c == CidOf[r]
<1> USE DEF StoredInv, DispatcherInv, DispatcherTypeOK
<1>1. /\ c \in Cid /\ stream' = [stream EXCEPT ![r] = "accepted"] /\ receiver' = receiver
      /\ listener = "listening"
  BY CidAssumption DEF AddStream
<1>2. CASE available[c] # NoRealm
  <2>1. listener' = "ConnectionPresent" /\ UNCHANGED <<available, requests, inbox>>
    BY <1>2 DEF AddStream
  <2> QED
    BY <1>1, <2>1 DEF WaitingIsStored, AcceptedIsStored
<1>3. CASE available[c] = NoRealm /\ requests[c] = NoRealm
  <2>1. available' = [available EXCEPT ![c] = r] /\ UNCHANGED <<requests, inbox, listener>>
    BY <1>3 DEF AddStream
  <2>2. WaitingIsStored'
    BY <1>1, <2>1 DEF WaitingIsStored
  <2>3. AcceptedIsStored'
    BY <1>1, <1>3, <2>1, RealmAssumption, CidAssumption DEF AcceptedIsStored
  <2> QED
    BY <2>2, <2>3
<1>4. CASE available[c] = NoRealm /\ requests[c] # NoRealm
  <2> DEFINE t == requests[c]
  <2>1. t \in Realm /\ CidOf[t] = c /\ inbox[t] = NoRealm
    BY <1>1, <1>4 DEF RequesterHasNothing
  <2>2. /\ available' = [available EXCEPT ![c] = NoRealm]
        /\ requests' = [requests EXCEPT ![c] = NoRealm]
        /\ inbox' = IF receiver[t] = "open" THEN [inbox EXCEPT ![t] = r] ELSE inbox
        /\ listener' = IF receiver[t] = "open" THEN listener ELSE "SendError"
    BY <1>1, <1>4 DEF AddStream, Resolve
  <2>3. WaitingIsStored'
    <3> SUFFICES ASSUME NEW u \in Realm, receiver'[u] = "open", inbox'[u] = NoRealm
                 PROVE  requests'[CidOf[u]] = u
      BY DEF WaitingIsStored
    <3>1. receiver[u] = "open" /\ inbox[u] = NoRealm /\ u # t
      BY <1>1, <2>1, <2>2, RealmAssumption
    <3>2. requests[CidOf[u]] = u
      BY <3>1 DEF WaitingIsStored
    <3> QED
      BY <1>1, <2>1, <2>2, <3>1, <3>2, CidAssumption
  <2>4. AcceptedIsStored'
    <3> SUFFICES ASSUME listener' = "listening", NEW s \in Realm, stream'[s] = "accepted"
                 PROVE  available'[CidOf[s]] = s \/ \E u \in Realm : inbox'[u] = s
      BY DEF AcceptedIsStored
    <3>1. receiver[t] = "open" /\ inbox' = [inbox EXCEPT ![t] = r]
      BY <2>2
    <3>2. CASE s = r
      BY <2>1, <3>1, <3>2
    <3>3. CASE s # r
      <4>1. available[CidOf[s]] = s \/ \E u \in Realm : inbox[u] = s
        BY <1>1, <3>3 DEF AcceptedIsStored
      <4>2. ASSUME available[CidOf[s]] = s PROVE available'[CidOf[s]] = s
        BY <1>1, <1>4, <2>2, <4>2, RealmAssumption, CidAssumption
      <4>3. ASSUME NEW u \in Realm, inbox[u] = s PROVE inbox'[u] = s
        BY <2>1, <3>1, <4>3, RealmAssumption
      <4> QED
        BY <4>1, <4>2, <4>3
    <3> QED
      BY <3>2, <3>3
  <2> QED
    BY <2>3, <2>4
<1> QED
  BY <1>2, <1>3, <1>4

\* A request is filed or answered, and a stream it takes is no longer filed.
LEMMA StoredRequestStream ==
  ASSUME NEW t \in Realm, StoredInv, RequestStream(t)
  PROVE  WaitingIsStored' /\ AcceptedIsStored'
<1> DEFINE c == CidOf[t]
<1> USE DEF StoredInv, DispatcherInv, DispatcherTypeOK
<1>1. /\ c \in Cid /\ receiver[t] = "none" /\ requests[c] = NoRealm
      /\ receiver' = [receiver EXCEPT ![t] = "open"]
      /\ UNCHANGED <<stream, listener>>
  BY CidAssumption DEF RequestStream
<1>2. CASE available[c] = NoRealm
  <2>1. requests' = [requests EXCEPT ![c] = t] /\ UNCHANGED <<available, inbox>>
    BY <1>2 DEF RequestStream, Resolve
  <2>2. WaitingIsStored'
    <3> SUFFICES ASSUME NEW u \in Realm, receiver'[u] = "open", inbox'[u] = NoRealm
                 PROVE  requests'[CidOf[u]] = u
      BY DEF WaitingIsStored
    <3>1. CASE u = t
      BY <1>1, <2>1, <3>1
    <3>2. CASE u # t
      <4>1. requests[CidOf[u]] = u
        BY <1>1, <2>1, <3>2 DEF WaitingIsStored
      <4> QED
        BY <1>1, <2>1, <4>1, RealmAssumption, CidAssumption
    <3> QED
      BY <3>1, <3>2
  <2>3. AcceptedIsStored'
    BY <1>1, <2>1 DEF AcceptedIsStored
  <2> QED
    BY <2>2, <2>3
<1>3. CASE available[c] # NoRealm
  <2> DEFINE s == available[c]
  <2>1. /\ available' = [available EXCEPT ![c] = NoRealm]
        /\ requests' = requests
        /\ inbox' = [inbox EXCEPT ![t] = s]
    BY <1>1, <1>3 DEF RequestStream, Resolve
  <2>2. s \in Realm /\ inbox[t] = NoRealm
    BY <1>1, <1>3 DEF InboxWasAccepted
  <2>3. WaitingIsStored'
    BY <1>1, <2>1, <2>2, RealmAssumption DEF WaitingIsStored
  <2>4. AcceptedIsStored'
    <3> SUFFICES ASSUME listener = "listening", NEW r \in Realm, stream[r] = "accepted"
                 PROVE  available'[CidOf[r]] = r \/ \E u \in Realm : inbox'[u] = r
      BY <1>1 DEF AcceptedIsStored
    <3>1. CASE r = s
      BY <2>1, <3>1
    <3>2. CASE r # s
      <4>1. available[CidOf[r]] = r \/ \E u \in Realm : inbox[u] = r
        BY DEF AcceptedIsStored
      <4>2. ASSUME available[CidOf[r]] = r PROVE available'[CidOf[r]] = r
        BY <1>1, <2>1, <3>2, <4>2, CidAssumption
      <4>3. ASSUME NEW u \in Realm, inbox[u] = r PROVE inbox'[u] = r
        BY <2>1, <2>2, <4>3, RealmAssumption
      <4> QED
        BY <4>1, <4>2, <4>3
    <3> QED
      BY <3>1, <3>2
  <2> QED
    BY <2>3, <2>4
<1> QED
  BY <1>2, <1>3

\* So every step keeps both.
LEMMA StoredStep == StoredInv /\ [DispatcherNext]_dispatcherVars => StoredInv'
<1> SUFFICES ASSUME StoredInv, [DispatcherNext]_dispatcherVars
             PROVE  WaitingIsStored' /\ AcceptedIsStored'
  BY NextInv DEF StoredInv
<1> USE DEF StoredInv, DispatcherInv, DispatcherTypeOK, WaitingIsStored, AcceptedIsStored
<1>1. CASE UNCHANGED dispatcherVars
  BY <1>1 DEF dispatcherVars
<1>2. ASSUME NEW r \in Realm, Dial(r) PROVE WaitingIsStored' /\ AcceptedIsStored'
  BY <1>2 DEF Dial
<1>3. ASSUME NEW R \in SUBSET Realm, DropReceivers(R) PROVE WaitingIsStored' /\ AcceptedIsStored'
  BY <1>3 DEF DropReceivers
<1>4. CASE AcceptError \/ ListenerCancelled
  BY <1>4 DEF AcceptError, ListenerCancelled
<1> QED
  BY <1>1, <1>2, <1>3, <1>4, StoredAddStream, StoredRequestStream DEF DispatcherNext

\* The tasks and streams of Rendezvous, by name.
Waiting == {t \in Realm : receiver[t] = "open" /\ inbox[t] = NoRealm}
Offered == {s \in Realm : stream[s] = "accepted" /\ \A t \in Realm : inbox[t] # s}

\* add_stream is Come: requests holds the one task that waits for the cid.
LEMMA AddStreamComes ==
  ASSUME NEW r \in Realm, StoredInv, AddStream(r)
  PROVE  Meeting!Come(r)
<1> DEFINE c == CidOf[r]
<1> USE DEF StoredInv, DispatcherInv, DispatcherTypeOK
<1>1. /\ c \in Cid /\ stream[r] = "dialed" /\ stream' = [stream EXCEPT ![r] = "accepted"]
      /\ receiver' = receiver /\ listener = "listening"
  BY CidAssumption DEF AddStream
<1>2. r \notin Offered /\ \A t \in Realm : inbox[t] # r
  BY <1>1, RealmAssumption DEF Offered, InboxWasAccepted
<1>3. ASSUME UNCHANGED inbox, \A t \in Waiting : CidOf[t] # c
      PROVE  Meeting!Come(r)
  <2>1. Waiting' = Waiting /\ Offered' = Offered \cup {r}
    BY <1>1, <1>2, <1>3 DEF Waiting, Offered
  <2> QED
    BY <1>1, <1>2, <1>3, <2>1 DEF Meeting!Come, Meeting!Alike, Waiting, Offered
<1>4. CASE available[c] # NoRealm
  <2>1. UNCHANGED inbox
    BY <1>4 DEF AddStream
  <2>2. \A t \in Waiting : CidOf[t] # c
    BY <1>1, <1>4, RealmAssumption DEF Waiting, WaitingIsStored, NothingLeftToMatch
  <2> QED
    BY <1>3, <2>1, <2>2
<1>5. CASE available[c] = NoRealm /\ requests[c] = NoRealm
  <2>1. UNCHANGED inbox
    BY <1>5 DEF AddStream
  <2>2. \A t \in Waiting : CidOf[t] # c
    BY <1>5, RealmAssumption DEF Waiting, WaitingIsStored
  <2> QED
    BY <1>3, <2>1, <2>2
<1>6. CASE available[c] = NoRealm /\ requests[c] # NoRealm
  <2> DEFINE t == requests[c]
  <2>1. t \in Realm /\ CidOf[t] = c /\ inbox[t] = NoRealm
    BY <1>1, <1>6 DEF RequesterHasNothing
  <2>2. /\ inbox' = IF receiver[t] = "open" THEN [inbox EXCEPT ![t] = r] ELSE inbox
        /\ listener' = IF receiver[t] = "open" THEN listener ELSE "SendError"
    BY <1>1, <1>6 DEF AddStream, Resolve
  <2>3. CASE receiver[t] = "open"
    <3>1. t \in Waiting
      BY <2>1, <2>3 DEF Waiting
    <3>2. Waiting' = Waiting \ {t}
      BY <1>1, <2>1, <2>2, <2>3, RealmAssumption DEF Waiting
    <3>3. Offered' = Offered
      BY <1>1, <1>2, <2>1, <2>2, <2>3, RealmAssumption DEF Offered
    <3> QED
      BY <1>1, <1>2, <2>1, <2>2, <2>3, <3>1, <3>2, <3>3
      DEF Meeting!Come, Meeting!Alike, Waiting, Offered
  <2>4. CASE receiver[t] # "open"
    <3>1. UNCHANGED inbox
      BY <2>2, <2>4
    <3>2. \A u \in Waiting : CidOf[u] # c
      BY <2>4 DEF Waiting, WaitingIsStored
    <3> QED
      BY <1>3, <3>1, <3>2
  <2> QED
    BY <2>3, <2>4
<1> QED
  BY <1>4, <1>5, <1>6

\* request_stream is Ask: available holds the one stream that is offered.
LEMMA RequestStreamAsks ==
  ASSUME NEW t \in Realm, StoredInv, RequestStream(t)
  PROVE  Meeting!Ask(t)
<1> DEFINE c == CidOf[t]
<1> USE DEF StoredInv, DispatcherInv, DispatcherTypeOK
<1>1. /\ c \in Cid /\ receiver[t] = "none" /\ requests[c] = NoRealm
      /\ receiver' = [receiver EXCEPT ![t] = "open"]
      /\ UNCHANGED <<stream, listener>>
  BY CidAssumption DEF RequestStream
<1>2. t \notin Waiting /\ inbox[t] = NoRealm
  BY <1>1 DEF Waiting, InboxWasAccepted
<1>3. CASE available[c] = NoRealm
  <2>1. UNCHANGED inbox
    BY <1>3 DEF RequestStream, Resolve
  <2>2. Waiting' = Waiting \cup {t} /\ Offered' = Offered
    BY <1>1, <1>2, <2>1 DEF Waiting, Offered
  <2>3. listener = "listening" => \A s \in Offered : CidOf[s] # c
    BY <1>3, RealmAssumption DEF Offered, AcceptedIsStored
  <2> QED
    BY <1>1, <1>2, <2>1, <2>2, <2>3 DEF Meeting!Ask, Meeting!Alike, Waiting, Offered
<1>4. CASE available[c] # NoRealm
  <2> DEFINE s == available[c]
  <2>1. inbox' = [inbox EXCEPT ![t] = s]
    BY <1>1, <1>4 DEF RequestStream, Resolve
  <2>2. s \in Offered /\ CidOf[s] = c
    BY <1>1, <1>4, RealmAssumption DEF Offered, AvailableWasAccepted, OneHolderPerStream
  <2>3. Waiting' = Waiting
    BY <1>1, <1>2, <1>4, <2>1 DEF Waiting
  <2>4. Offered' = Offered \ {s}
    BY <1>1, <1>2, <1>4, <2>1, RealmAssumption DEF Offered
  <2> QED
    BY <1>1, <1>2, <2>1, <2>2, <2>3, <2>4 DEF Meeting!Ask, Meeting!Alike, Waiting, Offered
<1> QED
  BY <1>3, <1>4

\* Every step of the dispatcher is a step of Rendezvous or changes nothing it speaks of.
LEMMA StepMeets ==
  StoredInv /\ [DispatcherNext]_dispatcherVars
    => [Meeting!RendezvousNext]_(Meeting!rendezvousVars)
<1> SUFFICES ASSUME StoredInv, [DispatcherNext]_dispatcherVars
             PROVE  [Meeting!RendezvousNext]_(Meeting!rendezvousVars)
  OBVIOUS
<1>1. CASE UNCHANGED dispatcherVars
  BY <1>1 DEF dispatcherVars, Meeting!rendezvousVars
<1>2. ASSUME NEW r \in Realm, Dial(r) PROVE UNCHANGED Meeting!rendezvousVars
  <2>1. UNCHANGED <<receiver, inbox, listener>>
    BY <1>2 DEF Dial
  <2>2. \A s \in Realm : stream'[s] = "accepted" <=> stream[s] = "accepted"
    BY <1>2 DEF Dial, StoredInv, DispatcherInv, DispatcherTypeOK
  <2> QED
    BY <2>1, <2>2 DEF Meeting!rendezvousVars
<1>3. ASSUME NEW R \in SUBSET Realm, DropReceivers(R) PROVE Meeting!Leave(R)
  <2>1. Waiting' = Waiting \ R
    BY <1>3 DEF DropReceivers, Waiting
  <2> QED
    BY <1>3, <2>1 DEF DropReceivers, Meeting!Leave, Waiting
<1>4. ASSUME AcceptError \/ ListenerCancelled PROVE Meeting!Close
  BY <1>4 DEF AcceptError, ListenerCancelled, Meeting!Close
<1> QED
  BY <1>1, <1>2, <1>3, <1>4, AddStreamComes, RequestStreamAsks
  DEF DispatcherNext, Meeting!RendezvousNext

\* Whatever the fairness of the listener, the dispatcher implements Rendezvous.
THEOREM SafetyMeets == DispatcherSafety => MeetsAtOnce
<1>1. DispatcherInit => Meeting!RendezvousInit
  BY DEF DispatcherInit, Meeting!RendezvousInit
<1> QED
  BY <1>1, StoredInit, StoredStep, StepMeets, PTL
  DEF DispatcherSafety, MeetsAtOnce, Meeting!RendezvousSpec

\* The dispatcher implements Rendezvous for any realms and cids: tasks and
\* streams meet at once, and each stream goes to one task of its cid.
THEOREM DispatcherMeets == DispatcherSpec => MeetsAtOnce
  BY SafetyMeets, PTL DEF DispatcherSpec
=============================================================================
