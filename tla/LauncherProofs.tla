---------------------------- MODULE LauncherProofs ----------------------------
(* Proofs about Launcher, for any applications, processes, pipe size and     *)
(* behaviour of the processes.                                               *)
EXTENDS Launcher, TLAPS

(***************************************************************************)
(* The inductive invariant: the properties, and what links a handler to    *)
(* its process and its queue.  A handler that has not ended has not reaped *)
(* its process, one that has ended left no request in its queue, and a     *)
(* call is only open on a process.                                         *)
(***************************************************************************)
LiveHandlerHasProcess ==
  \A p \in Proc : handler[p] \in {"select", "waiting"} => proc[p] \in {"running", "exited"}

OverHasNoQueue == \A p \in Proc : handler[p] \in Over => reqCh[p] = "none"

CallHasProcess == \A a \in App : caller[a] # "idle" => current[a] # NoProc

LauncherInv ==
  /\ LauncherTypeOK
  /\ LiveHandlerHasProcess
  /\ OverHasNoQueue
  /\ CallHasProcess
  /\ Supervision
  /\ RequestInOnePlace
  /\ StatusMeansExited

\* The invariant holds before the first launch.
LEMMA InitInv == LauncherInit => LauncherInv
  BY ProcAssumption
  DEF LauncherInit, LauncherInv, LauncherTypeOK, LiveHandlerHasProcess, OverHasNoQueue,
      CallHasProcess, Supervision, RequestInOnePlace, StatusMeansExited, Over, Requests

-----------------------------------------------------------------------------
(* The launcher's side.                                                      *)

\* With no call open, nothing of a request is left at any process of the app.
LEMMA IdleMeansNothingPending ==
  ASSUME LauncherInv, NEW p \in Proc, caller[AppOf[p]] = "idle"
  PROVE  reqCh[p] = "none" /\ handler[p] # "waiting" /\ ~respCh[p]
  BY DEF LauncherInv, RequestInOnePlace

\* A launch replaces the channels: the process before it has no request pending.
LEMMA LaunchInv ==
  ASSUME NEW a \in App, NEW p \in Proc, LauncherInv, Launch(a, p)
  PROVE  LauncherInv'
<1> USE ProcAssumption DEF LauncherInv, LauncherTypeOK, Launch, Over, Requests
<1>1. handler[p] = "none" /\ AppOf[p] = a /\ caller[a] = "idle" /\ proc[p] = "unborn"
  OBVIOUS
<1>2. LauncherTypeOK'
  BY <1>1
<1>3. LiveHandlerHasProcess'
  BY <1>1 DEF LiveHandlerHasProcess
<1>4. OverHasNoQueue' /\ CallHasProcess'
  BY <1>1 DEF OverHasNoQueue, CallHasProcess
<1>5. Supervision'
  BY <1>1 DEF Supervision
<1>6. RequestInOnePlace'
  <2>1. SUFFICES ASSUME NEW q \in Proc
        PROVE  (reqCh'[q] # "none" \/ handler'[q] = "waiting" \/ respCh'[q]
                  <=> reqCh[q] # "none" \/ handler[q] = "waiting" \/ respCh[q])
               /\ (AppOf[q] # a => current'[AppOf[q]] = current[AppOf[q]])
    BY <1>1, IdleMeansNothingPending DEF RequestInOnePlace
  <2> QED
    BY <1>1
<1>7. StatusMeansExited'
  BY <1>1, IdleMeansNothingPending DEF StatusMeansExited
<1> QED
  BY <1>2, <1>3, <1>4, <1>5, <1>6, <1>7

\* A request goes to the current process, where nothing is pending.
LEMMA SendRequestInv ==
  ASSUME NEW a \in App, NEW q \in Requests, LauncherInv, SendRequest(a, q)
  PROVE  LauncherInv'
<1> USE ProcAssumption
    DEF LauncherInv, LauncherTypeOK, SendRequest, Reachable, processVars, Over, Requests
<1> DEFINE p == current[a]
<1>1. p \in Proc /\ AppOf[p] = a /\ handler[p] \in {"select", "waiting"} /\ caller[a] = "idle"
  OBVIOUS
<1>2. LauncherTypeOK'
  BY <1>1
<1>3. LiveHandlerHasProcess' /\ Supervision' /\ StatusMeansExited'
  BY DEF LiveHandlerHasProcess, Supervision, StatusMeansExited
<1>4. OverHasNoQueue' /\ CallHasProcess'
  BY <1>1 DEF OverHasNoQueue, CallHasProcess
<1>5. RequestInOnePlace'
  BY <1>1, IdleMeansNothingPending DEF RequestInOnePlace
<1> QED
  BY <1>2, <1>3, <1>4, <1>5

\* The status, or the news that the handler is gone, closes the call.
LEMMA ReceiveInv ==
  ASSUME NEW a \in App, LauncherInv, ReceiveStatus(a) \/ ReceiveClosed(a)
  PROVE  LauncherInv'
<1> USE ProcAssumption DEF LauncherInv, LauncherTypeOK, processVars, Over, Requests
<1> DEFINE p == current[a]
<1>1. p \in Proc /\ AppOf[p] = a
  BY DEF ReceiveStatus, ReceiveClosed, CallHasProcess
<1>2. /\ UNCHANGED <<proc, sig, pipe, said, handler, current, reqCh>>
      /\ caller' = [caller EXCEPT ![a] = "idle"]
  BY DEF ReceiveStatus, ReceiveClosed
<1>3. respCh' = [respCh EXCEPT ![p] = FALSE]
  BY <1>1 DEF ReceiveStatus, ReceiveClosed
<1>4. reqCh[p] = "none" /\ handler[p] # "waiting"
  BY <1>1 DEF ReceiveStatus, ReceiveClosed, RequestInOnePlace, OverHasNoQueue
<1>5. LauncherTypeOK'
  BY <1>1, <1>2, <1>3
<1>6. LiveHandlerHasProcess' /\ OverHasNoQueue' /\ CallHasProcess' /\ Supervision'
  BY <1>2 DEF LiveHandlerHasProcess, OverHasNoQueue, CallHasProcess, Supervision
<1>7. StatusMeansExited'
  BY <1>1, <1>2, <1>3 DEF StatusMeansExited
<1>8. RequestInOnePlace'
  BY <1>1, <1>2, <1>3, <1>4 DEF RequestInOnePlace
<1> QED
  BY <1>5, <1>6, <1>7, <1>8

-----------------------------------------------------------------------------
(* The handler's side: the request at hand moves from the queue to the       *)
(* handler to the response channel.                                          *)

\* The handler takes the request, signals and waits.
LEMMA HandlerRecvInv ==
  ASSUME NEW p \in Proc, LauncherInv, HandlerRecv(p)
  PROVE  LauncherInv'
<1> USE ProcAssumption DEF LauncherInv, LauncherTypeOK, HandlerRecv, Over, Requests
<1>1. LauncherTypeOK'
  <2>1. sig' \in [Proc -> {"none", "TERM", "KILL"}]
    OBVIOUS
  <2> QED
    BY <2>1
<1>2. LiveHandlerHasProcess' /\ OverHasNoQueue' /\ CallHasProcess' /\ Supervision'
  BY DEF LiveHandlerHasProcess, OverHasNoQueue, CallHasProcess, Supervision
<1>3. RequestInOnePlace' /\ StatusMeansExited'
  BY DEF RequestInOnePlace, StatusMeansExited
<1> QED
  BY <1>1, <1>2, <1>3

\* A handler that ends by itself drops its queue and what is in it.
LEMMA HandlerQuitsInv ==
  ASSUME NEW p \in Proc, LauncherInv,
         HandlerSuperseded(p) \/ HandlerReadError(p) \/ HandlerSeesExit(p)
  PROVE  LauncherInv'
<1> USE ProcAssumption DEF LauncherInv, LauncherTypeOK, processVars, Over, Requests
<1>1. PICK v \in Over : /\ handler[p] = "select"
                        /\ handler' = [handler EXCEPT ![p] = v]
                        /\ reqCh' = [reqCh EXCEPT ![p] = "none"]
                        /\ UNCHANGED <<sig, pipe, said, current, respCh, caller>>
  BY DEF HandlerSuperseded, HandlerReadError, HandlerSeesExit, HandlerEnds
<1>2. \/ proc' = proc /\ (handler'[p] = "failed" \/ current[AppOf[p]] # p)
      \/ proc[p] = "exited" /\ proc' = [proc EXCEPT ![p] = "reaped"]
  BY DEF HandlerSuperseded, HandlerReadError, HandlerSeesExit, HandlerEnds
<1>3. LauncherTypeOK'
  BY <1>1, <1>2
<1>4. LiveHandlerHasProcess' /\ OverHasNoQueue' /\ CallHasProcess'
  BY <1>1, <1>2 DEF LiveHandlerHasProcess, OverHasNoQueue, CallHasProcess
<1>5. Supervision'
  BY <1>1, <1>2 DEF Supervision
<1>6. RequestInOnePlace' /\ StatusMeansExited'
  BY <1>1, <1>2 DEF RequestInOnePlace, StatusMeansExited
<1> QED
  BY <1>3, <1>4, <1>5, <1>6

\* The process was reaped, its status is sent and the handler ends.
LEMMA HandlerAnswersInv ==
  ASSUME NEW p \in Proc, LauncherInv, HandlerAnswers(p)
  PROVE  LauncherInv'
<1> USE ProcAssumption DEF LauncherInv, LauncherTypeOK, HandlerAnswers, HandlerEnds, Over, Requests
<1>1. LauncherTypeOK'
  OBVIOUS
<1>2. LiveHandlerHasProcess' /\ OverHasNoQueue' /\ CallHasProcess' /\ Supervision'
  BY DEF LiveHandlerHasProcess, OverHasNoQueue, CallHasProcess, Supervision
<1>3. RequestInOnePlace'
  BY DEF RequestInOnePlace
<1>4. StatusMeansExited'
  BY DEF StatusMeansExited
<1> QED
  BY <1>1, <1>2, <1>3, <1>4

\* Output and exits leave the handlers and the channels alone.
LEMMA ProcessInv ==
  ASSUME NEW p \in Proc, LauncherInv, HandlerReads(p) \/ ProcStep(p)
  PROVE  LauncherInv'
<1> USE ProcAssumption DEF LauncherInv, LauncherTypeOK, Over, Requests
<1>1. UNCHANGED <<sig, handler, current, reqCh, respCh, caller>>
  BY DEF HandlerReads, ProcStep, ProcWrites, ProcSaysLastWords, ProcExits
<1>2. proc' = proc \/ (proc[p] = "running" /\ proc' = [proc EXCEPT ![p] = "exited"])
  BY DEF HandlerReads, ProcStep, ProcWrites, ProcSaysLastWords, ProcExits
<1>3. pipe' \in [Proc -> 0 .. PipeSize]
  BY DEF HandlerReads, ProcStep, ProcWrites, ProcSaysLastWords, ProcExits, WritePipe
<1>4. said' \in [Proc -> Nat]
  BY DEF HandlerReads, ProcStep, ProcWrites, ProcSaysLastWords, ProcExits
<1>5. LauncherTypeOK'
  BY <1>1, <1>2, <1>3, <1>4
<1>6. LiveHandlerHasProcess' /\ OverHasNoQueue' /\ CallHasProcess' /\ Supervision'
  BY <1>1, <1>2 DEF LiveHandlerHasProcess, OverHasNoQueue, CallHasProcess, Supervision
<1>7. RequestInOnePlace' /\ StatusMeansExited'
  BY <1>1, <1>2 DEF RequestInOnePlace, StatusMeansExited
<1> QED
  BY <1>5, <1>6, <1>7

-----------------------------------------------------------------------------
\* Every step of the specification preserves the invariant.
LEMMA NextInv == LauncherInv /\ [LauncherNext]_launcherVars => LauncherInv'
<1> SUFFICES ASSUME LauncherInv, [LauncherNext]_launcherVars
             PROVE  LauncherInv'
  OBVIOUS
<1>1. CASE UNCHANGED launcherVars
  BY <1>1 DEF launcherVars, processVars, LauncherInv, LauncherTypeOK, LiveHandlerHasProcess,
     OverHasNoQueue, CallHasProcess, Supervision, RequestInOnePlace, StatusMeansExited
<1>2. CASE \E a \in App : CallerStep(a)
  BY <1>2, LaunchInv, SendRequestInv, ReceiveInv DEF CallerStep
<1>3. CASE \E p \in Proc : HandlerStep(p) \/ ProcStep(p)
  BY <1>3, HandlerRecvInv, HandlerQuitsInv, HandlerAnswersInv, ProcessInv DEF HandlerStep
<1> QED
  BY <1>1, <1>2, <1>3 DEF LauncherNext

\* Every reachable state satisfies the invariant.
THEOREM LauncherInvariant == LauncherSpec => []LauncherInv
<1>1. LauncherInit => LauncherInv
  BY InitInv
<1>2. LauncherInv /\ [LauncherNext]_launcherVars => LauncherInv'
  BY NextInv
<1> QED
  BY <1>1, <1>2, PTL DEF LauncherSpec

\* Type correctness: a process has a handler from its launch on, and a launcher
\* talks to a process of its own application.
THEOREM LauncherTypeCorrect == LauncherSpec => []LauncherTypeOK
<1>1. LauncherInv => LauncherTypeOK
  BY DEF LauncherInv
<1> QED
  BY <1>1, LauncherInvariant, PTL

\* A running process loses its handler only to a later launch or to output that
\* cannot be read.
THEOREM ProcessesAreSupervised == LauncherSpec => []Supervision
<1>1. LauncherInv => Supervision
  BY DEF LauncherInv
<1> QED
  BY <1>1, LauncherInvariant, PTL

\* Requests and statuses pair up by order alone: a request is in one place while
\* its caller waits and nowhere afterwards.
THEOREM RequestsAreInOnePlace == LauncherSpec => []RequestInOnePlace
<1>1. LauncherInv => RequestInOnePlace
  BY DEF LauncherInv
<1> QED
  BY <1>1, LauncherInvariant, PTL

\* stop, kill and wait return the status of a process that is gone.
THEOREM StatusesMeanExited == LauncherSpec => []StatusMeansExited
<1>1. LauncherInv => StatusMeansExited
  BY DEF LauncherInv
<1> QED
  BY <1>1, LauncherInvariant, PTL

\* Only HandlerRecv signals, and what it signals is there and is the current one.
LEMMA SignalStep ==
  LauncherInv /\ [LauncherNext]_launcherVars =>
    \A p \in Proc : sig'[p] # sig[p] => proc[p] \in {"running", "exited"} /\ current[AppOf[p]] = p
<1> SUFFICES ASSUME LauncherInv, [LauncherNext]_launcherVars, NEW p \in Proc, sig'[p] # sig[p]
             PROVE  proc[p] \in {"running", "exited"} /\ current[AppOf[p]] = p
  OBVIOUS
<1>1. PICK q \in Proc : HandlerRecv(q)
  BY DEF LauncherNext, launcherVars, processVars, CallerStep, Launch, SendRequest, ReceiveStatus,
     ReceiveClosed, HandlerStep, HandlerSuperseded, HandlerReads, HandlerReadError,
     HandlerSeesExit, HandlerAnswers, ProcStep, ProcWrites, ProcSaysLastWords, ProcExits
<1>2. q = p
  BY <1>1 DEF HandlerRecv, LauncherInv, LauncherTypeOK
<1> QED
  BY <1>1, <1>2 DEF HandlerRecv, LauncherInv, LiveHandlerHasProcess, RequestInOnePlace

\* The handler never signals a pid it no longer owns.
THEOREM SignalsReachOwnProcess == LauncherSpec => SignalsHitOwnProcess
<1>1. LauncherInv /\ [LauncherNext]_launcherVars =>
        [\A p \in Proc : sig'[p] # sig[p] =>
           proc[p] \in {"running", "exited"} /\ current[AppOf[p]] = p]_launcherVars
  BY SignalStep
<1> QED
  BY <1>1, LauncherInvariant, PTL DEF LauncherSpec, SignalsHitOwnProcess
=============================================================================
