------------------------------- MODULE Launcher -------------------------------
(***************************************************************************)
(* The application launcher inside a realm                                 *)
(* (image/handler/src/docker/launcher.rs): launch spawns a process and a   *)
(* handler task that owns it; stop, kill and wait send a request to the    *)
(* handler of the current process and await the exit status.               *)
(*                                                                         *)
(* A Proc is one incarnation of its application, the handler task of that  *)
(* process and the pair of channels between launcher and handler.  A step  *)
(* is the code between two awaits.  Of the application's output the model  *)
(* keeps how full its pipe is; stdout and stderr are one pipe.             *)
(*                                                                         *)
(* An operator marked Variant is not part of the specification: it is the  *)
(* operator after it with a plausible mistake, which the properties are    *)
(* shown to notice.                                                        *)
(***************************************************************************)
EXTENDS Naturals

CONSTANTS
  App,        \* applications, each with its Launcher
  Proc,       \* incarnations of applications
  AppOf,      \* the application a process runs
  NoProc,     \* Launcher::txrx is None
  Obedient,   \* the processes that exit on SIGTERM...
  LastWords,  \* ... after writing this much output
  PipeSize    \* how much unread output the pipe of a process holds

ASSUME ProcAssumption ==
  /\ NoProc \notin Proc
  /\ AppOf \in [Proc -> App]
  /\ Obedient \subseteq Proc
  /\ LastWords \in [Proc -> Nat]
  /\ PipeSize \in Nat

VARIABLES
  proc,     \* the process; "exited" is a zombie nobody has waited for
  sig,      \* the strongest signal it was sent
  pipe,     \* its unread output
  said,     \* how much of its last words it has written
  handler,  \* where Launcher::handler is
  current,  \* the process at the other end of Launcher::txrx
  reqCh,    \* mpsc::channel(1) to the handler
  respCh,   \* mpsc::channel(1) back: an exit status is in it
  caller    \* the request whose answer a call of send_request awaits

processVars  == <<proc, sig, pipe, said>>
launcherVars == <<processVars, handler, current, reqCh, respCh, caller>>

Requests == {"Stop", "Kill", "Wait"}
Over     == {"done", "failed"}

\* Types; a process has a handler once launched; a launcher talks to its own application only.
LauncherTypeOK ==
  /\ proc    \in [Proc -> {"unborn", "running", "exited", "reaped"}]
  /\ sig     \in [Proc -> {"none", "TERM", "KILL"}]
  /\ pipe    \in [Proc -> 0 .. PipeSize]
  /\ said    \in [Proc -> Nat]
  /\ handler \in [Proc -> {"none", "select", "waiting"} \cup Over]
  /\ current \in [App -> Proc \cup {NoProc}]
  /\ reqCh   \in [Proc -> Requests \cup {"none"}]
  /\ respCh  \in [Proc -> BOOLEAN]
  /\ caller  \in [App -> Requests \cup {"idle"}]
  /\ \A p \in Proc : proc[p] = "unborn" <=> handler[p] = "none"
  /\ \A a \in App : current[a] # NoProc => AppOf[current[a]] = a /\ proc[current[a]] # "unborn"

LauncherInit ==
  /\ proc    = [p \in Proc |-> "unborn"]
  /\ sig     = [p \in Proc |-> "none"]
  /\ pipe    = [p \in Proc |-> 0]
  /\ said    = [p \in Proc |-> 0]
  /\ handler = [p \in Proc |-> "none"]
  /\ current = [a \in App |-> NoProc]
  /\ reqCh   = [p \in Proc |-> "none"]
  /\ respCh  = [p \in Proc |-> FALSE]
  /\ caller  = [a \in App |-> "idle"]

-----------------------------------------------------------------------------
(* The launcher: every method takes &mut self, so calls never overlap.     *)

\* launch, once the spawn has succeeded (until then it changes nothing).  The
\* new txrx replaces the old one, whose channel ends are dropped.
Launch(a, p) ==
  /\ caller[a] = "idle"
  /\ proc[p] = "unborn"
  /\ AppOf[p] = a
  /\ proc' = [proc EXCEPT ![p] = "running"]
  /\ handler' = [handler EXCEPT ![p] = "select"]
  /\ current' = [current EXCEPT ![a] = p]
  /\ UNCHANGED <<sig, pipe, said, reqCh, respCh, caller>>

\* The receiver of the current txrx exists: tx.send does not fail.  Without it
\* send_request returns AppNotRunning or RequestChannelError and does nothing.
Reachable(a) == current[a] # NoProc /\ handler[current[a]] \in {"select", "waiting"}

\* send_request, up to where it awaits the response.
SendRequest(a, q) ==
  /\ caller[a] = "idle"
  /\ Reachable(a)
  /\ reqCh' = [reqCh EXCEPT ![current[a]] = q]
  /\ caller' = [caller EXCEPT ![a] = q]
  /\ UNCHANGED <<processVars, handler, current, respCh>>

\* Variant: the caller does not wait for the status.
ReceiveStatusEarly(a) ==
  /\ caller[a] # "idle"
  /\ respCh' = [respCh EXCEPT ![current[a]] = FALSE]
  /\ caller' = [caller EXCEPT ![a] = "idle"]
  /\ UNCHANGED <<processVars, handler, current, reqCh>>

\* The exit status arrives.
ReceiveStatus(a) ==
  /\ caller[a] # "idle"
  /\ respCh[current[a]]
  /\ respCh' = [respCh EXCEPT ![current[a]] = FALSE]
  /\ caller' = [caller EXCEPT ![a] = "idle"]
  /\ UNCHANGED <<processVars, handler, current, reqCh>>

\* The handler ended without a status: ChannelClosed.
ReceiveClosed(a) ==
  /\ caller[a] # "idle"
  /\ ~respCh[current[a]]
  /\ handler[current[a]] \in Over
  /\ caller' = [caller EXCEPT ![a] = "idle"]
  /\ UNCHANGED <<processVars, handler, current, reqCh, respCh>>

-----------------------------------------------------------------------------
(* The handler of process p.                                               *)

\* The handler is over; a request still queued is dropped with its receiver.
HandlerEnds(p, v) ==
  /\ handler' = [handler EXCEPT ![p] = v]
  /\ reqCh' = [reqCh EXCEPT ![p] = "none"]

\* Variant: Stop is handled as Wait.
HandlerRecvNoSignal(p) ==
  /\ handler[p] = "select"
  /\ reqCh[p] # "none"
  /\ sig' = IF reqCh[p] = "Kill" THEN [sig EXCEPT ![p] = "KILL"] ELSE sig
  /\ reqCh' = [reqCh EXCEPT ![p] = "none"]
  /\ handler' = [handler EXCEPT ![p] = "waiting"]
  /\ UNCHANGED <<proc, pipe, said, current, respCh, caller>>

\* Variant: both Stop and Kill send SIGTERM.
HandlerRecvTerm(p) ==
  /\ handler[p] = "select"
  /\ reqCh[p] # "none"
  /\ sig' = IF reqCh[p] = "Wait" THEN sig ELSE [sig EXCEPT ![p] = "TERM"]
  /\ reqCh' = [reqCh EXCEPT ![p] = "none"]
  /\ handler' = [handler EXCEPT ![p] = "waiting"]
  /\ UNCHANGED <<proc, pipe, said, current, respCh, caller>>

\* rx.recv() returns a request: signal the process, then wait for it.
HandlerRecv(p) ==
  /\ handler[p] = "select"
  /\ reqCh[p] # "none"
  /\ sig' = CASE reqCh[p] = "Kill" -> [sig EXCEPT ![p] = "KILL"]
              [] reqCh[p] = "Stop" -> [sig EXCEPT ![p] = "TERM"]
              [] OTHER -> sig
  /\ reqCh' = [reqCh EXCEPT ![p] = "none"]
  /\ handler' = [handler EXCEPT ![p] = "waiting"]
  /\ UNCHANGED <<proc, pipe, said, current, respCh, caller>>

\* rx.recv() returns None, for a later launch replaced txrx: the Child is
\* dropped, which does not kill the process.
HandlerSuperseded(p) ==
  /\ handler[p] = "select"
  /\ reqCh[p] = "none"
  /\ current[AppOf[p]] # p
  /\ HandlerEnds(p, "done")
  /\ UNCHANGED <<processVars, current, respCh, caller>>

\* read_line consumes output.
HandlerReads(p) ==
  /\ handler[p] = "select"
  /\ pipe[p] > 0
  /\ pipe' = [pipe EXCEPT ![p] = @ - 1]
  /\ UNCHANGED <<proc, sig, said, handler, current, reqCh, respCh, caller>>

\* read_line fails, as it does on output that is not UTF-8.
HandlerReadError(p) ==
  /\ handler[p] = "select"
  /\ HandlerEnds(p, "failed")
  /\ UNCHANGED <<processVars, current, respCh, caller>>

\* Variant: process.wait() in the loop reaps the process and the loop goes on.
HandlerReapsOnly(p) ==
  /\ handler[p] = "select"
  /\ proc[p] = "exited"
  /\ proc' = [proc EXCEPT ![p] = "reaped"]
  /\ UNCHANGED <<sig, pipe, said, handler, current, reqCh, respCh, caller>>

\* process.wait() returns in the loop.
HandlerSeesExit(p) ==
  /\ handler[p] = "select"
  /\ proc[p] = "exited"
  /\ proc' = [proc EXCEPT ![p] = "reaped"]
  /\ HandlerEnds(p, "done")
  /\ UNCHANGED <<sig, pipe, said, current, respCh, caller>>

\* Variant: the status is sent without waiting for the process.
HandlerAnswersEarly(p) ==
  /\ handler[p] = "waiting"
  /\ respCh' = [respCh EXCEPT ![p] = TRUE]
  /\ HandlerEnds(p, "done")
  /\ UNCHANGED <<processVars, current, caller>>

\* process.wait() returns after a request: send the status and leave.
HandlerAnswers(p) ==
  /\ handler[p] = "waiting"
  /\ proc[p] = "exited"
  /\ proc' = [proc EXCEPT ![p] = "reaped"]
  /\ respCh' = [respCh EXCEPT ![p] = TRUE]
  /\ HandlerEnds(p, "done")
  /\ UNCHANGED <<sig, pipe, said, current, caller>>

-----------------------------------------------------------------------------
(* The process.  It may write and exit as it likes.                        *)

\* A write blocks on a full pipe as long as the handler holds the other end.
CanWrite(p) == pipe[p] < PipeSize \/ handler[p] \in Over

WritePipe(p) == pipe' = IF pipe[p] < PipeSize THEN [pipe EXCEPT ![p] = @ + 1] ELSE pipe

ProcWrites(p) ==
  /\ proc[p] = "running"
  /\ CanWrite(p)
  /\ WritePipe(p)
  /\ UNCHANGED <<proc, sig, said, handler, current, reqCh, respCh, caller>>

\* An obedient process that was sent SIGTERM writes what it has left to say.
ProcSaysLastWords(p) ==
  /\ proc[p] = "running"
  /\ p \in Obedient
  /\ sig[p] = "TERM"
  /\ said[p] < LastWords[p]
  /\ CanWrite(p)
  /\ WritePipe(p)
  /\ said' = [said EXCEPT ![p] = @ + 1]
  /\ UNCHANGED <<proc, sig, handler, current, reqCh, respCh, caller>>

ProcExits(p) ==
  /\ proc[p] = "running"
  /\ proc' = [proc EXCEPT ![p] = "exited"]
  /\ UNCHANGED <<sig, pipe, said, handler, current, reqCh, respCh, caller>>

\* A process that has to exit: killed, or obedient with nothing left to say.
ProcObeys(p) ==
  /\ \/ sig[p] = "KILL"
     \/ sig[p] = "TERM" /\ p \in Obedient /\ said[p] >= LastWords[p]
  /\ ProcExits(p)

-----------------------------------------------------------------------------
HandlerStep(p) ==
  \/ HandlerRecv(p) \/ HandlerSuperseded(p) \/ HandlerReads(p) \/ HandlerReadError(p)
  \/ HandlerSeesExit(p) \/ HandlerAnswers(p)

ProcStep(p) == ProcWrites(p) \/ ProcSaysLastWords(p) \/ ProcExits(p)

CallerStep(a) ==
  \/ \E p \in Proc : Launch(a, p)
  \/ \E q \in Requests : SendRequest(a, q)
  \/ ReceiveStatus(a) \/ ReceiveClosed(a)

LauncherNext ==
  \/ \E a \in App : CallerStep(a)
  \/ \E p \in Proc : HandlerStep(p) \/ ProcStep(p)

\* tokio runs ready tasks and select! starts at a random branch, so it takes
\* one that stays ready; a process writes and exits when a signal makes it.
LauncherFairness ==
  /\ \A p \in Proc : /\ WF_launcherVars(HandlerRecv(p))
                     /\ WF_launcherVars(HandlerSuperseded(p))
                     /\ WF_launcherVars(HandlerSeesExit(p))
                     /\ WF_launcherVars(HandlerAnswers(p))
                     /\ WF_launcherVars(HandlerReads(p))
                     /\ WF_launcherVars(ProcObeys(p))
                     /\ WF_launcherVars(ProcSaysLastWords(p))
  /\ \A a \in App : WF_launcherVars(ReceiveStatus(a) \/ ReceiveClosed(a))

LauncherSpec == LauncherInit /\ [][LauncherNext]_launcherVars
LauncherFairSpec == LauncherSpec /\ LauncherFairness

-----------------------------------------------------------------------------
\* A process is left without a handler only when a later launch replaced it, or
\* when its output could not be read; never because its app exited, was stopped
\* or was waited for.
Supervision ==
  \A p \in Proc :
    proc[p] = "running" /\ handler[p] \in Over =>
      handler[p] = "failed" \/ current[AppOf[p]] # p

\* A request is queued, being handled or answered, in one of the three, while
\* its caller waits for it, unless the handler is over; afterwards nothing of it
\* is left that a later call could mistake for its own answer.
RequestInOnePlace ==
  \A p \in Proc :
    LET queued   == reqCh[p] # "none"
        handling == handler[p] = "waiting"
        answered == respCh[p]
        waiting  == caller[AppOf[p]] # "idle" /\ current[AppOf[p]] = p
    IN /\ queued \/ handling \/ answered => waiting
       /\ waiting => queued \/ handling \/ answered \/ handler[p] \in Over
       /\ ~(queued /\ handling) /\ ~(queued /\ answered) /\ ~(handling /\ answered)

\* The status a caller gets is that of a process which has exited and has been
\* waited for: the answer to stop or kill never runs ahead of the exit.
StatusMeansExited ==
  \A p \in Proc : respCh[p] => proc[p] = "reaped"

\* The handler keeps the pid as a number.  It never signals a process already
\* reaped, whose pid may be another's by now, nor one that was superseded.
SignalsHitOwnProcess ==
  [][\A p \in Proc : sig'[p] # sig[p] =>
       proc[p] \in {"running", "exited"} /\ current[AppOf[p]] = p]_launcherVars

\* kill() returns, however the process behaves and whatever it writes.
KillReturns == \A a \in App : caller[a] = "Kill" ~> caller[a] = "idle"

\* stop() returns when the process obeys SIGTERM without writing a last word.
StopReturns ==
  \A a \in App :
    (caller[a] = "Stop" /\ current[a] \in Obedient /\ LastWords[current[a]] = 0)
      ~> caller[a] = "idle"

\* "Terminate a running application" (vm/src/interface.rs:104): terminating an
\* application that obeys SIGTERM, after writing its last output, returns.
TerminateReturns ==
  \A a \in App : (caller[a] = "Stop" /\ current[a] \in Obedient) ~> caller[a] = "idle"
=============================================================================
