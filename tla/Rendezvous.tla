------------------------------ MODULE Rendezvous ------------------------------
(***************************************************************************)
(* What ConnectionDispatcher promises, without its maps and channels: the  *)
(* stream of a guest and a task that waits for its cid are brought         *)
(* together as soon as both are there, by whichever comes second.          *)
(***************************************************************************)
CONSTANTS
  Realm,    \* as in ConnectionDispatcher
  CidOf,
  NoRealm

VARIABLES
  waiting,  \* tasks that have asked and wait
  offered,  \* streams that have come and were given to no task
  given,    \* the stream each task was given
  open      \* whether streams are accepted

rendezvousVars == <<waiting, offered, given, open>>

Alike(t, s) == CidOf[t] = CidOf[s]

RendezvousInit ==
  /\ waiting = {} /\ offered = {}
  /\ given = [t \in Realm |-> NoRealm]
  /\ open = TRUE

\* A task asks.  Streams that come when it all ends may be lost, others not.
Ask(t) ==
  /\ t \notin waiting /\ given[t] = NoRealm
  /\ \/ \E s \in offered : /\ Alike(t, s)
                           /\ given' = [given EXCEPT ![t] = s]
                           /\ offered' = offered \ {s}
                           /\ UNCHANGED waiting
     \/ /\ open => \A s \in offered : ~Alike(t, s)
        /\ waiting' = waiting \cup {t}
        /\ UNCHANGED <<given, offered>>
  /\ UNCHANGED open

\* A stream comes that never came before.  One no task waits for may be the
\* reason why no more are accepted.
Come(s) ==
  /\ open /\ s \notin offered /\ \A t \in Realm : given[t] # s
  /\ \/ \E t \in waiting : /\ Alike(t, s)
                           /\ given' = [given EXCEPT ![t] = s]
                           /\ waiting' = waiting \ {t}
                           /\ UNCHANGED <<offered, open>>
     \/ /\ \A t \in waiting : ~Alike(t, s)
        /\ offered' = offered \cup {s}
        /\ open' \in BOOLEAN
        /\ UNCHANGED <<waiting, given>>

\* Tasks end; what they were given stays given.
Leave(T) == waiting' = waiting \ T /\ UNCHANGED <<offered, given, open>>

Close == open' = FALSE /\ UNCHANGED <<waiting, offered, given>>

RendezvousNext ==
  \/ \E r \in Realm : Ask(r) \/ Come(r)
  \/ \E T \in SUBSET Realm : Leave(T)
  \/ Close

RendezvousSpec == RendezvousInit /\ [][RendezvousNext]_rendezvousVars
=============================================================================
