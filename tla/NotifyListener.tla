--------------------------- MODULE NotifyListener ---------------------------
(***************************************************************************)
(* A pool connection that LISTENs for NOTIFY:                              *)
(* apps/api/src/realtime/notify-listener.ts, one per member of Listeners.  *)
(* connect() and the LISTEN and UNLISTEN queries are awaits, and release() *)
(* may arrive during any of them.  A flag is the set of the listeners for  *)
(* which it is true.                                                       *)
(***************************************************************************)
EXTENDS Naturals

CONSTANTS
  Listeners,
  ReleaseOnListenFailure \* the listeners constructed with that option

ASSUME ReleaseAssumption == ReleaseOnListenFailure \subseteq Listeners

VARIABLES
  halted,    \* the closure's stopped flag
  phase,     \* connect(): "connecting", "listening", "unlistening", "settled"
  ready,     \* listenerReady: "pending", "null" or "client"
  release,   \* release(): "none", "waiting", "unlistening", "done"
  held,      \* the pool connection is checked out
  listening, \* the server session LISTENs
  returns    \* history: calls of client.release()

listenVars == <<halted, phase, ready, release, held, listening, returns>>

ListenTypeOK ==
  /\ halted \subseteq Listeners
  /\ phase \in [Listeners -> {"connecting", "listening", "unlistening", "settled"}]
  /\ ready \in [Listeners -> {"pending", "null", "client"}]
  /\ release \in [Listeners -> {"none", "waiting", "unlistening", "done"}]
  /\ held \subseteq Listeners
  /\ listening \subseteq Listeners
  /\ returns \in [Listeners -> Nat]

ListenInit ==
  /\ halted = {}
  /\ phase = [l \in Listeners |-> "connecting"]
  /\ ready = [l \in Listeners |-> "pending"]
  /\ release = [l \in Listeners |-> "none"]
  /\ held = {}
  /\ listening = {}
  /\ returns = [l \in Listeners |-> 0]

\* listenerReady resolves and the connect callback is over.
Settle(l, outcome) ==
  /\ phase' = [phase EXCEPT ![l] = "settled"]
  /\ ready' = [ready EXCEPT ![l] = outcome]

ReturnClient(l) ==
  /\ held' = held \ {l}
  /\ returns' = [returns EXCEPT ![l] = @ + 1]

\* UNLISTEN returns or fails; a failure is swallowed.
Unlisten(l) == listening' = listening \ {l} \/ UNCHANGED listening

\* pool.connect() resolves: a client that comes after release() goes back.
Connected(l) ==
  /\ phase[l] = "connecting"
  /\ IF l \in halted
     THEN /\ Settle(l, "null")
          /\ returns' = [returns EXCEPT ![l] = @ + 1]
          /\ UNCHANGED held
     ELSE /\ phase' = [phase EXCEPT ![l] = "listening"]
          /\ held' = held \cup {l}
          /\ UNCHANGED <<ready, returns>>
  /\ UNCHANGED <<halted, release, listening>>

\* Slips: the failure reaches the owner as a value of its own, or listenerReady
\* never resolves.
ConnectFailsLoudly(l) ==
  /\ phase[l] = "connecting"
  /\ Settle(l, "error")
  /\ UNCHANGED <<halted, release, held, listening, returns>>

ConnectFailsSilently(l) ==
  /\ phase[l] = "connecting"
  /\ phase' = [phase EXCEPT ![l] = "settled"]
  /\ UNCHANGED <<halted, ready, release, held, listening, returns>>

ConnectFails(l) ==
  /\ phase[l] = "connecting"
  /\ Settle(l, "null")
  /\ UNCHANGED <<halted, release, held, listening, returns>>

\* After the LISTEN query, done or failed: a release() during it is noticed.
AfterListen(l) ==
  IF l \in halted
  THEN /\ phase' = [phase EXCEPT ![l] = "unlistening"]
       /\ UNCHANGED ready
  ELSE Settle(l, "client")

ListenSucceeds(l) ==
  /\ phase[l] = "listening"
  /\ listening' = listening \cup {l}
  /\ AfterListen(l)
  /\ UNCHANGED <<halted, release, held, returns>>

\* LISTEN fails: the connection is kept or returned, as the option says.
ListenFails(l) ==
  /\ phase[l] = "listening"
  /\ IF l \in ReleaseOnListenFailure
     THEN ReturnClient(l) /\ Settle(l, "null")
     ELSE AfterListen(l) /\ UNCHANGED <<held, returns>>
  /\ UNCHANGED <<halted, release, listening>>

\* The UNLISTEN of the connect callback is over.
ConnectUnlistened(l) ==
  /\ phase[l] = "unlistening"
  /\ Settle(l, "null")
  /\ Unlisten(l)
  /\ ReturnClient(l)
  /\ UNCHANGED <<halted, release>>

\* Slip: release() does not wait for a connection that is still being made.
ReleaseAtOnce(L) ==
  /\ halted' = halted \cup L
  /\ release' = [l \in Listeners |->
       IF l \notin L \/ release[l] # "none" THEN release[l]
       ELSE IF ready[l] = "client" THEN "unlistening" ELSE "done"]
  /\ UNCHANGED <<phase, ready, held, listening, returns>>

\* release(): with the client at hand UNLISTEN is sent, otherwise it waits.
Release(L) ==
  /\ halted' = halted \cup L
  /\ release' = [l \in Listeners |->
       IF l \notin L \/ release[l] # "none" THEN release[l]
       ELSE IF ready[l] = "client" THEN "unlistening" ELSE "waiting"]
  /\ UNCHANGED <<phase, ready, held, listening, returns>>

ReleaseResumes(l) ==
  /\ release[l] = "waiting" /\ ready[l] # "pending"
  /\ release' = [release EXCEPT ![l] = IF ready[l] = "null" THEN "done" ELSE "unlistening"]
  /\ UNCHANGED <<halted, phase, ready, held, listening, returns>>

ReleaseUnlistened(l) ==
  /\ release[l] = "unlistening"
  /\ release' = [release EXCEPT ![l] = "done"]
  /\ Unlisten(l)
  /\ ReturnClient(l)
  /\ UNCHANGED <<halted, phase, ready>>

\* The connection breaks: the error is logged, the client kept, and no
\* notification arrives any more.
ConnectionLost(l) ==
  /\ l \in listening
  /\ listening' = listening \ {l}
  /\ UNCHANGED <<halted, phase, ready, release, held, returns>>

ListenStep(l) ==
  \/ Connected(l) \/ ConnectFails(l) \/ ListenSucceeds(l) \/ ListenFails(l)
  \/ ConnectUnlistened(l) \/ ReleaseResumes(l) \/ ReleaseUnlistened(l)

-----------------------------------------------------------------------------
(* What the listener promises its owner. *)

\* The pool gets its connection back at most once, whichever of connect() and
\* release() returns it.
ReturnedOnce == \A l \in Listeners : returns[l] <= 1 /\ (returns[l] = 1 => l \notin held)

\* When release() has resolved nothing is checked out and nothing will be.
ReleaseIsFinal ==
  \A l \in Listeners : release[l] = "done" => l \notin held /\ phase[l] = "settled"
=============================================================================
