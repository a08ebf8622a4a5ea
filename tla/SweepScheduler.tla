--------------------------- MODULE SweepScheduler ---------------------------
(***************************************************************************)
(* The scheduler every background sweep runs under:                        *)
(* apps/api/src/lib/sweep-scheduler.ts, one instance per member of         *)
(* Schedulers in one Node.js process.  Each action is one turn of the      *)
(* event loop; between turns a task is suspended in an await.  A flag of   *)
(* the closure is the set of the schedulers whose flag is true.            *)
(*                                                                         *)
(* Delays are not counted: an armed timer fires at some later turn, which  *)
(* covers every nextDelayMs, the zero of a drained-full batch included.    *)
(***************************************************************************)
EXTENDS Naturals

CONSTANTS
  Schedulers,
  RunImmediately \* those started with runImmediately, the default

ASSUME ImmediateAssumption == RunImmediately \subseteq Schedulers

VARIABLES
  stopped, running, pending, \* the flags
  timer,                     \* a setTimeout is armed
  stopPromise,               \* what stop() returned: "none", "waiting", "resolved"
  active,                    \* history: task bodies in flight
  owed                       \* history: a wake has not yet been followed by a run

schedVars == <<stopped, running, pending, timer, stopPromise, active, owed>>

SchedTypeOK ==
  /\ stopped \subseteq Schedulers
  /\ running \subseteq Schedulers
  /\ pending \subseteq Schedulers
  /\ timer \subseteq Schedulers
  /\ stopPromise \in [Schedulers -> {"none", "waiting", "resolved"}]
  /\ active \in [Schedulers -> Nat]
  /\ owed \subseteq Schedulers

\* startSweepScheduler: with runImmediately the first run starts at once,
\* otherwise the first delay is armed.
SchedInit ==
  /\ stopped = {}
  /\ running = RunImmediately
  /\ pending = {}
  /\ timer = Schedulers \ RunImmediately
  /\ stopPromise = [s \in Schedulers |-> "none"]
  /\ active = [s \in Schedulers |-> IF s \in RunImmediately THEN 1 ELSE 0]
  /\ owed = {}

\* runOnce past its guard.
StartRun(s) ==
  /\ timer' = timer \ {s}
  /\ running' = running \cup {s}
  /\ active' = [active EXCEPT ![s] = @ + 1]
  /\ owed' = owed \ {s}

\* The timer calls runOnce, which returns at once when stopped or running.
TimerFires(s) ==
  /\ s \in timer /\ s \notin stopped /\ s \notin running
  /\ StartRun(s)
  /\ UNCHANGED <<stopped, pending, stopPromise>>

\* Slip: a wake starts a run beside one in flight.
TriggerRegardless(s) ==
  /\ s \notin stopped
  /\ StartRun(s)
  /\ UNCHANGED <<stopped, pending, stopPromise>>

\* A wake during a run is remembered; without one the timer is cleared and the
\* run starts.  Once stopped, wakes are ignored.
Trigger(s) ==
  /\ s \notin stopped
  /\ \/ /\ s \in running
        /\ pending' = pending \cup {s}
        /\ owed' = owed \cup {s}
        /\ UNCHANGED <<timer, running, active>>
     \/ /\ s \notin running
        /\ StartRun(s)
        /\ UNCHANGED pending
  /\ UNCHANGED <<stopped, stopPromise>>

\* The task is over and no rerun follows in the same turn.
EndRun(s) ==
  /\ running' = running \ {s}
  /\ active' = [active EXCEPT ![s] = @ - 1]
  /\ UNCHANGED <<pending, owed>>

\* Slip: the task ends and nothing re-arms the scheduler.
TaskSettlesForGood(s) ==
  /\ s \in running
  /\ EndRun(s)
  /\ stopPromise' = [stopPromise EXCEPT ![s] = IF @ = "waiting" THEN "resolved" ELSE @]
  /\ UNCHANGED <<stopped, timer>>

\* The task resolves or rejects, the same but for the delay.
TaskSettles(s) ==
  /\ s \in running
  /\ \/ /\ s \in stopped
        /\ EndRun(s)
        /\ stopPromise' = [stopPromise EXCEPT ![s] = IF @ = "waiting" THEN "resolved" ELSE @]
        /\ UNCHANGED timer
     \/ /\ s \notin stopped /\ s \in pending
        /\ pending' = pending \ {s}
        /\ owed' = owed \ {s}
        /\ UNCHANGED <<running, active, timer, stopPromise>>
     \/ /\ s \notin stopped /\ s \notin pending
        /\ EndRun(s)
        /\ timer' = timer \cup {s}
        /\ UNCHANGED stopPromise
  /\ UNCHANGED stopped

\* stop() of every scheduler in S in one turn; a second call gets the same
\* promise.
Stop(S) ==
  /\ stopped' = stopped \cup S
  /\ pending' = pending \ S
  /\ timer' = timer \ S
  /\ stopPromise' = [s \in Schedulers |->
       IF s \notin S THEN stopPromise[s]
       ELSE IF s \in running THEN "waiting" ELSE "resolved"]
  /\ UNCHANGED <<running, active, owed>>

-----------------------------------------------------------------------------
(* What the scheduler promises its sweepers. *)

\* A run never overlaps itself, whatever wakes, timers and stops arrive, and
\* the running flag never lies about it.
NeverOverlaps ==
  \A s \in Schedulers : active[s] <= 1 /\ (s \in running <=> active[s] = 1)

\* A scheduler that was not stopped always has its next run ahead: a task in
\* flight or an armed timer, and never both.
StaysAlive == \A s \in Schedulers \ stopped : s \in running <=> s \notin timer

\* When stop() has resolved, no task is in flight, and no wake starts one again.
StopDrains == \A s \in Schedulers : stopPromise[s] = "resolved" => active[s] = 0

\* A wake that arrives during a run is serviced by a later one, unless the
\* scheduler stops first.
WakeIsServiced == \A s \in Schedulers : s \in owed ~> s \notin owed \/ s \in stopped

\* The safety half of that: until it is serviced or the scheduler stops, a
\* wake rides on a task in flight, which never goes idle with it, and the end
\* of that task services it.
WakeIsCarried ==
  [][\A s \in owed \ stopped :
       s \in running /\ s \in running' /\ (TaskSettles(s) => s \notin owed')]_schedVars
=============================================================================
