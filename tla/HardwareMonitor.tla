-------------------------- MODULE HardwareMonitor --------------------------
(***************************************************************************)
(* HardwareMonitor of src/src/runtime/hardware-monitor.ts: sessions from    *)
(* start() to stop(), each with an interval timer and, where the browser    *)
(* has one, a pressure observer.  Of the metrics, operations are counted, of *)
(* one activity; rates, memory, energy and the thermal state are left out.  *)
(***************************************************************************)
EXTENDS Integers, FiniteSets

CONSTANTS
    MaxSessions,    \* bound on the calls of start()
    MaxOps          \* bound on the operations the activity completes

VARIABLES
    session,        \* calls of start() so far
    timer,          \* the session whose timer this.timer is, or 0
    observer,       \* the session whose observer this.pressureObserver is, or 0
    live,           \* live.timers and live.observers: those the browser runs
    completedOps,   \* of the activity that getSnapshot() reads
    lastOps,
    reported        \* the operations that onUpdate took, over all samples

monVars == <<session, timer, observer, live, completedOps, lastOps, reported>>

MonInit ==
    /\ session = 0 /\ timer = 0 /\ observer = 0
    /\ live = [timers |-> {}, observers |-> {}]
    /\ completedOps = 0 /\ lastOps = 0 /\ reported = 0

\* The activity goes on whether anyone samples it or not.
Work ==
    /\ completedOps < MaxOps
    /\ completedOps' = completedOps + 1
    /\ UNCHANGED <<session, timer, observer, live, lastOps, reported>>

\* tick(): what a sample adds; one that is not busy reports nothing, and moves
\* lastOps all the same.  A callback that throws leaves the counters as they are,
\* and its operations to the next sample.
Sampled(from) ==
    \/ /\ lastOps' = completedOps
       /\ reported' \in {reported, reported + (completedOps - from)}
    \/ UNCHANGED <<lastOps, reported>>

\* Mutant: a new session counts from nothing.
FromNothing(starting) == IF starting THEN 0 ELSE lastOps

\* start() keeps the counters of the last session.
From(starting) == lastOps

\* Mutant: start() does not stop().
AfterNoStop == live

\* stop(): the timer is cleared and the observer disconnected.
AfterStop == [timers |-> live.timers \ {timer}, observers |-> live.observers \ {observer}]

\* start(); it has a timer and takes a sample at once.  There may be no observer, or
\* one that refuses.
Start ==
    /\ session < MaxSessions
    /\ session' = session + 1
    /\ timer' = session'
    /\ \E observes \in BOOLEAN :
        /\ observer' = IF observes THEN session' ELSE 0
        /\ live' = [timers |-> AfterStop.timers \cup {session'},
                    observers |-> AfterStop.observers \cup (IF observes THEN {session'} ELSE {})]
    /\ Sampled(From(TRUE))
    /\ UNCHANGED completedOps

Stop ==
    /\ live' = AfterStop
    /\ timer' = 0 /\ observer' = 0
    /\ UNCHANGED <<session, completedOps, lastOps, reported>>

\* The timer of session s is due.
TimerTicks(s) ==
    /\ s \in live.timers
    /\ Sampled(From(FALSE))
    /\ UNCHANGED <<session, timer, observer, live, completedOps>>

MonNext ==
    \/ Work \/ Start \/ Stop
    \/ \E s \in 1..MaxSessions : TimerTicks(s)
-----------------------------------------------------------------------------
\* One timer and one observer run at most, those stop() can reach: a second
\* start() leaves none of the first behind, nor does one that throws.
\* (start() and stop().)
OneSessionAtATime ==
    /\ live.timers \subseteq {timer} \ {0}
    /\ live.observers \subseteq {observer} \ {0}

\* No operation is reported twice to an onUpdate that returns, over all sessions.
\* (start() keeps lastOps, so what was done while nobody sampled is reported by the
\* next session at most once.)
NoOperationTwice == reported <= lastOps
=============================================================================
