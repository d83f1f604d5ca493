------------------------------ MODULE StartGate ------------------------------
(***************************************************************************)
(* The quiescence gate of crates/pickforge-core/src/process/start_gate.rs. *)
(* Every code path that can create a process (PTY spawn, agent turn,       *)
(* tunnel, emulator, voice session, recoverable terminal) holds a permit   *)
(* from before the process exists until it is registered or rolled back.   *)
(* Shutdown closes the gate and waits on a condition variable until the    *)
(* last permit has been dropped.                                           *)
(*                                                                         *)
(* One step is one critical section of the gate's mutex.  A thread inside  *)
(* Condvar::wait is "asleep"; notify_all, or a spurious wakeup (which the  *)
(* standard library allows), makes it "awake", and it then takes the mutex *)
(* again and re-tests the counter.                                         *)
(***************************************************************************)
EXTENDS Naturals, FiniteSets

CONSTANTS Starter,  \* threads that begin process-producing work
          Closer    \* threads that shut the owner of the gate down

ASSUME StarterAssumption == IsFiniteSet(Starter)

VARIABLES closed,   \* StartGateState.closed
          active,   \* StartGateState.active, a usize
          start,    \* start[s]: "out", or "in" while s holds a StartPermit
          wait      \* wait[c]: where the closing thread c is

gateVars == <<closed, active, start, wait>>

ClosePC == {"idle", "closed", "asleep", "awake", "quiet"}

GateTypeOK ==
    /\ closed \in BOOLEAN
    /\ active \in Nat
    /\ start \in [Starter -> {"out", "in"}]
    /\ wait \in [Closer -> ClosePC]

GateInit ==
    /\ closed = FALSE
    /\ active = 0
    /\ start = [s \in Starter |-> "out"]
    /\ wait = [c \in Closer |-> "idle"]

-----------------------------------------------------------------------------
(* Variants.  Each is the named definition below with a plausible bug; the   *)
(* specification never uses them.  PROJECT.json pairs each with the property *)
(* that catches it.                                                          *)

\* A destructor that does not notify.
DropSilent(s) ==
    /\ start[s] = "in"
    /\ active' = active - 1
    /\ start' = [start EXCEPT ![s] = "out"]
    /\ UNCHANGED <<closed, wait>>

\* wait() that leaves after any wakeup instead of re-testing the counter.
WaitOnce(c) ==
    /\ wait[c] \in {"closed", "awake"}
    /\ wait' = [wait EXCEPT ![c] =
                 IF wait[c] = "awake" \/ active = 0 THEN "quiet" ELSE "asleep"]
    /\ UNCHANGED <<closed, active, start>>

-----------------------------------------------------------------------------

\* StartGate::begin.  On a closed gate it returns Err and changes nothing.
Begin(s) ==
    /\ start[s] = "out"
    /\ ~closed
    /\ active' = active + 1
    /\ start' = [start EXCEPT ![s] = "in"]
    /\ UNCHANGED <<closed, wait>>

\* notify_all wakes every thread asleep on the condition variable.
Notified == [c \in Closer |-> IF wait[c] = "asleep" THEN "awake" ELSE wait[c]]

\* StartPermit::drop.
Drop(s) ==
    /\ start[s] = "in"
    /\ active' = active - 1
    /\ start' = [start EXCEPT ![s] = "out"]
    /\ wait' = IF active' = 0 THEN Notified ELSE wait
    /\ UNCHANGED closed

\* StartGate::close, the first half of most shutdown paths.
Close(c) ==
    /\ wait[c] = "idle"
    /\ closed' = TRUE
    /\ wait' = [wait EXCEPT ![c] = "closed"]
    /\ UNCHANGED <<active, start>>

\* The loop head of wait and close_and_wait: leave when no permit is out,
\* release the mutex and sleep otherwise.
LoopHead == IF active = 0 THEN "quiet" ELSE "asleep"

\* StartGate::wait, the call and every later return of Condvar::wait.
Wait(c) ==
    /\ wait[c] \in {"closed", "awake"}
    /\ wait' = [wait EXCEPT ![c] = LoopHead]
    /\ UNCHANGED <<closed, active, start>>

\* StartGate::close_and_wait: the flag and the first test in one critical
\* section.
CloseAndWait(c) ==
    /\ wait[c] = "idle"
    /\ closed' = TRUE
    /\ wait' = [wait EXCEPT ![c] = LoopHead]
    /\ UNCHANGED <<active, start>>

\* Condvar::wait may return without a notification.
SpuriousWake(c) ==
    /\ wait[c] = "asleep"
    /\ wait' = [wait EXCEPT ![c] = "awake"]
    /\ UNCHANGED <<closed, active, start>>

GateNext ==
    \/ \E s \in Starter : Begin(s) \/ Drop(s)
    \/ \E c \in Closer : Close(c) \/ Wait(c) \/ CloseAndWait(c) \/ SpuriousWake(c)

GateSpec == GateInit /\ [][GateNext]_gateVars

\* Permit holders end their provisional interval, and a runnable closer runs.
\* No fairness is given to spurious wakeups: progress must come from
\* notify_all alone.
GateFairness ==
    /\ \A s \in Starter : WF_gateVars(Drop(s))
    /\ \A c \in Closer : WF_gateVars(Wait(c))

GateFairSpec == GateSpec /\ GateFairness

-----------------------------------------------------------------------------

Holders == {s \in Starter : start[s] = "in"}

\* The counter is the number of live permits: no permit is counted twice or
\* forgotten by begin and the permit's destructor.
CountsPermits == active = Cardinality(Holders)

\* A thread sleeping in wait() has a permit outstanding whose drop will wake
\* it: close, the test and the sleep leave no window for a lost wakeup.
NoLostWakeup == (\E c \in Closer : wait[c] = "asleep") => active # 0

\* Once wait() or close_and_wait() has returned, no thread is inside a
\* provisional interval, and none can be ever again ("strict quiescence",
\* start_gate.rs:5-8).
StrictQuiescence ==
    (\E c \in Closer : wait[c] = "quiet") => closed /\ Holders = {}

\* A closed gate never opens, and from then on permits are only given back.
OnlyDrains == [][closed => closed' /\ active' <= active]_gateVars

\* Every call that closes the gate returns, without help from spurious
\* wakeups, provided that permit holders finish.
CloseReturns == \A c \in Closer : wait[c] # "idle" ~> wait[c] = "quiet"

=============================================================================
