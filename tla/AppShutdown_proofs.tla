-------------------------- MODULE AppShutdown_proofs --------------------------
(***************************************************************************)
(* Theorems about the end of the application, in two parts.  The first is  *)
(* the gate that every owner of processes closes and waits for, StartGate, *)
(* for every finite set of starters and every set of closers.  The second  *)
(* is AppShutdown, for any sets of calls and any number of attempts: the   *)
(* invariant of each owner is proved of its own steps, and the composition *)
(* adds which of them run.                                                 *)
(***************************************************************************)
EXTENDS StartGate, AppShutdown, FiniteSetTheorems, TLAPS

-----------------------------------------------------------------------------
(* The gate                                                                  *)

\* A thread that is past its first step has closed the gate.
ClosersClosed == \A c \in Closer : wait[c] # "idle" => closed

\* The inductive invariant.  CountsPermits turns the counter test of wait()
\* into a statement about permits; ClosersClosed keeps begin from issuing a
\* new one afterwards.
GateInv ==
    /\ GateTypeOK
    /\ CountsPermits
    /\ ClosersClosed
    /\ NoLostWakeup
    /\ StrictQuiescence

-----------------------------------------------------------------------------

\* The holders are a finite set, and none of them exist exactly when the
\* counter is 0.
LEMMA HoldersFacts ==
    ASSUME CountsPermits
    PROVE  /\ IsFiniteSet(Holders)
           /\ active = 0 <=> Holders = {}
<1>1. IsFiniteSet(Holders)
  BY FS_Subset, StarterAssumption DEF StarterAssumption, Holders
<1>2. Cardinality(Holders) = 0 <=> Holders = {}
  BY <1>1, FS_EmptySet
<1> QED
  BY <1>1, <1>2 DEF CountsPermits

\* The gate starts open, with no permit and no closer.
LEMMA GateInitInv == GateInit => GateInv
<1> SUFFICES ASSUME GateInit PROVE GateInv
  OBVIOUS
<1>1. GateTypeOK
  BY DEF GateInit, GateTypeOK, ClosePC
<1>2. Holders = {}
  BY DEF GateInit, Holders
<1>3. CountsPermits
  BY <1>2, FS_EmptySet DEF GateInit, CountsPermits
<1>4. ClosersClosed /\ NoLostWakeup /\ StrictQuiescence
  BY DEF GateInit, ClosersClosed, NoLostWakeup, StrictQuiescence
<1> QED
  BY <1>1, <1>3, <1>4 DEF GateInv

\* begin adds exactly one holder, and only while no closer has run.
LEMMA GateBeginInv ==
    ASSUME GateInv, NEW s \in Starter, Begin(s)
    PROVE  GateInv'
<1> USE DEF GateInv
<1>1. GateTypeOK'
  BY DEF Begin, GateTypeOK
<1>2. Holders' = Holders \union {s} /\ s \notin Holders
  BY DEF Begin, Holders, GateTypeOK
<1>3. CountsPermits'
  BY <1>2, HoldersFacts, FS_AddElement DEF Begin, CountsPermits
<1>4. \A c \in Closer : wait[c] = "idle"
  BY DEF Begin, ClosersClosed
<1>5. (ClosersClosed /\ NoLostWakeup /\ StrictQuiescence)'
  BY <1>4 DEF Begin, ClosersClosed, NoLostWakeup, StrictQuiescence
<1> QED
  BY <1>1, <1>3, <1>5

\* Dropping a permit removes exactly one holder, and the last drop leaves no
\* closer asleep.
LEMMA GateDropInv ==
    ASSUME GateInv, NEW s \in Starter, Drop(s)
    PROVE  GateInv'
<1> USE DEF GateInv
<1>1. Holders' = Holders \ {s} /\ s \in Holders
  BY DEF Drop, Holders, GateTypeOK
<1>2. IsFiniteSet(Holders) /\ Cardinality(Holders) \in Nat
  BY HoldersFacts, FS_CardinalityType
<1>3. Cardinality(Holders) # 0
  BY <1>1, <1>2, FS_EmptySet
<1>4. CountsPermits' /\ active' \in Nat
  BY <1>1, <1>2, <1>3, FS_RemoveElement DEF Drop, CountsPermits
<1>5. /\ wait' \in [Closer -> ClosePC]
      /\ \A c \in Closer : /\ wait'[c] # "idle" => wait[c] # "idle"
                           /\ wait'[c] = "quiet" => wait[c] = "quiet"
                           /\ wait'[c] = "asleep" => active' # 0
  BY DEF Drop, GateTypeOK, ClosePC, Notified
<1>6. GateTypeOK'
  BY <1>4, <1>5 DEF Drop, GateTypeOK
<1>7. ClosersClosed' /\ NoLostWakeup'
  BY <1>5 DEF Drop, ClosersClosed, NoLostWakeup
<1>8. StrictQuiescence'
  BY <1>1, <1>5 DEF Drop, StrictQuiescence
<1> QED
  BY <1>4, <1>6, <1>7, <1>8

\* A step of one closer changes neither the counter nor the holders, leaves
\* the gate closed, and reaches "quiet" only when the counter is 0 and
\* "asleep" only when it is not.
LEMMA GateCloserInv ==
    ASSUME GateInv, NEW c \in Closer,
           Close(c) \/ Wait(c) \/ CloseAndWait(c) \/ SpuriousWake(c)
    PROVE  GateInv'
<1> USE DEF GateInv
<1>1. UNCHANGED <<active, start>> /\ closed' = TRUE
  BY DEF Close, Wait, CloseAndWait, SpuriousWake, ClosersClosed
<1>2. PICK pc \in ClosePC : /\ wait' = [wait EXCEPT ![c] = pc]
                            /\ pc = "quiet" => active = 0
                            /\ pc = "asleep" => active # 0
  BY DEF Close, Wait, CloseAndWait, SpuriousWake, LoopHead, ClosePC
<1>3. \A b \in Closer : wait'[b] = IF b = c THEN pc ELSE wait[b]
  BY <1>2 DEF GateTypeOK
<1>4. Holders' = Holders
  BY <1>1 DEF Holders
<1>5. GateTypeOK' /\ ClosersClosed'
  BY <1>1, <1>2 DEF GateTypeOK, ClosersClosed
<1>6. CountsPermits'
  BY <1>1, <1>4 DEF CountsPermits
<1>7. NoLostWakeup'
  BY <1>1, <1>2, <1>3 DEF NoLostWakeup
<1>8. StrictQuiescence'
  BY <1>1, <1>2, <1>3, <1>4, HoldersFacts DEF StrictQuiescence
<1> QED
  BY <1>5, <1>6, <1>7, <1>8

\* Every step of the gate keeps the invariant.
LEMMA GateNextInv == GateInv /\ [GateNext]_gateVars => GateInv'
<1> SUFFICES ASSUME GateInv, [GateNext]_gateVars PROVE GateInv'
  OBVIOUS
<1>1. CASE UNCHANGED gateVars
  BY <1>1 DEF gateVars, GateInv, GateTypeOK, CountsPermits, ClosersClosed, NoLostWakeup,
              StrictQuiescence, Holders
<1>2. ASSUME NEW s \in Starter, Begin(s) PROVE GateInv'
  BY <1>2, GateBeginInv
<1>3. ASSUME NEW s \in Starter, Drop(s) PROVE GateInv'
  BY <1>3, GateDropInv
<1>4. ASSUME NEW c \in Closer,
             Close(c) \/ Wait(c) \/ CloseAndWait(c) \/ SpuriousWake(c)
      PROVE  GateInv'
  BY <1>4, GateCloserInv
<1> QED
  BY <1>1, <1>2, <1>3, <1>4 DEF GateNext

-----------------------------------------------------------------------------

\* StartGate keeps its inductive invariant, and with it its types.
THEOREM GateInvariant == GateSpec => []GateInv
<1> QED
  BY GateInitInv, GateNextInv, PTL DEF GateSpec

\* begin and the permit's destructor never lose or double a permit.
THEOREM GateCounts == GateSpec => []CountsPermits
<1>1. GateInv => CountsPermits
  BY DEF GateInv
<1> QED
  BY <1>1, GateInvariant, PTL

\* No closer sleeps on a condition nobody will signal (start_gate.rs:47-55).
THEOREM GateNoLostWakeup == GateSpec => []NoLostWakeup
<1>1. GateInv => NoLostWakeup
  BY DEF GateInv
<1> QED
  BY <1>1, GateInvariant, PTL

\* When shutdown's wait returns, no start is in flight and none can begin.
THEOREM GateQuiescence == GateSpec => []StrictQuiescence
<1>1. GateInv => StrictQuiescence
  BY DEF GateInv
<1> QED
  BY <1>1, GateInvariant, PTL

\* A closed gate only drains.
THEOREM GateOnlyDrains == GateSpec => OnlyDrains
<1>1. GateInv /\ [GateNext]_gateVars => [closed => closed' /\ active' <= active]_gateVars
  BY DEF GateInv, GateTypeOK, GateNext, gateVars, Begin, Drop, Close, Wait, CloseAndWait, SpuriousWake
<1> QED
  BY <1>1, GateInvariant, PTL DEF GateSpec, OnlyDrains
-----------------------------------------------------------------------------
(* The tunnels                                                               *)

\* open has the child in its hands.
Holding == {"spawned", "probing", "ready", "broken", "publish", "reject", "terminate"}

\* A child that has not been waited for is one that open, the registry, a
\* close or the shutdown is going to kill.
TunnelOwned ==
    \A o \in Open : ssh[o] \in {"running", "exited"} =>
        \/ open[o] \in Holding
        \/ o \in entries \/ o \in held
        \/ \E k \in CloseCall : close[k].pc = "kill" /\ o \in close[k].of

\* A watcher that gives an entry up has waited for its child.
TunnelWatched ==
    \A o \in Open : /\ watcher[o] # "none" => open[o] = "open"
                    /\ watcher[o] = "noticed" => ssh[o] = "reaped"

\* What shutdown has behind it stays behind it.
TunnelClosing ==
    /\ stop # "idle" <=> shutting
    /\ stop \in {"idle", "closed"} => held = {}
    /\ stop \in {"killingAll", "done"} => entries = {}
    /\ stop = "done" => held = {} /\ \A o \in Open : ~T!Permit(o)

\* An attempt is made only while one is left.
TunnelTries ==
    \A o \in Open : /\ open[o] = "idle" => tries[o] = 0
                    /\ open[o] = "try" => tries[o] < MaxAttempts

TunnelInv == T!TypeOK /\ TunnelTries /\ TunnelOwned /\ TunnelWatched /\ TunnelClosing

USE AttemptsAssumption
    DEF TunnelInv, TunnelTries, TunnelOwned, TunnelWatched, TunnelClosing, Holding,
        T!TypeOK, T!OpenPC, T!Permit, T!Goes, T!Reaped

LEMMA OpenKeeps ==
    ASSUME TunnelInv, NEW o \in Open, T!Begin(o) \/ T!Opens(o)
    PROVE  TunnelInv'
<1>1. CASE T!Begin(o)
  BY <1>1 DEF T!Begin, T!watchVars, T!stopVars
<1>2. CASE T!Try(o)
  BY <1>2 DEF T!Try, T!watchVars, T!stopVars
<1>3. CASE T!TryFails(o)
  BY <1>3 DEF T!TryFails, T!watchVars, T!stopVars
<1>4. CASE T!Provision(o)
  BY <1>4 DEF T!Provision, T!watchVars, T!stopVars
<1>5. CASE T!ProbeOk(o)
  BY <1>5 DEF T!ProbeOk, T!watchVars, T!stopVars
<1>6. CASE T!ProbeFails(o)
  BY <1>6 DEF T!ProbeFails, T!watchVars, T!stopVars
<1>7. CASE T!Unprovision(o)
  BY <1>7 DEF T!Unprovision, T!watchVars, T!stopVars
<1>8. CASE T!Publish(o)
  BY <1>8 DEF T!Publish, T!watchVars, T!stopVars
<1>9. CASE T!Reject(o)
  BY <1>9 DEF T!Reject, T!watchVars, T!stopVars
<1>10. CASE T!Terminate(o)
  BY <1>10 DEF T!Terminate, T!watchVars, T!stopVars
<1>11. CASE T!Watch(o)
  BY <1>11 DEF T!Watch, T!watchVars, T!stopVars
<1>12. QED
  BY <1>1, <1>2, <1>3, <1>4, <1>5, <1>6, <1>7, <1>8, <1>9, <1>10, <1>11 DEF T!Opens

LEMMA ChildKeeps ==
    ASSUME TunnelInv, NEW o \in Open, T!Exits(o) \/ T!Watches(o)
    PROVE  TunnelInv'
<1>1. CASE T!Exits(o)
  BY <1>1 DEF T!Exits, T!openVars, T!watchVars, T!stopVars
<1>2. CASE T!Notice(o)
  BY <1>2 DEF T!Notice, T!openVars, T!stopVars
<1>3. CASE T!Report(o)
  BY <1>3 DEF T!Report, T!openVars, T!stopVars
<1>4. QED
  BY <1>1, <1>2, <1>3 DEF T!Watches

LEMMA CloseKeeps ==
    ASSUME TunnelInv, NEW k \in CloseCall, T!BeginClose(k) \/ T!CloseKills(k)
    PROVE  TunnelInv'
<1>1. CASE T!BeginClose(k)
  BY <1>1 DEF T!BeginClose, T!openVars, T!watchVars, T!stopVars
<1>2. CASE T!CloseKills(k)
  BY <1>2 DEF T!CloseKills, T!openVars, T!watchVars, T!stopVars
<1>3. QED
  BY <1>1, <1>2

LEMMA StopKeeps ==
    ASSUME TunnelInv, T!BeginShutdown \/ T!Shuts
    PROVE  TunnelInv'
<1>1. CASE T!BeginShutdown
  BY <1>1 DEF T!BeginShutdown, T!openVars, T!watchVars
<1>2. CASE T!DrainProvisional
  BY <1>2 DEF T!DrainProvisional, T!openVars, T!watchVars
<1>3. ASSUME NEW o \in Open, T!StopKills(o) PROVE TunnelInv'
  BY <1>3 DEF T!StopKills, T!openVars, T!watchVars
<1>4. CASE T!DrainEntries
  BY <1>4 DEF T!DrainEntries, T!openVars, T!watchVars
<1>5. CASE T!GateWaits
  BY <1>5 DEF T!GateWaits, T!openVars, T!watchVars
<1>6. QED
  BY <1>1, <1>2, <1>3, <1>4, <1>5 DEF T!Shuts

\* A child, once registered or not, is never lost between two registries.
LEMMA TunnelStepKeeps == TunnelInv /\ (T!BeginShutdown \/ T!Step) => TunnelInv'
BY OpenKeeps, ChildKeeps, CloseKeeps, StopKeeps DEF T!Step

LEMMA TunnelQuiet == TunnelInv => T!Quiet
BY DEF T!Quiet, T!Left

-----------------------------------------------------------------------------
(* The emulators                                                             *)

EmulatorOwned ==
    \A l \in Launch : emulator[l] \in {"running", "exited"} =>
        \/ launch[l] \in {"spawned", "rollback"}
        \/ l \in children \/ l \in doomed

EmulatorClosing ==
    /\ halt # "idle" <=> halting
    /\ halt \in {"gate", "killingAll", "done"} => \A l \in Launch : ~E!Permit(l)
    /\ halt \in {"killingAll", "done"} => children = {}
    /\ halt \in {"idle", "closed", "gate", "done"} => doomed = {}

EmulatorInv == E!TypeOK /\ EmulatorOwned /\ EmulatorClosing

USE DEF EmulatorInv, EmulatorOwned, EmulatorClosing, E!TypeOK, E!Permit, E!Goes, E!Reaped

LEMMA LaunchKeeps ==
    ASSUME EmulatorInv, NEW l \in Launch,
           E!Begin(l) \/ E!Launches(l) \/ E!Exits(l) \/ E!Look(l)
    PROVE  EmulatorInv'
<1>1. CASE E!Begin(l)
  BY <1>1 DEF E!Begin, E!haltVars
<1>2. CASE E!Spawn(l)
  BY <1>2 DEF E!Spawn, E!haltVars
<1>3. CASE E!SpawnFails(l)
  BY <1>3 DEF E!SpawnFails, E!haltVars
<1>4. CASE E!Publish(l)
  BY <1>4 DEF E!Publish, E!haltVars
<1>5. CASE E!Rollback(l)
  BY <1>5 DEF E!Rollback, E!haltVars
<1>6. CASE E!Unprovision(l)
  BY <1>6 DEF E!Unprovision, E!haltVars
<1>7. CASE E!Exits(l)
  BY <1>7 DEF E!Exits, E!haltVars
<1>8. CASE E!Look(l)
  BY <1>8 DEF E!Look, E!haltVars
<1>9. QED
  BY <1>1, <1>2, <1>3, <1>4, <1>5, <1>6, <1>7, <1>8 DEF E!Launches

LEMMA HaltKeeps ==
    ASSUME EmulatorInv, E!BeginShutdown \/ E!Shuts
    PROVE  EmulatorInv'
<1>1. CASE E!BeginShutdown
  BY <1>1 DEF E!BeginShutdown
<1>2. CASE E!DrainProvisional
  BY <1>2 DEF E!DrainProvisional
<1>3. ASSUME NEW l \in Launch, E!HaltKills(l) PROVE EmulatorInv'
  BY <1>3 DEF E!HaltKills
<1>4. CASE E!GateWaits
  BY <1>4 DEF E!GateWaits
<1>5. CASE E!DrainChildren
  BY <1>5 DEF E!DrainChildren
<1>6. CASE E!Halted
  BY <1>6 DEF E!Halted
<1>7. QED
  BY <1>1, <1>2, <1>3, <1>4, <1>5, <1>6 DEF E!Shuts

LEMMA EmulatorStepKeeps == EmulatorInv /\ (E!BeginShutdown \/ E!Step) => EmulatorInv'
BY LaunchKeeps, HaltKeeps DEF E!Step

LEMMA EmulatorQuiet == EmulatorInv => E!Quiet
BY DEF E!Quiet

-----------------------------------------------------------------------------
(* The application                                                           *)

IInv == app \in {"runs", "emulators", "tunnels", "done"} /\ TunnelInv /\ EmulatorInv

\* The inductive invariant of the composition: each owner's, since a step of
\* one, or of run_once, is a step of that owner or leaves it alone.
THEOREM ShutdownInvariant == Spec => []IInv
<1>1. Init => IInv
  <2>1. T!Init => TunnelInv
    <3>1. T!Init => T!TypeOK
      <4>1. T!Init => /\ shutting \in BOOLEAN
                      /\ open \in [Open -> T!OpenPC]
                      /\ ssh \in [Open -> {"none", "running", "exited", "reaped"}]
                      /\ provisional \subseteq Open /\ entries \subseteq Open
                      /\ watcher \in [Open -> {"none", "on", "noticed", "gone"}]
                      /\ told \subseteq Open
                      /\ stop \in {"idle", "closed", "killing", "killingAll", "done"}
                      /\ held \subseteq Open
        BY DEF T!Init
      <4>2. T!Init => tries \in [Open -> 0 .. MaxAttempts]
        BY DEF T!Init
      <4>3. T!Init => close \in [CloseCall -> [pc : {"idle", "kill", "done", "notFound"},
                                               of : SUBSET Open]]
        BY DEF T!Init
      <4>4. QED
        BY ONLY <4>1, <4>2, <4>3 DEF T!TypeOK
    <3>2. T!Init => TunnelTries /\ TunnelOwned /\ TunnelWatched /\ TunnelClosing
      BY DEF T!Init
    <3>3. QED
      BY <3>1, <3>2
  <2>2. E!Init => EmulatorInv
    BY DEF E!Init
  <2>3. QED
    BY <2>1, <2>2 DEF Init, IInv
<1>2. IInv /\ [Next]_vars => IInv'
  <2> SUFFICES ASSUME IInv, [Next]_vars PROVE IInv'
    OBVIOUS
  <2> USE DEF IInv
  <2>1. ASSUME UNCHANGED tunnelVars, TunnelInv PROVE TunnelInv'
    BY <2>1 DEF tunnelVars
  <2>2. ASSUME UNCHANGED emulatorVars, EmulatorInv PROVE EmulatorInv'
    BY <2>2 DEF emulatorVars
  <2> HIDE DEF TunnelInv, EmulatorInv
  <2>3. CASE Exit
    BY <2>1, <2>3, EmulatorStepKeeps DEF Exit
  <2>4. CASE NextOwner
    BY <2>2, <2>4, TunnelStepKeeps DEF NextOwner
  <2>5. CASE Exited
    BY <2>1, <2>2, <2>5 DEF Exited
  <2>6. CASE TunnelStep
    BY <2>2, <2>6, TunnelStepKeeps DEF TunnelStep
  <2>7. CASE EmulatorStep
    BY <2>1, <2>7, EmulatorStepKeeps DEF EmulatorStep
  <2>8. CASE UNCHANGED vars
    BY <2>1, <2>2, <2>8 DEF vars
  <2>9. QED
    BY <2>3, <2>4, <2>5, <2>6, <2>7, <2>8 DEF Next
<1>3. QED
  BY <1>1, <1>2, PTL DEF Spec

\* shutdown.rs, run_once: once an owner's shutdown has returned, none of its
\* children is left, whatever open, launch, close or watcher was under way.
THEOREM ShutdownLeavesNothing == Spec => []NothingSurvives
<1>1. IInv => NothingSurvives
  BY TunnelQuiet, EmulatorQuiet DEF IInv, NothingSurvives, TypeOK
<1>2. QED
  BY <1>1, ShutdownInvariant, PTL

=============================================================================
