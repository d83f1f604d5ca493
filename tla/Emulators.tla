------------------------------ MODULE Emulators ------------------------------
(***************************************************************************)
(* EmulatorManager of crates/pickforge-core/src/android/emulator.rs: the   *)
(* emulators the application has launched, each a process group with a     *)
(* watcher thread.  Unlike the tunnels, the child is spawned under the     *)
(* lock of the provisional registry, is in both registries for a while,    *)
(* and shutdown waits for the gate before it drains the second one.        *)
(***************************************************************************)
EXTENDS Naturals, FiniteSets

CONSTANT Launch   \* calls of launch_avd, each naming the child it makes

VARIABLES
    halting,    \* the start gate is closed and shutting_down is set
    launch,     \* where each launch is
    emulator,   \* its child: "none", "running", "exited", "reaped"
    fresh,      \* EmulatorState.provisional
    children,   \* EmulatorState.children
    lookout,    \* the child's watcher thread
    halt,       \* where shutdown is
    doomed      \* the children shutdown has drained and not yet killed

haltVars == <<halt, doomed>>
vars == <<halting, launch, emulator, fresh, children, lookout, haltVars>>

TypeOK ==
    /\ halting \in BOOLEAN
    /\ launch \in [Launch -> {"idle", "permit", "spawned", "rollback", "published",
                              "done", "refused"}]
    /\ emulator \in [Launch -> {"none", "running", "exited", "reaped"}]
    /\ fresh \subseteq Launch /\ children \subseteq Launch
    /\ lookout \in [Launch -> {"none", "on", "gone"}]
    /\ halt \in {"idle", "closed", "killing", "gate", "killingAll", "done"}
    /\ doomed \subseteq Launch

Init ==
    /\ halting = FALSE
    /\ launch = [l \in Launch |-> "idle"]
    /\ emulator = [l \in Launch |-> "none"]
    /\ fresh = {} /\ children = {}
    /\ lookout = [l \in Launch |-> "none"]
    /\ halt = "idle" /\ doomed = {}

-----------------------------------------------------------------------------
(* Variants, each a definition below with a plausible bug.                   *)

\* A permit that is lost on the way out of a refused launch.
PermitLeaks(l) == launch[l] \in {"permit", "spawned", "rollback", "published", "refused"}

-----------------------------------------------------------------------------
(* spawn_owned                                                               *)

Goes(l, pc) == launch' = [launch EXCEPT ![l] = pc]
Reaped(l) == emulator' = [emulator EXCEPT ![l] = "reaped"]

Begin(l) ==
    /\ launch[l] = "idle"
    /\ Goes(l, IF halting THEN "refused" ELSE "permit")
    /\ UNCHANGED <<halting, emulator, fresh, children, lookout, haltVars>>

\* Under the lock of the provisional registry: look at shutting_down, spawn,
\* insert.
Spawn(l) ==
    /\ launch[l] = "permit" /\ ~halting
    /\ emulator' = [emulator EXCEPT ![l] = "running"]
    /\ fresh' = fresh \union {l} /\ Goes(l, "spawned")
    /\ UNCHANGED <<halting, children, lookout, haltVars>>

\* Shutdown has begun, or the binary does not start.
SpawnFails(l) ==
    /\ launch[l] = "permit"
    /\ Goes(l, "refused")
    /\ UNCHANGED <<halting, emulator, fresh, children, lookout, haltVars>>

\* Under the lock of children: look again, then insert.
Publish(l) ==
    /\ launch[l] = "spawned"
    /\ IF halting
       THEN Goes(l, "rollback") /\ UNCHANGED children
       ELSE Goes(l, "published") /\ children' = children \union {l}
    /\ UNCHANGED <<halting, emulator, fresh, lookout, haltVars>>

Rollback(l) ==
    /\ launch[l] = "rollback"
    /\ fresh' = fresh \ {l} /\ Reaped(l) /\ Goes(l, "refused")
    /\ UNCHANGED <<halting, children, lookout, haltVars>>

\* Out of the provisional registry, and watch_child.
Unprovision(l) ==
    /\ launch[l] = "published"
    /\ fresh' = fresh \ {l}
    /\ lookout' = [lookout EXCEPT ![l] = "on"] /\ Goes(l, "done")
    /\ UNCHANGED <<halting, emulator, children, haltVars>>

Permit(l) == launch[l] \in {"permit", "spawned", "rollback", "published"}

Exits(l) ==
    /\ emulator[l] = "running"
    /\ emulator' = [emulator EXCEPT ![l] = "exited"]
    /\ UNCHANGED <<halting, launch, fresh, children, lookout, haltVars>>

\* One round of the watcher, under the lock of children.
Look(l) ==
    /\ lookout[l] = "on"
    /\ l \notin children \/ emulator[l] \in {"exited", "reaped"}
    /\ lookout' = [lookout EXCEPT ![l] = "gone"]
    /\ IF l \in children THEN children' = children \ {l} /\ Reaped(l)
                         ELSE UNCHANGED <<children, emulator>>
    /\ UNCHANGED <<halting, launch, fresh, haltVars>>

-----------------------------------------------------------------------------
(* shutdown                                                                  *)

BeginShutdown ==
    /\ halt = "idle"
    /\ halting' = TRUE /\ halt' = "closed"
    /\ UNCHANGED <<launch, emulator, fresh, children, lookout, doomed>>

DrainProvisional ==
    /\ halt = "closed"
    /\ doomed' = fresh /\ fresh' = {} /\ halt' = "killing"
    /\ UNCHANGED <<halting, launch, emulator, children, lookout>>

\* kill_owned_child_now.
HaltKills(l) ==
    /\ l \in doomed /\ halt \in {"killing", "killingAll"}
    /\ Reaped(l) /\ doomed' = doomed \ {l}
    /\ UNCHANGED <<halting, launch, fresh, children, lookout, halt>>

\* StartGate::wait, before the published children are drained.
GateWaits ==
    /\ halt = "killing" /\ doomed = {}
    /\ \A l \in Launch : ~Permit(l)
    /\ halt' = "gate"
    /\ UNCHANGED <<halting, launch, emulator, fresh, children, lookout, doomed>>

\* SIGTERM to the groups and two seconds of grace, in which they may exit.
DrainChildren ==
    /\ halt = "gate"
    /\ doomed' = children /\ children' = {} /\ halt' = "killingAll"
    /\ UNCHANGED <<halting, launch, emulator, fresh, lookout>>

Halted ==
    /\ halt = "killingAll" /\ doomed = {}
    /\ halt' = "done"
    /\ UNCHANGED <<halting, launch, emulator, fresh, children, lookout, doomed>>

Launches(l) == Spawn(l) \/ SpawnFails(l) \/ Publish(l) \/ Rollback(l) \/ Unprovision(l)
Shuts == \/ DrainProvisional \/ (\E l \in Launch : HaltKills(l)) \/ GateWaits
         \/ DrainChildren \/ Halted

\* Every step but the start of shutdown, which the application takes.
Step == \/ \E l \in Launch : Begin(l) \/ Launches(l) \/ Exits(l) \/ Look(l)
        \/ Shuts

-----------------------------------------------------------------------------

\* What the end of the application relies on.
Quiet == halt = "done" => \A l \in Launch :
            ~Permit(l) /\ emulator[l] \notin {"running", "exited"} /\ l \notin children

=============================================================================
