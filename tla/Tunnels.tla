------------------------------- MODULE Tunnels -------------------------------
(***************************************************************************)
(* The ssh tunnels of crates/pickforge-core/src/remote/tunnel.rs.  A call  *)
(* of open owns its ssh child from the spawn to the publication of the     *)
(* tunnel; a watcher thread owns a published one together with close and   *)
(* shutdown.  The gate's condition variable is the subject of StartGate.   *)
(***************************************************************************)
EXTENDS Naturals, FiniteSets

CONSTANTS Open,        \* calls of open, each naming the tunnel it makes
          CloseCall,   \* calls of close, close_all_for_run's included
          MaxAttempts  \* OPEN_ATTEMPTS

VARIABLES
    shutting,     \* the start gate is closed and shutting_down is set
    open,         \* where each open is
    tries,        \* attempts it has made
    ssh,          \* its child: "none", "running", "exited", "reaped"
    provisional,  \* TunnelState.provisional
    entries,      \* TunnelState.entries
    watcher,      \* the tunnel's watcher thread
    told,         \* tunnels whose on_closed has been called
    close,        \* where each close is, and the tunnel it is for
    stop,         \* where shutdown is
    held          \* the children shutdown has drained and not yet killed

openVars  == <<open, tries>>
watchVars == <<watcher, told>>
stopVars  == <<stop, held>>
vars == <<shutting, openVars, ssh, provisional, entries, watchVars, close, stopVars>>

OpenPC == {"idle", "try", "spawned", "probing", "ready", "broken", "publish",
           "reject", "terminate", "watch", "open", "failed", "refused"}

TypeOK ==
    /\ shutting \in BOOLEAN
    /\ open \in [Open -> OpenPC] /\ tries \in [Open -> 0 .. MaxAttempts]
    /\ ssh \in [Open -> {"none", "running", "exited", "reaped"}]
    /\ provisional \subseteq Open /\ entries \subseteq Open
    /\ watcher \in [Open -> {"none", "on", "noticed", "gone"}] /\ told \subseteq Open
    /\ close \in [CloseCall -> [pc : {"idle", "kill", "done", "notFound"}, of : SUBSET Open]]
    /\ stop \in {"idle", "closed", "killing", "killingAll", "done"}
    /\ held \subseteq Open

Init ==
    /\ shutting = FALSE
    /\ open = [o \in Open |-> "idle"] /\ tries = [o \in Open |-> 0]
    /\ ssh = [o \in Open |-> "none"]
    /\ provisional = {} /\ entries = {}
    /\ watcher = [o \in Open |-> "none"] /\ told = {}
    /\ close = [k \in CloseCall |-> [pc |-> "idle", of |-> {}]]
    /\ stop = "idle" /\ held = {}

-----------------------------------------------------------------------------
(* Variants, each a definition below with a plausible bug.                   *)

\* open that publishes without looking at shutting_down under the lock.
PublishBlindly(o) ==
    /\ open[o] = "publish"
    /\ entries' = entries \union {o} /\ open' = [open EXCEPT ![o] = "watch"]
    /\ UNCHANGED <<shutting, tries, ssh, provisional, watchVars, close, stopVars>>

\* A watcher only for a child that is still alive.
WatchAlive(o) ==
    /\ open[o] = "watch"
    /\ watcher' = [watcher EXCEPT ![o] = IF ssh[o] = "running" THEN "on" ELSE @]
    /\ open' = [open EXCEPT ![o] = "open"]
    /\ UNCHANGED <<shutting, tries, ssh, provisional, entries, told, close, stopVars>>

-----------------------------------------------------------------------------
(* open                                                                      *)

Goes(o, pc) == open' = [open EXCEPT ![o] = pc]
Reaped(o) == ssh' = [ssh EXCEPT ![o] = "reaped"]

\* The permit.  On a closed gate: Err(ShuttingDown).
Begin(o) ==
    /\ open[o] = "idle"
    /\ Goes(o, IF shutting THEN "refused" ELSE "try")
    /\ UNCHANGED <<shutting, tries, ssh, provisional, entries, watchVars, close, stopVars>>

\* One attempt: look at shutting_down, reserve a port, spawn ssh.
Try(o) ==
    /\ open[o] = "try"
    /\ IF shutting
       THEN Goes(o, "refused") /\ UNCHANGED <<tries, ssh>>
       ELSE /\ Goes(o, "spawned")
            /\ tries' = [tries EXCEPT ![o] = @ + 1]
            /\ ssh' = [ssh EXCEPT ![o] = "running"]
    /\ UNCHANGED <<shutting, provisional, entries, watchVars, close, stopVars>>

\* The arguments are refused, no port is free, or the spawn fails.
TryFails(o) ==
    /\ open[o] = "try"
    /\ Goes(o, "failed")
    /\ UNCHANGED <<shutting, tries, ssh, provisional, entries, watchVars, close, stopVars>>

Provision(o) ==
    /\ open[o] = "spawned"
    /\ provisional' = provisional \union {o} /\ Goes(o, "probing")
    /\ UNCHANGED <<shutting, tries, ssh, entries, watchVars, close, stopVars>>

\* wait_for_ready: the child was alive and the port answered ...
ProbeOk(o) ==
    /\ open[o] = "probing" /\ ssh[o] = "running"
    /\ Goes(o, "ready")
    /\ UNCHANGED <<shutting, tries, ssh, provisional, entries, watchVars, close, stopVars>>

\* ... or it has exited (try_wait reaps it), or ten seconds have passed.
ProbeFails(o) ==
    /\ open[o] = "probing"
    /\ Goes(o, "broken")
    /\ ssh' = [ssh EXCEPT ![o] = IF @ = "exited" THEN "reaped" ELSE @]
    /\ UNCHANGED <<shutting, tries, provisional, entries, watchVars, close, stopVars>>

Unprovision(o) ==
    /\ open[o] \in {"ready", "broken"}
    /\ provisional' = provisional \ {o}
    /\ Goes(o, IF open[o] = "ready" THEN "publish" ELSE "terminate")
    /\ UNCHANGED <<shutting, tries, ssh, entries, watchVars, close, stopVars>>

\* Under the lock of entries: look at shutting_down again, then insert.
Publish(o) ==
    /\ open[o] = "publish"
    /\ IF shutting
       THEN Goes(o, "reject") /\ UNCHANGED entries
       ELSE Goes(o, "watch") /\ entries' = entries \union {o}
    /\ UNCHANGED <<shutting, tries, ssh, provisional, watchVars, close, stopVars>>

\* terminate_child after a readiness that came too late for the manager.
Reject(o) ==
    /\ open[o] = "reject"
    /\ Reaped(o) /\ Goes(o, "refused")
    /\ UNCHANGED <<shutting, tries, provisional, entries, watchVars, close, stopVars>>

\* terminate_child after a failed attempt, and the next one if any is left.
Terminate(o) ==
    /\ open[o] = "terminate"
    /\ Reaped(o) /\ Goes(o, IF tries[o] < MaxAttempts THEN "try" ELSE "failed")
    /\ UNCHANGED <<shutting, tries, provisional, entries, watchVars, close, stopVars>>

\* watch_child, and open returns the tunnel.
Watch(o) ==
    /\ open[o] = "watch"
    /\ watcher' = [watcher EXCEPT ![o] = "on"] /\ Goes(o, "open")
    /\ UNCHANGED <<shutting, tries, ssh, provisional, entries, told, close, stopVars>>

Permit(o) == open[o] \notin {"idle", "open", "failed", "refused"}

-----------------------------------------------------------------------------
(* The child and its watcher                                                 *)

Exits(o) ==
    /\ ssh[o] = "running"
    /\ ssh' = [ssh EXCEPT ![o] = "exited"]
    /\ UNCHANGED <<shutting, openVars, provisional, entries, watchVars, close, stopVars>>

\* try_wait has a status, whoever ended the child.
Notice(o) ==
    /\ watcher[o] = "on" /\ ssh[o] \in {"exited", "reaped"}
    /\ Reaped(o) /\ watcher' = [watcher EXCEPT ![o] = "noticed"]
    /\ UNCHANGED <<shutting, openVars, provisional, entries, told, close, stopVars>>

\* Whoever takes the entry out decides: only the watcher's own removal calls
\* on_closed.
Report(o) ==
    /\ watcher[o] = "noticed"
    /\ watcher' = [watcher EXCEPT ![o] = "gone"]
    /\ entries' = entries \ {o}
    /\ told' = IF o \in entries THEN told \union {o} ELSE told
    /\ UNCHANGED <<shutting, openVars, ssh, provisional, close, stopVars>>

-----------------------------------------------------------------------------
(* close and shutdown                                                        *)

\* A caller of close has the id that open returned; close_all_for_run finds it
\* as soon as the tunnel is published.
BeginClose(k) ==
    /\ close[k].pc = "idle"
    /\ \E o \in Open :
        /\ open[o] \in {"watch", "open"}
        /\ close' = [close EXCEPT ![k] = [pc |-> IF o \in entries THEN "kill" ELSE "notFound",
                                          of |-> {o}]]
        /\ entries' = entries \ {o}
    /\ UNCHANGED <<shutting, openVars, ssh, provisional, watchVars, stopVars>>

CloseKills(k) ==
    /\ close[k].pc = "kill"
    /\ ssh' = [o \in Open |-> IF o \in close[k].of THEN "reaped" ELSE ssh[o]]
    /\ close' = [close EXCEPT ![k].pc = "done"]
    /\ UNCHANGED <<shutting, openVars, provisional, entries, watchVars, stopVars>>

BeginShutdown ==
    /\ stop = "idle"
    /\ shutting' = TRUE /\ stop' = "closed"
    /\ UNCHANGED <<openVars, ssh, provisional, entries, watchVars, close, held>>

DrainProvisional ==
    /\ stop = "closed"
    /\ held' = provisional /\ provisional' = {} /\ stop' = "killing"
    /\ UNCHANGED <<shutting, openVars, ssh, entries, watchVars, close>>

StopKills(o) ==
    /\ o \in held
    /\ Reaped(o) /\ held' = held \ {o}
    /\ UNCHANGED <<shutting, openVars, provisional, entries, watchVars, close, stop>>

DrainEntries ==
    /\ stop = "killing" /\ held = {}
    /\ held' = entries /\ entries' = {} /\ stop' = "killingAll"
    /\ UNCHANGED <<shutting, openVars, ssh, provisional, watchVars, close>>

\* StartGate::wait.
GateWaits ==
    /\ stop = "killingAll" /\ held = {}
    /\ \A o \in Open : ~Permit(o)
    /\ stop' = "done"
    /\ UNCHANGED <<shutting, openVars, ssh, provisional, entries, watchVars, close, held>>

Opens(o) == \/ Try(o) \/ TryFails(o) \/ Provision(o) \/ ProbeOk(o) \/ ProbeFails(o)
            \/ Unprovision(o) \/ Publish(o) \/ Reject(o) \/ Terminate(o) \/ Watch(o)
Watches(o) == Notice(o) \/ Report(o)
Shuts == DrainProvisional \/ (\E o \in Open : StopKills(o)) \/ DrainEntries \/ GateWaits

\* Every step but the start of shutdown, which the application takes.
Step == \/ \E o \in Open : Begin(o) \/ Opens(o) \/ Exits(o) \/ Watches(o)
        \/ \E k \in CloseCall : BeginClose(k) \/ CloseKills(k)
        \/ Shuts

-----------------------------------------------------------------------------

\* A child nobody is about to kill.
Left(o) == /\ ssh[o] \in {"running", "exited"}
           /\ \A k \in CloseCall : ~(close[k].pc = "kill" /\ o \in close[k].of)

\* What the end of the application relies on.
Quiet == stop = "done" => \A o \in Open : ~Permit(o) /\ ~Left(o) /\ o \notin entries

=============================================================================
