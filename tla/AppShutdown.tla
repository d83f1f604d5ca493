----------------------------- MODULE AppShutdown -----------------------------
(***************************************************************************)
(* The end of the application, src-tauri/src/shutdown.rs: run_once shuts   *)
(* the owners of processes down one after the other, while the window, the *)
(* commands in flight and the watchers go on.  Two owners are composed     *)
(* here, the emulators and the tunnels, in the order of the code; the      *)
(* others have modules of their own.                                       *)
(***************************************************************************)
EXTENDS Naturals, FiniteSets

CONSTANTS Open, CloseCall, MaxAttempts, Launch

ASSUME AttemptsAssumption == MaxAttempts \in Nat \ {0}

VARIABLES
    app,   \* run_once: "runs", "emulators", "tunnels", "done"
    shutting, open, tries, ssh, provisional, entries, watcher, told, close, stop, held,
    halting, launch, emulator, fresh, children, lookout, halt, doomed

T == INSTANCE Tunnels
E == INSTANCE Emulators

tunnelVars == <<shutting, open, tries, ssh, provisional, entries, watcher, told, close,
                stop, held>>
emulatorVars == <<halting, launch, emulator, fresh, children, lookout, halt, doomed>>
vars == <<app, tunnelVars, emulatorVars>>

TypeOK == app \in {"runs", "emulators", "tunnels", "done"} /\ T!TypeOK /\ E!TypeOK

Init == app = "runs" /\ T!Init /\ E!Init

\* The exit event: DONE is swapped, so that a second one does nothing.
Exit ==
    /\ app = "runs" /\ app' = "emulators"
    /\ E!BeginShutdown /\ UNCHANGED tunnelVars

\* EmulatorManager::shutdown has returned; TunnelManager::shutdown is next.
NextOwner ==
    /\ app = "emulators" /\ halt = "done" /\ app' = "tunnels"
    /\ T!BeginShutdown /\ UNCHANGED emulatorVars

Exited ==
    /\ app = "tunnels" /\ stop = "done" /\ app' = "done"
    /\ UNCHANGED <<tunnelVars, emulatorVars>>

TunnelStep == T!Step /\ UNCHANGED <<app, emulatorVars>>
EmulatorStep == E!Step /\ UNCHANGED <<app, tunnelVars>>

Next == Exit \/ NextOwner \/ Exited \/ TunnelStep \/ EmulatorStep

Spec == Init /\ [][Next]_vars

\* Threads run; a readiness probe gives up after ten seconds; a killed child
\* can be waited for.  Nobody has to call anything, and no child has to exit.
Fairness ==
    /\ WF_vars(NextOwner) /\ WF_vars(Exited)
    /\ WF_vars(T!Shuts /\ UNCHANGED <<app, emulatorVars>>)
    /\ WF_vars(E!Shuts /\ UNCHANGED <<app, tunnelVars>>)
    /\ \A o \in Open : /\ WF_vars(T!Opens(o) /\ UNCHANGED <<app, emulatorVars>>)
                       /\ WF_vars(T!Watches(o) /\ UNCHANGED <<app, emulatorVars>>)
    /\ \A l \in Launch : /\ WF_vars(E!Launches(l) /\ UNCHANGED <<app, tunnelVars>>)
                         /\ WF_vars(E!Look(l) /\ UNCHANGED <<app, tunnelVars>>)
    /\ \A k \in CloseCall : WF_vars(T!CloseKills(k) /\ UNCHANGED <<app, emulatorVars>>)

FairSpec == Spec /\ Fairness

-----------------------------------------------------------------------------

\* Once an owner's shutdown has returned, none of its children is left, whatever
\* open, launch, close or watcher was under way when it began, and none comes
\* after.  A child that a close has taken out is the one exception: no permit
\* covers close, so that shutdown may return before that child is killed.
NothingSurvives == TypeOK /\ T!Quiet /\ E!Quiet

\* A child that ends is noticed: its entry goes, so that no dead tunnel or
\* emulator is listed for good, and the window hears of the end of a tunnel that
\* neither a close nor shutdown has taken out.
ExitIsNoticed ==
    /\ \A o \in Open :
          o \in entries /\ ssh[o] = "exited" ~>
              /\ o \notin entries
              /\ o \in told \/ shutting \/ \E k \in CloseCall : o \in close[k].of
    /\ \A l \in Launch : l \in children /\ emulator[l] = "exited" ~> l \notin children

\* The shutdown of the application returns.
ShutdownReturns == app = "emulators" ~> app = "done"

=============================================================================
