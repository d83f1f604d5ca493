----------------------------- MODULE PtyRegistry -----------------------------
(***************************************************************************)
(* PtyManager of crates/pickforge-core/src/pty/session.rs: the registry of *)
(* live terminals, the threads that race over one session (the spawning    *)
(* call, its reader thread, pty_kill and pty_detach calls from the         *)
(* webview, and shutdown), the child process and the remote lease handle.  *)
(*                                                                         *)
(* A session is named by the spawn call that creates it.  One step is one  *)
(* critical section of the registry mutex, or one blocking call made       *)
(* outside it.  Terminating a process group and reaping the child (TERM,   *)
(* 150 ms, KILL, wait) is one step: the group cannot refuse SIGKILL.       *)
(* Writes and resizes change nothing that is modelled.                     *)
(***************************************************************************)
EXTENDS Naturals, FiniteSets

CONSTANTS Session,  \* spawn calls
          Closer,   \* pty_kill and pty_detach calls
          Downer,   \* shutdown calls
          Kind,     \* the kinds of session that are spawned
          NoSession \* the target of a Closer that has not been called

ASSUME SessionAssumption == IsFiniteSet(Session) /\ NoSession \notin Session
ASSUME KindAssumption == Kind \subseteq {"raw", "client", "remote"}

VARIABLES closed,       \* start_gate: StartGateState.closed
          active,       \* start_gate: StartGateState.active
          shuttingDown, \* PtyManager.shutting_down
          sessions,     \* the keys of PtyManager.sessions
          spawn,        \* spawn[s]: where the spawning call is
          kind,         \* kind[s]: raw shell, dtach/tmux client, leased ssh
          child,        \* child[s]: the process on the slave side
          lease,        \* lease[s]: the RemoteLeaseHandle
          reader,       \* reader[s]: the pty-reader thread
          attached,     \* sessions whose reader_thread handle is stored
          close,        \* close[c]: a kill or detach call and its target
          down,         \* down[d]: where a shutdown call is
          drained       \* drained[d]: sessions drained and not yet reaped

gateVars == <<closed, active>>
sessionVars == <<kind, child, lease, reader, attached>>
callVars == <<spawn, close, down, drained>>
vars == <<closed, active, shuttingDown, sessions, spawn, kind, child, lease,
          reader, attached, close, down, drained>>

SpawnPC == {"idle", "resolving", "spawned", "opened", "rollback", "registered",
            "removed", "attaching", "attached", "ok", "failed", "abandoned"}
ReaderPC == {"none", "reading", "eof", "broken", "reaping", "killing",
             "exiting", "done"}
ClosePC == {"idle", "tearing", "hangup", "joining", "done"}
DownPC == {"idle", "closed", "waiting", "draining", "leases", "reaping",
           "returned"}

\* The spawn call holds a StartPermit.
Provisional == {"resolving", "spawned", "opened", "rollback", "registered",
                "removed", "attaching", "attached"}

TypeOK ==
    /\ closed \in BOOLEAN
    /\ active \in Nat
    /\ shuttingDown \in BOOLEAN
    /\ sessions \in SUBSET Session
    /\ spawn \in [Session -> SpawnPC]
    /\ kind \in [Session -> Kind]
    /\ child \in [Session -> {"none", "live", "exited", "reaped"}]
    /\ lease \in [Session -> {"none", "held", "stopped", "finished"}]
    /\ reader \in [Session -> ReaderPC]
    /\ attached \in SUBSET Session
    /\ close \in [Closer -> [pc : ClosePC, op : {"kill", "detach"},
                             sid : Session \union {NoSession}]]
    /\ down \in [Downer -> DownPC]
    /\ drained \in [Downer -> SUBSET Session]

Init ==
    /\ closed = FALSE
    /\ active = 0
    /\ shuttingDown = FALSE
    /\ sessions = {}
    /\ spawn = [s \in Session |-> "idle"]
    /\ kind \in [Session -> Kind]
    /\ child = [s \in Session |-> "none"]
    /\ lease = [s \in Session |-> "none"]
    /\ reader = [s \in Session |-> "none"]
    /\ attached = {}
    /\ close = [c \in Closer |-> [pc |-> "idle", op |-> "kill", sid |-> NoSession]]
    /\ down = [d \in Downer |-> "idle"]
    /\ drained = [d \in Downer |-> {}]

-----------------------------------------------------------------------------
(* Steps shared by the threads.  Here and below, an operator introduced as *)
(* a variant is the definition after it with a plausible bug; the          *)
(* specification never uses it, and PROJECT.json pairs it with the         *)
(* property that catches it.                                               *)

Goto(s, from, to) ==
    /\ spawn[s] = from
    /\ spawn' = [spawn EXCEPT ![s] = to]

\* Variant of Return: the permit is dropped twice.
ReturnTwice(s, from, to) ==
    /\ Goto(s, from, to)
    /\ active' = active - 2
    /\ UNCHANGED closed

\* The spawn call returns, and its StartPermit is dropped.
Return(s, from, to) ==
    /\ Goto(s, from, to)
    /\ active' = active - 1
    /\ UNCHANGED closed

\* RemoteLeaseHandle::stop and ::finish_natural: the first one wins.
Finalize(s, how) ==
    lease' = [lease EXCEPT ![s] = IF @ = "held" THEN how ELSE @]

\* The child is dead and waited for.
Reap(s) == child' = [child EXCEPT ![s] = "reaped"]

\* teardown_session up to the join: stop the lease, kill the group, reap.
TearDown(s) == Finalize(s, "stopped") /\ Reap(s)

-----------------------------------------------------------------------------
(* PtyManager::spawn.                                                      *)

SpawnBegin(s) ==
    /\ ~closed
    /\ Goto(s, "idle", "resolving")
    /\ active' = active + 1
    /\ lease' = [lease EXCEPT ![s] = IF kind[s] = "remote" THEN "held" ELSE "none"]
    /\ UNCHANGED <<closed, shuttingDown, sessions, kind, child, reader,
                   attached, close, down, drained>>

\* PtyError::ShuttingDown.
SpawnRefused(s) ==
    /\ closed
    /\ Goto(s, "idle", "failed")
    /\ UNCHANGED <<gateVars, shuttingDown, sessions, sessionVars, close, down,
                   drained>>

\* lease.prepare, openpty or spawn_command fails; dropping the handle stops
\* the lease.
PrepareFails(s) ==
    /\ Return(s, "resolving", "failed")
    /\ Finalize(s, "stopped")
    /\ UNCHANGED <<shuttingDown, sessions, kind, child, reader, attached,
                   close, down, drained>>

SpawnChild(s) ==
    /\ Goto(s, "resolving", "spawned")
    /\ child' = [child EXCEPT ![s] = "live"]
    /\ UNCHANGED <<gateVars, shuttingDown, sessions, kind, lease, reader,
                   attached, close, down, drained>>

\* start_heartbeat cannot start its thread: it stops the lease, and spawn
\* kills the child.
HeartbeatFails(s) ==
    /\ kind[s] = "remote"
    /\ Return(s, "spawned", "failed")
    /\ TearDown(s)
    /\ UNCHANGED <<shuttingDown, sessions, kind, reader, attached, close,
                   down, drained>>

\* try_clone_reader or take_writer fails and `?` returns: the lease handle's
\* destructor stops the lease, but nothing signals or waits for the child.
HandlesFail(s) ==
    /\ Return(s, "spawned", "abandoned")
    /\ Finalize(s, "stopped")
    /\ UNCHANGED <<shuttingDown, sessions, kind, child, reader, attached,
                   close, down, drained>>

OpenHandles(s) ==
    /\ Goto(s, "spawned", "opened")
    /\ UNCHANGED <<gateVars, shuttingDown, sessions, sessionVars, close, down,
                   drained>>

\* Insert under the registry lock unless shutdown has begun.
Register(s) ==
    /\ Goto(s, "opened", IF shuttingDown THEN "rollback" ELSE "registered")
    /\ sessions' = IF shuttingDown THEN sessions ELSE sessions \union {s}
    /\ UNCHANGED <<gateVars, shuttingDown, sessionVars, close, down, drained>>

\* PtyError::ShuttingDownAfterSpawn.
Rollback(s) ==
    /\ Return(s, "rollback", "failed")
    /\ TearDown(s)
    /\ UNCHANGED <<shuttingDown, sessions, kind, reader, attached, close,
                   down, drained>>

StartReader(s) ==
    /\ Goto(s, "registered", "attaching")
    /\ reader' = [reader EXCEPT ![s] = "reading"]
    /\ UNCHANGED <<gateVars, shuttingDown, sessions, kind, child, lease,
                   attached, close, down, drained>>

\* The reader thread cannot be created: take the session back out ...
ReaderFails(s) ==
    /\ Goto(s, "registered", IF s \in sessions THEN "removed" ELSE "attached")
    /\ sessions' = sessions \ {s}
    /\ UNCHANGED <<gateVars, shuttingDown, sessionVars, close, down, drained>>

\* ... and stop the lease, kill and reap outside the lock.
Remove(s) ==
    /\ Return(s, "removed", "failed")
    /\ TearDown(s)
    /\ UNCHANGED <<shuttingDown, sessions, kind, reader, attached, close,
                   down, drained>>

\* Store the join handle if the reader has not removed the session yet.
Attach(s) ==
    /\ Goto(s, "attaching", "attached")
    /\ attached' = IF s \in sessions THEN attached \union {s} ELSE attached
    /\ UNCHANGED <<gateVars, shuttingDown, sessions, kind, child, lease,
                   reader, close, down, drained>>

SpawnReturns(s) ==
    /\ Return(s, "attached", "ok")
    /\ UNCHANGED <<shuttingDown, sessions, sessionVars, close, down, drained>>

-----------------------------------------------------------------------------
(* The child, and read_loop on the reader thread.                          *)

\* The shell, the client or ssh ends by itself.
ChildExits(s) ==
    /\ child[s] = "live"
    /\ child' = [child EXCEPT ![s] = "exited"]
    /\ UNCHANGED <<gateVars, shuttingDown, sessions, kind, lease, reader,
                   attached, callVars>>

ReaderStep(s, from, to) ==
    /\ reader[s] = from
    /\ reader' = [reader EXCEPT ![s] = to]

\* read returns 0: the child is gone.
Eof(s) ==
    /\ child[s] \in {"exited", "reaped"}
    /\ ReaderStep(s, "reading", "eof")
    /\ UNCHANGED <<gateVars, shuttingDown, sessions, kind, child, lease,
                   attached, callVars>>

\* A local program may close its terminal and run on (exec with redirected
\* descriptors); ssh does not.
EarlyEof(s) ==
    /\ child[s] = "live"
    /\ kind[s] # "remote"
    /\ ReaderStep(s, "reading", "eof")
    /\ UNCHANGED <<gateVars, shuttingDown, sessions, kind, child, lease,
                   attached, callVars>>

\* read fails, or the sink panics.
ReadBreaks(s) ==
    /\ ReaderStep(s, "reading", "broken")
    /\ UNCHANGED <<gateVars, shuttingDown, sessions, kind, child, lease,
                   attached, callVars>>

\* Variant of ReaderRemoves: the thread ends only through its own teardown.
ReaderInsists(s) ==
    /\ reader[s] \in {"eof", "broken"}
    /\ s \in sessions
    /\ reader' = [reader EXCEPT ![s] = IF @ = "eof" THEN "reaping" ELSE "killing"]
    /\ sessions' = sessions \ {s}
    /\ UNCHANGED <<gateVars, shuttingDown, kind, child, lease, attached,
                   callVars>>

\* Variant of ReaderRemoves: at EOF the session is dropped without a wait.
ReaderForgets(s) ==
    /\ reader[s] \in {"eof", "broken"}
    /\ reader' = [reader EXCEPT ![s] =
                    IF s \in sessions /\ @ = "broken" THEN "killing" ELSE "exiting"]
    /\ sessions' = sessions \ {s}
    /\ UNCHANGED <<gateVars, shuttingDown, kind, child, lease, attached,
                   callVars>>

\* Take the session out of the registry; whoever succeeds owns its teardown.
ReaderRemoves(s) ==
    /\ reader[s] \in {"eof", "broken"}
    /\ reader' = [reader EXCEPT ![s] =
                    CASE s \notin sessions -> "exiting"
                      [] s \in sessions /\ reader[s] = "eof" -> "reaping"
                      [] s \in sessions /\ reader[s] = "broken" -> "killing"]
    /\ sessions' = sessions \ {s}
    /\ UNCHANGED <<gateVars, shuttingDown, kind, child, lease, attached,
                   callVars>>

\* After EOF: finish_natural, then wait for the child.
FinishNatural(s) ==
    /\ reader[s] = "reaping"
    /\ lease[s] = "held"
    /\ Finalize(s, "finished")
    /\ UNCHANGED <<gateVars, shuttingDown, sessions, kind, child, reader,
                   attached, callVars>>

ReaderReaps(s) ==
    /\ lease[s] # "held"
    /\ child[s] = "exited"
    /\ ReaderStep(s, "reaping", "exiting")
    /\ Reap(s)
    /\ UNCHANGED <<gateVars, shuttingDown, sessions, kind, lease, attached,
                   callVars>>

\* After a failure: stop the lease, kill the group, wait.
ReaderKills(s) ==
    /\ ReaderStep(s, "killing", "exiting")
    /\ TearDown(s)
    /\ UNCHANGED <<gateVars, shuttingDown, sessions, kind, attached, callVars>>

\* Emit PtyEvent::Exit and end the thread.
EmitExit(s) ==
    /\ ReaderStep(s, "exiting", "done")
    /\ UNCHANGED <<gateVars, shuttingDown, sessions, kind, child, lease,
                   attached, callVars>>

-----------------------------------------------------------------------------
(* PtyManager::kill and ::detach.  The webview knows an id once spawn has  *)
(* returned it.                                                            *)

\* Variant of CloseCall: the session is looked up, not removed.
CloseCallKeeps(c, s, op) ==
    /\ close[c].pc = "idle"
    /\ spawn[s] = "ok"
    /\ close' = [close EXCEPT ![c] =
         [pc |-> CASE s \notin sessions -> "done"
                   [] s \in sessions /\ op = "detach" /\ kind[s] = "client" -> "hangup"
                   [] OTHER -> "tearing",
          op |-> op, sid |-> s]]
    /\ UNCHANGED <<gateVars, shuttingDown, sessions, sessionVars, spawn, down,
                   drained>>

\* Remove under the lock.  An absent id is Ok; detach of a session that was
\* not spawned detachable is a kill.
CloseCall(c, s, op) ==
    /\ close[c].pc = "idle"
    /\ spawn[s] = "ok"
    /\ close' = [close EXCEPT ![c] =
         [pc |-> CASE s \notin sessions -> "done"
                   [] s \in sessions /\ op = "detach" /\ kind[s] = "client" -> "hangup"
                   [] OTHER -> "tearing",
          op |-> op, sid |-> s]]
    /\ sessions' = sessions \ {s}
    /\ UNCHANGED <<gateVars, shuttingDown, sessionVars, spawn, down, drained>>

CloseStep(c, from, to) ==
    /\ close[c].pc = from
    /\ close' = [close EXCEPT ![c].pc = to]

\* teardown_session.
CloseTearsDown(c) ==
    /\ CloseStep(c, "tearing", "joining")
    /\ TearDown(close[c].sid)
    /\ UNCHANGED <<gateVars, shuttingDown, sessions, kind, reader, attached,
                   spawn, down, drained>>

\* detach of a client: close the master, SIGHUP the client, wait for it.
Hangup(c) ==
    /\ CloseStep(c, "hangup", "joining")
    /\ TearDown(close[c].sid)
    /\ UNCHANGED <<gateVars, shuttingDown, sessions, kind, reader, attached,
                   spawn, down, drained>>

Joined(s) == s \in attached => reader[s] = "done"

CloseReturns(c) ==
    /\ CloseStep(c, "joining", "done")
    /\ Joined(close[c].sid)
    /\ UNCHANGED <<gateVars, shuttingDown, sessions, sessionVars, spawn, down,
                   drained>>

-----------------------------------------------------------------------------
(* PtyManager::shutdown.                                                   *)

DownStep(d, from, to) ==
    /\ down[d] = from
    /\ down' = [down EXCEPT ![d] = to]

\* start_gate.close.
ShutClose(d) ==
    /\ DownStep(d, "idle", "closed")
    /\ closed' = TRUE
    /\ UNCHANGED <<active, shuttingDown, sessions, sessionVars, spawn, close,
                   drained>>

\* shutting_down.store(true).
ShutFlag(d) ==
    /\ DownStep(d, "closed", "waiting")
    /\ shuttingDown' = TRUE
    /\ UNCHANGED <<gateVars, sessions, sessionVars, spawn, close, drained>>

\* Variant of ShutWait: shutdown does not wait for provisional starts.
ShutWaitSkipped(d) ==
    /\ DownStep(d, "waiting", "draining")
    /\ UNCHANGED <<gateVars, shuttingDown, sessions, sessionVars, spawn, close,
                   drained>>

\* start_gate.wait.
ShutWait(d) ==
    /\ active = 0
    /\ DownStep(d, "waiting", "draining")
    /\ UNCHANGED <<gateVars, shuttingDown, sessions, sessionVars, spawn, close,
                   drained>>

\* Drain the registry under its lock.
ShutDrain(d) ==
    /\ DownStep(d, "draining", "leases")
    /\ drained' = [drained EXCEPT ![d] = sessions]
    /\ sessions' = {}
    /\ UNCHANGED <<gateVars, shuttingDown, sessionVars, spawn, close>>

\* stop_remote_leases_bounded over every drained session.
ShutLeases(d) ==
    /\ DownStep(d, "leases", "reaping")
    /\ lease' = [s \in Session |->
                    IF s \in drained[d] /\ lease[s] = "held"
                    THEN "stopped" ELSE lease[s]]
    /\ UNCHANGED <<gateVars, shuttingDown, sessions, kind, child, reader,
                   attached, spawn, close, drained>>

\* teardown_sessions: the pty-shutdown thread of s kills and waits ...
ShutReaps(d, s) ==
    /\ down[d] \in {"reaping", "returned"}
    /\ s \in drained[d]
    /\ child[s] # "reaped"
    /\ Reap(s)
    /\ UNCHANGED <<gateVars, shuttingDown, sessions, kind, lease, reader,
                   attached, callVars>>

\* ... joins the reader and reports.
ShutJoins(d, s) ==
    /\ down[d] \in {"reaping", "returned"}
    /\ s \in drained[d]
    /\ child[s] = "reaped"
    /\ Joined(s)
    /\ drained' = [drained EXCEPT ![d] = @ \ {s}]
    /\ UNCHANGED <<gateVars, shuttingDown, sessions, sessionVars, spawn, close,
                   down>>

\* Everything reported, or PTY_SHUTDOWN_TIMEOUT passed: the call returns the
\* number of sessions still in drained[d].
ShutReturns(d) ==
    /\ DownStep(d, "reaping", "returned")
    /\ UNCHANGED <<gateVars, shuttingDown, sessions, sessionVars, spawn, close,
                   drained>>

-----------------------------------------------------------------------------

SpawnNext(s) ==
    \/ SpawnBegin(s) \/ SpawnRefused(s) \/ PrepareFails(s) \/ SpawnChild(s)
    \/ HeartbeatFails(s) \/ HandlesFail(s) \/ OpenHandles(s) \/ Register(s)
    \/ Rollback(s) \/ StartReader(s) \/ ReaderFails(s) \/ Remove(s)
    \/ Attach(s) \/ SpawnReturns(s)

ReaderNext(s) ==
    \/ Eof(s) \/ ReaderRemoves(s) \/ FinishNatural(s) \/ ReaderReaps(s)
    \/ ReaderKills(s) \/ EmitExit(s)

CloserNext(c) == CloseTearsDown(c) \/ Hangup(c) \/ CloseReturns(c)

DownerNext(d) ==
    \/ ShutClose(d) \/ ShutFlag(d) \/ ShutWait(d) \/ ShutDrain(d)
    \/ ShutLeases(d) \/ ShutReturns(d)
    \/ \E s \in Session : ShutReaps(d, s) \/ ShutJoins(d, s)

Next ==
    \/ \E s \in Session : \/ SpawnNext(s) \/ ReaderNext(s)
                          \/ ChildExits(s) \/ EarlyEof(s) \/ ReadBreaks(s)
    \/ \E c \in Closer : \/ CloserNext(c)
                         \/ \E s \in Session, op \in {"kill", "detach"} :
                                CloseCall(c, s, op)
    \/ \E d \in Downer : DownerNext(d)

Spec == Init /\ [][Next]_vars

\* A running thread proceeds: every wait it makes is for a killed or exited
\* child, for the reader, or bounded by a timeout.  Nothing makes a live
\* child exit, a sink panic, or a caller call.
Fairness ==
    /\ \A s \in Session : /\ WF_vars(spawn[s] # "idle" /\ SpawnNext(s))
                          /\ WF_vars(ReaderNext(s))
    /\ \A c \in Closer : WF_vars(CloserNext(c))
    /\ \A d \in Downer : WF_vars(down[d] # "idle" /\ DownerNext(d))

FairSpec == Spec /\ Fairness

-----------------------------------------------------------------------------
(* Who is responsible for a session's process.                             *)

\* The closer has removed s and not yet reaped it.
Closing(s) == {c \in Closer : close[c].sid = s /\ close[c].pc \in {"tearing", "hangup"}}

Draining(s) == {d \in Downer : s \in drained[d]}

Owners(s) ==
    {o \in {"spawner", "registry", "reader"} :
        \/ o = "spawner" /\ spawn[s] \in {"resolving", "spawned", "opened", "rollback", "removed"}
        \/ o = "registry" /\ s \in sessions
        \/ o = "reader" /\ reader[s] \in {"reaping", "killing"}}
    \union Closing(s) \union Draining(s)

Unreaped(s) == child[s] \in {"live", "exited"}

\* However kill, detach, the reader's EOF and shutdown interleave, at most one
\* of them tears a session down: a child is never signalled or waited for by
\* two threads, which could hit a recycled process id.
SingleOwner == \A s \in Session : Cardinality(Owners(s)) <= 1

\* A process that has not been waited for, or a lease that is still beating,
\* always has a thread or the registry to release it.  The path through
\* HandlesFail is excepted: it leaves a child that nobody owns.
Owned ==
    \A s \in Session :
        (Unreaped(s) \/ lease[s] = "held") =>
            \/ Owners(s) # {}
            \/ spawn[s] = "abandoned" /\ lease[s] # "held"

\* A heartbeat never outlives its ssh client, and finish_natural, which sends
\* no remote stop, is used only for a client that ended by itself.
LeaseFollowsChild ==
    \A s \in Session :
        /\ child[s] = "reaped" => lease[s] # "held"
        /\ lease[s] = "finished" => child[s] \in {"exited", "reaped"}

\* A child and a lease have one owner each as long as they need one, and the
\* lease goes with its child.
OneOwner == TypeOK /\ SingleOwner /\ Owned /\ LeaseFollowsChild

\* Once shutdown has returned the registry is empty and no spawn call is in
\* its provisional interval; a process not yet reaped is one this shutdown
\* reports, or one that a reader or an earlier kill or detach had already
\* removed.
ShutdownIsFinal ==
    (\E d \in Downer : down[d] = "returned") =>
        /\ sessions = {}
        /\ \A s \in Session :
              /\ spawn[s] \notin Provisional
              /\ Unreaped(s) /\ spawn[s] # "abandoned" =>
                    \/ Draining(s) # {}
                    \/ Closing(s) # {}
                    \/ reader[s] \in {"reaping", "killing"}

\* A kill or detach call returns, since joining the reader cannot deadlock with
\* the reader taking the registry lock; and shutdown returns, whatever spawns and
\* kills it meets.
CallsReturn ==
    /\ \A c \in Closer : close[c].pc \in {"tearing", "hangup"} ~> close[c].pc = "done"
    /\ \A d \in Downer : down[d] = "closed" ~> down[d] = "returned"

\* A child that exits is eventually waited for, whichever thread ends up
\* owning it (HandlesFail excepted, as above).
ExitedIsReaped ==
    \A s \in Session :
        child[s] = "exited" ~> child[s] = "reaped" \/ spawn[s] = "abandoned"

-----------------------------------------------------------------------------
(* The start permits of PtyManager implement the gate's own specification. *)

Gate == INSTANCE StartGate WITH
    Starter <- Session,
    Closer <- Downer,
    start <- [s \in Session |-> IF spawn[s] \in Provisional THEN "in" ELSE "out"],
    wait <- [d \in Downer |-> CASE down[d] = "idle" -> "idle"
                                [] down[d] \in {"closed", "waiting"} -> "closed"
                                [] OTHER -> "quiet"]

\* Every step on the permits is one the gate allows.
GateSpec == Gate!GateSpec
=============================================================================
