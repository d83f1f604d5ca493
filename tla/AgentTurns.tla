----------------------------- MODULE AgentTurns ------------------------------
(***************************************************************************)
(* Turns of one agent chat under engine V1 (every remote chat, and local   *)
(* chats started with that engine): AgentChatManager of                    *)
(* crates/pickforge-core/src/agents/manager.rs with the one-shot runners   *)
(* of codex_exec.rs and claude_stream.rs.                                  *)
(*                                                                         *)
(* A turn is one process.  send() spawns it and only then installs its     *)
(* handle, so the runner's reader thread may report the end of a turn      *)
(* nobody has claimed yet.  start(), send(), interrupt(), dispose() and    *)
(* shutdown() run on threads of their own; a chat that is disposed and     *)
(* started again keeps its session id, so runners of its earlier life      *)
(* still report to it.                                                     *)
(*                                                                         *)
(* A send names the process it spawns.  One step is one critical section   *)
(* of the session map, one database write, or one call outside both; what  *)
(* a failed send undoes is one step.  Starts of a chat are serialised by a *)
(* guard, which no step here can tell, as each registers in one step.  The *)
(* start permits are a gate as in StartGate.                               *)
(***************************************************************************)
EXTENDS FiniteSets

CONSTANTS Send,      \* send() calls
          Start,     \* start() calls for the chat
          Stop,      \* interrupt() calls
          Dispose,   \* dispose() calls
          Serial,    \* the caller sends only when its last send has returned
          NoTurn     \* no turn

ASSUME SerialAssumption == Serial \in BOOLEAN
ASSUME NoTurnAssumption == NoTurn \notin Send

VARIABLES
    closed,          \* start_gate is closed
    shuttingDown,    \* AgentChatManager.shutting_down
    present,         \* the session is in the map
    active,          \* SessionState.active_turn
    terminalPending, \* SessionState.terminal_pending
    running,         \* agent_sessions.status is "running"
    prompts,         \* sends whose user message is in the database
    send, start, stop, dispose, down,  \* where the calls are
    proc,            \* proc[s]: the runner process and its reader's flags
    reader,          \* reader[s]: where the reader thread is
    hand,            \* hand[s]: the ActiveTurn handle
    hasty            \* history: a send began before the last turn's end was heard

callVars == <<send, start, stop, dispose, down, hasty>>
sessionVars == <<present, active, terminalPending>>
dbVars == <<running, prompts>>
turnVars == <<proc, reader, hand>>
gateVars == <<closed, shuttingDown>>
vars == <<gateVars, sessionVars, dbVars, callVars, turnVars>>

Provisional == {"begun", "cleared", "marked", "persisted", "spawned", "ended",
                "gone", "busy"}
Returned == {"refused", "ok", "rejected", "failed", "endedOk", "goneOk", "busyErr"}

Runner == [life : {"none", "running", "ok", "bad"},
           killed : BOOLEAN,  \* it is to report an interruption
           term : BOOLEAN,    \* terminal_sent
           taken : BOOLEAN]   \* the reader owns the Child

TypeOK ==
    /\ closed \in BOOLEAN /\ shuttingDown \in BOOLEAN
    /\ present \in BOOLEAN /\ terminalPending \in BOOLEAN
    /\ active \in Send \union {NoTurn}
    /\ running \in BOOLEAN
    /\ prompts \in SUBSET Send
    /\ send \in [Send -> {"new"} \union Provisional \union Returned]
    /\ start \in [Start -> {"new", "begun", "failed", "done"}]
    /\ stop \in [Stop -> [pc : {"new", "killing", "done"}, turn : Send \union {NoTurn}]]
    /\ dispose \in [Dispose -> [pc : {"new", "killing", "marking", "done"},
                                turn : Send \union {NoTurn}]]
    /\ down \in [pc : {"new", "closed", "waiting", "stopping", "joining", "done"},
                 turn : Send \union {NoTurn}]
    /\ proc \in [Send -> Runner]
    /\ reader \in [Send -> {"none", "reading", "waiting", "event", "store", "clear",
                            "finished"}]
    /\ hand \in [Send -> {"none", "held", "dropping"}]
    /\ hasty \in BOOLEAN
    /\ active # NoTurn => present /\ send[active] = "ok"

Init ==
    /\ closed = FALSE /\ shuttingDown = FALSE
    /\ present = FALSE /\ active = NoTurn /\ terminalPending = FALSE
    /\ running = FALSE /\ prompts = {}
    /\ send = [s \in Send |-> "new"]
    /\ start = [t \in Start |-> "new"]
    /\ stop = [i \in Stop |-> [pc |-> "new", turn |-> NoTurn]]
    /\ dispose = [d \in Dispose |-> [pc |-> "new", turn |-> NoTurn]]
    /\ down = [pc |-> "new", turn |-> NoTurn]
    /\ proc = [s \in Send |-> [life |-> "none", killed |-> FALSE, term |-> FALSE,
                               taken |-> FALSE]]
    /\ reader = [s \in Send |-> "none"]
    /\ hand = [s \in Send |-> "none"]
    /\ hasty = FALSE

-----------------------------------------------------------------------------
(* Handles.                                                                *)

\* kill() of a runner: note the interruption, and signal the process group
\* unless the reader has taken the Child to wait for it.
Killed(p) ==
    [p EXCEPT !.killed = @ \/ (p.life # "none" /\ ~p.term),
              !.life = IF @ = "running" /\ ~p.taken THEN "bad" ELSE @]

\* ActiveTurn::kill: an empty slot has nothing to kill.
Kill(s) ==
    proc' = IF s # NoTurn /\ hand[s] = "held"
            THEN [proc EXCEPT ![s] = Killed(@)] ELSE proc

\* ActiveTurn::reap: empty the slot and let a thread drop the runner.
Reap(s) ==
    hand' = IF s # NoTurn /\ hand[s] = "held"
            THEN [hand EXCEPT ![s] = "dropping"] ELSE hand

\* Drop of a runner kills it and joins its reader.
DropTurn(s) ==
    /\ hand[s] = "dropping"
    /\ hand' = [hand EXCEPT ![s] = "none"]
    /\ proc' = [proc EXCEPT ![s] = Killed(@)]
    /\ UNCHANGED <<gateVars, sessionVars, dbVars, callVars, reader>>

\* clear_active_turn and reap.
ClearAndReap ==
    /\ active' = NoTurn
    /\ Reap(active)
    /\ UNCHANGED <<present, terminalPending>>

-----------------------------------------------------------------------------
(* start().                                                                *)

startOnly == <<send, stop, dispose, down, hasty>>

StartBegin(t) ==
    /\ start[t] = "new" /\ ~closed
    /\ start' = [start EXCEPT ![t] = "begun"]
    /\ UNCHANGED <<gateVars, sessionVars, dbVars, startOnly, turnVars>>

\* The request is refused, or the database fails.
StartFails(t) ==
    /\ start[t] = "begun"
    /\ start' = [start EXCEPT ![t] = "failed"]
    /\ UNCHANGED <<gateVars, sessionVars, dbVars, startOnly, turnVars>>

\* register_session_state_and_replay: a session that is there keeps its turn.
StartRegister(t) ==
    /\ start[t] = "begun"
    /\ start' = [start EXCEPT ![t] = "done"]
    /\ present' = (present \/ ~shuttingDown)
    /\ UNCHANGED <<gateVars, active, terminalPending, dbVars, startOnly, turnVars>>

-----------------------------------------------------------------------------
(* send().                                                                 *)

SendTo(s, from, to) ==
    /\ send[s] = from
    /\ send' = [send EXCEPT ![s] = to]

otherCalls == <<start, stop, dispose, down, hasty>>

\* The end of the turn has been reported: handle_runner_event calls the sink
\* after it has stored, cleared and reaped.
Heard(s) == proc[s].term /\ reader[s] \notin {"event", "store", "clear"}

\* The caller has nothing more to hear of s.
Over(s) ==
    \/ send[s] \in {"new", "refused", "rejected", "failed", "goneOk", "busyErr"}
    \/ send[s] \in {"ok", "endedOk"} /\ Heard(s)

SendBegin(s) ==
    /\ Serial => \A r \in Send : send[r] \in Returned \union {"new"}
    /\ SendTo(s, "new", IF closed THEN "refused" ELSE "begun")
    /\ hasty' = (hasty \/ \E r \in Send : ~Over(r))
    /\ UNCHANGED <<gateVars, sessionVars, dbVars, start, stop, dispose, down, turnVars>>

\* snapshot_for_send.
SendSnapshot(s) ==
    /\ SendTo(s, "begun", IF present /\ active = NoTurn THEN "cleared" ELSE "rejected")
    /\ UNCHANGED <<gateVars, sessionVars, dbVars, otherCalls, turnVars>>

SendMarks(s) ==
    /\ SendTo(s, "cleared", "marked")
    /\ running' = TRUE
    /\ UNCHANGED <<gateVars, sessionVars, prompts, otherCalls, turnVars>>

SendPersists(s) ==
    /\ SendTo(s, "marked", "persisted")
    /\ prompts' = prompts \union {s}
    /\ UNCHANGED <<gateVars, sessionVars, running, otherCalls, turnVars>>

\* abort_send clears whatever turn the session has.
SendPersistFails(s) ==
    /\ SendTo(s, "marked", "failed")
    /\ running' = FALSE
    /\ ClearAndReap
    /\ UNCHANGED <<gateVars, prompts, otherCalls, proc, reader>>

SendSpawns(s) ==
    /\ SendTo(s, "persisted", "spawned")
    /\ proc' = [proc EXCEPT ![s].life = "running"]
    /\ reader' = [reader EXCEPT ![s] = "reading"]
    /\ hand' = [hand EXCEPT ![s] = "held"]
    /\ UNCHANGED <<gateVars, sessionVars, dbVars, otherCalls>>

SendSpawnFails(s) ==
    /\ SendTo(s, "persisted", "failed")
    /\ prompts' = prompts \ {s} /\ running' = FALSE
    /\ UNCHANGED <<gateVars, sessionVars, otherCalls, turnVars>>

\* Variant of SendClaims: terminal_pending is not taken back.
SendClaimsSticky(s) ==
    /\ SendTo(s, "spawned", IF ~present THEN "gone"
                            ELSE IF terminalPending THEN "ended"
                            ELSE IF active # NoTurn THEN "busy" ELSE "ok")
    /\ active' = IF send'[s] = "ok" THEN s ELSE active
    /\ UNCHANGED <<gateVars, present, terminalPending, dbVars, otherCalls, turnVars>>

\* claim_turn.
SendClaims(s) ==
    /\ SendTo(s, "spawned", IF ~present THEN "gone"
                            ELSE IF terminalPending THEN "ended"
                            ELSE IF active # NoTurn THEN "busy" ELSE "ok")
    /\ active' = IF send'[s] = "ok" THEN s ELSE active
    /\ terminalPending' = (terminalPending /\ send'[s] # "ended")
    /\ UNCHANGED <<gateVars, present, dbVars, otherCalls, turnVars>>

\* Variant of SendUnwinds: only the loser of a race takes its prompt back.
SendUnwindsKeeps(s) ==
    /\ \/ SendTo(s, "ended", "endedOk") \/ SendTo(s, "gone", "goneOk")
       \/ SendTo(s, "busy", "busyErr")
    /\ Kill(s) /\ Reap(s)
    /\ prompts' = IF send[s] = "busy" THEN prompts \ {s} ELSE prompts
    /\ UNCHANGED <<gateVars, sessionVars, running, otherCalls, reader>>

\* A turn that was not installed is killed and reaped.  The prompt goes when
\* another turn is active, or when the session is not there.
SendUnwinds(s) ==
    /\ \/ SendTo(s, "ended", "endedOk") \/ SendTo(s, "gone", "goneOk")
       \/ SendTo(s, "busy", "busyErr")
    /\ Kill(s) /\ Reap(s)
    /\ prompts' = IF send[s] = "busy" \/ ~present THEN prompts \ {s} ELSE prompts
    /\ UNCHANGED <<gateVars, sessionVars, running, otherCalls, reader>>

-----------------------------------------------------------------------------
(* The runner process.                                                     *)

ProcExits(s, code) ==
    /\ proc[s].life = "running"
    /\ proc' = [proc EXCEPT ![s].life = code]
    /\ UNCHANGED <<gateVars, sessionVars, dbVars, callVars, reader, hand>>

-----------------------------------------------------------------------------
(* The reader thread and the sink it calls, handle_runner_event.  What the *)
(* process has written can be read whether it still runs or not.           *)

readerOnly == <<gateVars, callVars, prompts>>

ReaderTo(s, from, to) ==
    /\ reader[s] = from
    /\ reader' = [reader EXCEPT ![s] = to]

\* After a terminal event the reader goes on with its stream.
Resume(s) == IF proc[s].taken THEN "finished" ELSE "reading"

\* The line that ends the turn; dispatch_terminal delivers the first.
ReadsTerminal(s) ==
    /\ ~proc[s].term
    /\ ReaderTo(s, "reading", "event")
    /\ proc' = [proc EXCEPT ![s].term = TRUE]
    /\ UNCHANGED <<readerOnly, sessionVars, running, hand>>

\* The Child is taken out of the handle and waited for.
TakesChild(s) ==
    /\ ReaderTo(s, "reading", "waiting")
    /\ proc' = [proc EXCEPT ![s].taken = TRUE]
    /\ UNCHANGED <<readerOnly, sessionVars, running, hand>>

\* End of file: the process is gone, or has closed its output.
ReadsEof(s) == proc[s].life # "running" /\ TakesChild(s)
ReadsClosed(s) == proc[s].life = "running" /\ TakesChild(s)

\* Variant of Waits: a runner that was killed says nothing.
WaitsSilently(s) ==
    /\ proc[s].life # "running"
    /\ IF ~proc[s].term /\ ~proc[s].killed /\ proc[s].life = "bad"
       THEN /\ ReaderTo(s, "waiting", "event")
            /\ proc' = [proc EXCEPT ![s].term = TRUE, ![s].killed = FALSE]
       ELSE ReaderTo(s, "waiting", "finished") /\ UNCHANGED proc
    /\ UNCHANGED <<readerOnly, sessionVars, running, hand>>

\* The process is reaped.  A clean exit without a terminal line says nothing.
Waits(s) ==
    /\ proc[s].life # "running"
    /\ IF ~proc[s].term /\ (proc[s].killed \/ proc[s].life = "bad")
       THEN /\ ReaderTo(s, "waiting", "event")
            /\ proc' = [proc EXCEPT ![s].term = TRUE, ![s].killed = FALSE]
       ELSE ReaderTo(s, "waiting", "finished") /\ UNCHANGED proc
    /\ UNCHANGED <<readerOnly, sessionVars, running, hand>>

\* Variant of EventChecked: an event no turn was installed for is dropped.
EventCheckedSkips(s) ==
    /\ ReaderTo(s, "event", IF present /\ active # NoTurn THEN "store" ELSE Resume(s))
    /\ UNCHANGED <<readerOnly, sessionVars, running, proc, hand>>

\* runner_event_is_stale and terminal_should_skip.
EventChecked(s) ==
    /\ ReaderTo(s, "event", IF present THEN "store" ELSE Resume(s))
    /\ terminalPending' = (terminalPending \/ (present /\ active = NoTurn))
    /\ UNCHANGED <<readerOnly, present, active, running, proc, hand>>

\* finish_runner_turn: the item and the status ...
EventStored(s) ==
    /\ ReaderTo(s, "store", "clear")
    /\ running' = FALSE
    /\ UNCHANGED <<readerOnly, sessionVars, proc, hand>>

\* Variant of EventClears: the cleared turn is not reaped.
EventClearsForgets(s) ==
    /\ ReaderTo(s, "clear", Resume(s))
    /\ active' = NoTurn
    /\ UNCHANGED <<readerOnly, present, terminalPending, running, proc, hand>>

\* ... and then the turn, whichever it is.
EventClears(s) ==
    /\ ReaderTo(s, "clear", Resume(s))
    /\ ClearAndReap
    /\ UNCHANGED <<readerOnly, running, proc>>

-----------------------------------------------------------------------------
(* interrupt().                                                            *)

stopOnly == <<send, start, dispose, down, hasty>>

StopReads(i) ==
    /\ stop[i].pc = "new" /\ present /\ active # NoTurn
    /\ stop' = [stop EXCEPT ![i] = [pc |-> "killing", turn |-> active]]
    /\ UNCHANGED <<gateVars, sessionVars, dbVars, stopOnly, turnVars>>

StopKills(i) ==
    /\ stop[i].pc = "killing"
    /\ stop' = [stop EXCEPT ![i].pc = "done"]
    /\ Kill(stop[i].turn)
    /\ UNCHANGED <<gateVars, sessionVars, dbVars, stopOnly, reader, hand>>

-----------------------------------------------------------------------------
(* dispose().                                                              *)

disposeOnly == <<send, start, stop, down, hasty>>

DisposeRemoves(d) ==
    /\ dispose[d].pc = "new" /\ present
    /\ dispose' = [dispose EXCEPT ![d] = [pc |-> "killing", turn |-> active]]
    /\ present' = FALSE /\ active' = NoTurn /\ terminalPending' = FALSE
    /\ UNCHANGED <<gateVars, dbVars, disposeOnly, turnVars>>

DisposeKills(d) ==
    /\ dispose[d].pc = "killing"
    /\ dispose' = [dispose EXCEPT ![d].pc = "marking"]
    /\ Kill(dispose[d].turn) /\ Reap(dispose[d].turn)
    /\ UNCHANGED <<gateVars, sessionVars, dbVars, disposeOnly, reader>>

DisposeMarks(d) ==
    /\ dispose[d].pc = "marking"
    /\ dispose' = [dispose EXCEPT ![d].pc = "done"]
    /\ running' = FALSE
    /\ UNCHANGED <<gateVars, sessionVars, prompts, disposeOnly, turnVars>>

-----------------------------------------------------------------------------
(* shutdown().                                                             *)

DownTo(from, to) == down.pc = from /\ down' = [down EXCEPT !.pc = to]

downOnly == <<send, start, stop, dispose, hasty>>

DownCloses ==
    /\ DownTo("new", "closed")
    /\ closed' = TRUE
    /\ UNCHANGED <<shuttingDown, sessionVars, dbVars, downOnly, turnVars>>

DownMarks ==
    /\ DownTo("closed", "waiting")
    /\ shuttingDown' = TRUE
    /\ UNCHANGED <<closed, sessionVars, dbVars, downOnly, turnVars>>

Quiet == /\ \A s \in Send : send[s] \notin Provisional
         /\ \A t \in Start : start[t] # "begun"

\* Variant of DownDrains: it does not wait for the permits.
DownDrainsEarly ==
    /\ down.pc = "waiting"
    /\ down' = [pc |-> IF active = NoTurn THEN "done" ELSE "stopping", turn |-> active]
    /\ present' = FALSE /\ active' = NoTurn /\ terminalPending' = FALSE
    /\ running' = (running /\ ~present)
    /\ UNCHANGED <<gateVars, prompts, downOnly, turnVars>>

\* start_gate.wait, then drain the map.
DownDrains ==
    /\ down.pc = "waiting" /\ Quiet
    /\ down' = [pc |-> IF active = NoTurn THEN "done" ELSE "stopping", turn |-> active]
    /\ present' = FALSE /\ active' = NoTurn /\ terminalPending' = FALSE
    /\ running' = (running /\ ~present)
    /\ UNCHANGED <<gateVars, prompts, downOnly, turnVars>>

\* ActiveTurn::shutdown takes the handle and kills the runner.
DownStops ==
    /\ DownTo("stopping", "joining")
    /\ Kill(down.turn)
    /\ hand' = [hand EXCEPT ![down.turn] = IF @ = "held" THEN "none" ELSE @]
    /\ UNCHANGED <<gateVars, sessionVars, dbVars, downOnly, reader>>

\* The reader is joined, or the 17 seconds are over.
DownJoins ==
    /\ DownTo("joining", "done")
    /\ UNCHANGED <<gateVars, sessionVars, dbVars, downOnly, turnVars>>

-----------------------------------------------------------------------------

SendNext(s) ==
    \/ SendBegin(s) \/ SendSnapshot(s) \/ SendMarks(s) \/ SendPersists(s)
    \/ SendPersistFails(s) \/ SendSpawns(s) \/ SendSpawnFails(s) \/ SendClaims(s)
    \/ SendUnwinds(s)

ProcNext(s) ==
    \/ \E c \in {"ok", "bad"} : ProcExits(s, c)
    \/ ReadsTerminal(s) \/ ReadsClosed(s)

ReaderNext(s) ==
    \/ ReadsEof(s) \/ Waits(s)
    \/ EventChecked(s) \/ EventStored(s) \/ EventClears(s)

DisposeNext(d) == DisposeRemoves(d) \/ DisposeKills(d) \/ DisposeMarks(d)

DownNext == DownCloses \/ DownMarks \/ DownDrains \/ DownStops \/ DownJoins

Next ==
    \/ \E t \in Start : StartBegin(t) \/ StartRegister(t) \/ StartFails(t)
    \/ \E s \in Send : SendNext(s) \/ ProcNext(s) \/ ReaderNext(s) \/ DropTurn(s)
    \/ \E i \in Stop : StopReads(i) \/ StopKills(i)
    \/ \E d \in Dispose : DisposeNext(d)
    \/ DownNext

Spec == Init /\ [][Next]_vars

\* A call that has begun runs on, and so do the threads of a runner.  Nobody
\* has to call, and no process has to exit.
Fairness ==
    /\ \A s \in Send : /\ WF_vars(SendNext(s) /\ send[s] # "new")
                       /\ WF_vars(ReaderNext(s)) /\ WF_vars(DropTurn(s))
    /\ \A t \in Start : WF_vars(StartRegister(t) \/ StartFails(t))
    /\ \A i \in Stop : WF_vars(StopKills(i))
    /\ \A d \in Dispose : WF_vars(DisposeNext(d) /\ dispose[d].pc # "new")
    /\ WF_vars(DownNext /\ down.pc # "new")

FairSpec == Spec /\ Fairness

-----------------------------------------------------------------------------
(* Properties.                                                             *)

\* A runner whose process can still be signalled is always somebody's: it is
\* the session's turn with its handle in place, or a call or a reaper is
\* about to decide over it.
Owner(s) ==
    \/ active = s /\ hand[s] = "held"
    \/ send[s] \in {"spawned", "ended", "gone", "busy"}
    \/ hand[s] = "dropping"
    \/ \E d \in Dispose : dispose[d].pc = "killing" /\ dispose[d].turn = s
    \/ down.pc = "stopping" /\ down.turn = s

Owned == \A s \in Send : proc[s].life = "running" /\ ~proc[s].taken => Owner(s)

\* Once shutdown has drained the map, no session and no send comes back, and
\* every runner that can be signalled is about to be: only a dispose() that
\* was overtaken or a reaper thread may still hold one.
ShutdownIsFinal ==
    down.pc \in {"joining", "done"} =>
        /\ ~present /\ active = NoTurn /\ Quiet
        /\ \A s \in Send : proc[s].life = "running" /\ ~proc[s].taken =>
              \/ hand[s] = "dropping"
              \/ \E d \in Dispose : dispose[d].pc = "killing" /\ dispose[d].turn = s

\* The chat has been registered twice.
Restarted == \E t, u \in Start : t # u /\ start[t] = "done" /\ start[u] = "done"

\* manager.rs:982-984: "A dispatch that fails, or a session disposed
\* mid-flight, rolls these rows back ... so no phantom prompt (or orphan of a
\* deleted chat) survives": of the sends that have returned, only those whose
\* runner has run have a prompt in the database.  (A chat started again between
\* the claim and the rollback keeps one.)
NoPhantomPrompt ==
    ~Restarted =>
        \A s \in prompts : send[s] \in Returned => send[s] \in {"ok", "endedOk"}

\* manager.rs:1394: "Errors with TurnActive if another send won the race": the
\* winner's turn ends by its own terminal event, or with its session.
EndedByOwnTerminal ==
    [][\A s \in Send : active = s /\ active' # s =>
          reader[s] = "clear" \/ ~present']_vars

\* manager.rs:1391-1394: a claim is answered Ok(false) "when a terminal event
\* already fired for this pending send", and with TurnActive "if another send
\* won the race".  To a caller that waits until the end of each turn is
\* reported, as the chat does, neither happens for another send's sake: its
\* send is refused, and its turn is given up, by its own end only.
OwnTerminal ==
    ~hasty /\ ~Restarted =>
        \A s \in Send :
            /\ send[s] \notin {"busy", "busyErr"}
            /\ send[s] = "ended" \/ (send[s] = "ok" /\ present /\ active # s)
                  => proc[s].term

\* manager.rs:133-135: no handle is installed for a dead process, "leaving the
\* session wedged as running": a turn whose process has failed is given up.
FailedTurnEnds ==
    \A s \in Send : active = s /\ proc[s].life = "bad" ~> active # s

\* An interrupted turn is given up, unless its reader has taken the Child, so
\* that kill() has nothing to signal, and the process runs on or ended well.
InterruptEndsTurn ==
    \A i \in Stop, s \in Send :
        stop[i].pc = "killing" /\ stop[i].turn = s
            ~> active # s \/ (proc[s].taken /\ proc[s].life \in {"running", "ok"})

-----------------------------------------------------------------------------
(* The start permits of AgentChatManager implement the gate's own            *)
(* specification.                                                            *)

Call == ({"send"} \X Send) \union ({"start"} \X Start)

\* The calls that hold a permit.
Permits ==
    {c \in Call : IF c[1] = "send" THEN send[c[2]] \in Provisional
                                   ELSE start[c[2]] = "begun"}

Gate == INSTANCE StartGate WITH
    Starter <- Call,
    Closer <- {"shutdown"},
    active <- Cardinality(Permits),
    start <- [c \in Call |-> IF c \in Permits THEN "in" ELSE "out"],
    wait <- [d \in {"shutdown"} |-> CASE down.pc = "new" -> "idle"
                                      [] down.pc \in {"closed", "waiting"} -> "closed"
                                      [] OTHER -> "quiet"]

\* Every step on the permits is one the gate allows.
GateSpec == Gate!GateSpec
=============================================================================
