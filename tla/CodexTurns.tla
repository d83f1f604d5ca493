------------------------------ MODULE CodexTurns ------------------------------
(***************************************************************************)
(* Turns of one chat on the Codex app-server (engine V2): the Codex parts  *)
(* of AgentChatManager (crates/pickforge-core/src/agents/manager.rs) and   *)
(* the client's side of the thread protocol (agents/codex_app.rs).         *)
(*                                                                         *)
(* A turn/start may time out here and be accepted there.  The client keeps *)
(* five maps to tell such an orphan from a turn somebody waits for; send() *)
(* threads and the reader of the server's output work on them without a    *)
(* common lock.  interrupt() and dispose() race with a send() that does    *)
(* not know its turn's id yet.                                             *)
(*                                                                         *)
(* One session, one thread, one client: a send names the turn the server   *)
(* makes of it.  One step is one critical section, one atomic operation or *)
(* one line exchanged with the server, which is external: it keeps the     *)
(* order of its input and runs one turn at a time, as the client assumes   *)
(* ("turns serialize per thread").  The manager's shutdown, and the second *)
(* client that follows a closed one, are outside.                          *)
(***************************************************************************)
EXTENDS Naturals, Sequences, FiniteSets

CONSTANTS Send,        \* send() calls
          Stop,        \* callers of interrupt()
          Dispose,     \* callers of dispose(); one in both sets makes either call
          Serial,      \* a send begins only when no other is in progress
          MaxTimeouts, \* bound: turn/start requests that time out
          NoTurn

ASSUME SendAssumption == /\ Serial \in BOOLEAN
                         /\ MaxTimeouts \in Nat
                         /\ NoTurn \notin Send

Killer == Stop \union Dispose

ASSUME KillerAssumption == IsFiniteSet(Killer)

VARIABLES
    present,    \* the session is in the map
    active,     \* SessionState.active_turn
    handle,     \* handle[s]: ActiveTurn's slot is "none", "held" or "empty"
    turnId,     \* turns whose id the handle has
    pint,       \* turns whose pending_interrupt is armed
    prompts,    \* sends whose user message is in the database
    send,       \* where each send is
    result,     \* what its turn/start came to
    kill,       \* where each interrupt() and dispose() is, and its turn
    armed,      \* the thread is in cancel_pending_turns
    starting,   \* the thread is in starting_turns
    expected,   \* expected_turns
    deferred,   \* deferred_turns
    orphans,    \* cancelled_orphans
    taken,      \* taken[s]: what take_deferred returned to s
    pending,    \* requests with a sender in the pending map
    closing,    \* close_state: "open", "failing", "telling", "closed"
    reader,     \* the reader thread: [pc, line]
    asked,      \* turn/start requests on the server's input
    lines,      \* lines on the server's output
    running,    \* the turn the server runs
    alive,      \* the server process
    fired,      \* fired[s]: turn/interrupt requests of send() and kill()
    swept,      \* turns interrupted as orphans
    timeouts

sessionVars == <<present, active, handle, turnId, pint, prompts>>
callVars == <<send, result, kill, taken, timeouts>>
threadVars == <<armed, starting, expected, deferred, orphans>>
clientVars == <<pending, closing, reader>>
serverVars == <<asked, lines, running, alive>>
sentVars == <<fired, swept>>
vars == <<sessionVars, callVars, threadVars, clientVars, serverVars, sentVars>>

Line == [kind : {"response", "refusal", "started", "completed"}, turn : Send]
NoLine == [kind |-> "none", turn |-> NoTurn]

Before == {"new", "ready", "client", "claimed", "persisted", "armed", "begun", "asks"}
Finishing == {"expect", "clear", "take", "disarm", "sweep"}
Ending == {"present", "publish", "swap", "gone", "unwind", "fail"}
Returned == {"refused", "moved", "ok", "disposed", "failed"}

TypeOK ==
    /\ present \in BOOLEAN /\ armed \in BOOLEAN /\ starting \in BOOLEAN /\ alive \in BOOLEAN
    /\ active \in Send \union {NoTurn} /\ running \in Send \union {NoTurn}
    /\ expected \in Send \union {NoTurn}
    /\ handle \in [Send -> {"none", "held", "empty"}]
    /\ turnId \subseteq Send /\ pint \subseteq Send /\ prompts \subseteq Send
    /\ deferred \subseteq Send /\ orphans \subseteq Send /\ pending \subseteq Send
    /\ swept \subseteq Send
    /\ taken \in [Send -> SUBSET Send]
    /\ send \in [Send -> Before \union {"waiting"} \union Finishing \union Ending \union Returned]
    /\ result \in [Send -> {"none", "ok", "error", "timeout"}]
    /\ kill \in [Killer -> [pc : {"new", "kill", "read", "swap", "reap", "done"},
                            turn : Send \union {NoTurn}, disposes : BOOLEAN]]
    /\ closing \in {"open", "failing", "telling", "closed"}
    /\ reader \in [pc : {"idle", "armed", "expected", "starting", "defer", "disarm",
                         "sweep", "orphan", "event", "clear"},
                   line : Line \union {NoLine}]
    /\ asked \in Seq(Send) /\ lines \in Seq(Line)
    /\ fired \in [Send -> 0 .. Cardinality(Killer)]
    /\ timeouts \in 0 .. MaxTimeouts
    /\ active # NoTurn => present /\ handle[active] = "held"

Init ==
    /\ present = TRUE /\ active = NoTurn
    /\ handle = [s \in Send |-> "none"]
    /\ turnId = {} /\ pint = {} /\ prompts = {}
    /\ send = [s \in Send |-> "new"]
    /\ result = [s \in Send |-> "none"]
    /\ kill = [k \in Killer |-> [pc |-> "new", turn |-> NoTurn, disposes |-> FALSE]]
    /\ armed = FALSE /\ starting = FALSE /\ expected = NoTurn
    /\ deferred = {} /\ orphans = {} /\ taken = [s \in Send |-> {}]
    /\ pending = {} /\ closing = "open" /\ reader = [pc |-> "idle", line |-> NoLine]
    /\ asked = <<>> /\ lines = <<>> /\ running = NoTurn /\ alive = TRUE
    /\ fired = [s \in Send |-> 0] /\ swept = {}
    /\ timeouts = 0

-----------------------------------------------------------------------------
(* Shared by the actions.                                                    *)

Open == closing = "open"                   \* ~is_closed()
To(s, pc) == send' = [send EXCEPT ![s] = pc]
Reads(pc) == reader' = [pc |-> pc, line |-> IF pc = "idle" THEN NoLine ELSE reader.line]

\* clear_active_turn and reap: whatever turn the session has.
ClearAndReap ==
    /\ active' = NoTurn
    /\ handle' = IF active = NoTurn THEN handle ELSE [handle EXCEPT ![active] = "empty"]

\* turn_interrupt of send() or kill().  A closed client refuses it.
Fire(s) == fired' = IF Open THEN [fired EXCEPT ![s] = @ + 1] ELSE fired

\* send_turn_interrupt for orphans: remember them and write the requests.
Sweep(turns) ==
    /\ orphans' = orphans \union turns
    /\ swept' = swept \union turns

-----------------------------------------------------------------------------
(* Variants, each a definition below with a plausible bug.                   *)

\* kill() that does not take the flag back when it fires.
KillSwapKeeps(k) ==
    /\ kill[k].pc = "swap"
    /\ Fire(kill[k].turn)
    /\ kill' = [kill EXCEPT ![k].pc = IF kill[k].disposes THEN "reap" ELSE "done"]
    /\ UNCHANGED <<sessionVars, send, result, taken, timeouts, threadVars, clientVars,
                   serverVars, swept>>

\* A start that timed out is taken for one that failed.
DisarmsAlways(s) == TRUE

\* A failed send that leaves its turn to the events, which may be over.
SendFailsKeeps(s) ==
    /\ send[s] = "fail"
    /\ send' = [send EXCEPT ![s] = "failed"]
    /\ UNCHANGED <<sessionVars, result, kill, taken, timeouts, threadVars, clientVars, serverVars,
                   sentVars>>

-----------------------------------------------------------------------------
(* send(), dispatch_codex_v2_turn                                            *)

sendRest == <<result, kill, taken, timeouts>>

\* send() and snapshot_for_send: an active turn refuses, a missing session too.
SendBegins(s) ==
    /\ send[s] = "new"
    /\ Serial => \A t \in Send : send[t] \in {"new"} \union Returned
    /\ To(s, IF present /\ active = NoTurn THEN "ready" ELSE "refused")
    /\ UNCHANGED <<sessionVars, sendRest, threadVars, clientVars, serverVars, sentVars>>

\* codex_app_client finds the client closed: it is evicted, the turns that
\* refer to it are cleared, and the send goes on with a new client.
SendMoves(s) ==
    /\ send[s] = "ready" /\ ~Open
    /\ ClearAndReap
    /\ To(s, "moved")
    /\ UNCHANGED <<present, turnId, pint, prompts, sendRest, threadVars, clientVars,
                   serverVars, sentVars>>

SendGetsClient(s) ==
    /\ send[s] = "ready" /\ Open
    /\ To(s, "client")
    /\ UNCHANGED <<sessionVars, sendRest, threadVars, clientVars, serverVars, sentVars>>

\* claim_turn.
SendClaims(s) ==
    /\ send[s] = "client"
    /\ IF present /\ active = NoTurn
       THEN /\ active' = s
            /\ handle' = [handle EXCEPT ![s] = "held"]
            /\ To(s, "claimed")
       ELSE To(s, "refused") /\ UNCHANGED <<active, handle>>
    /\ UNCHANGED <<present, turnId, pint, prompts, sendRest, threadVars, clientVars,
                   serverVars, sentVars>>

SendPersists(s) ==
    /\ send[s] = "claimed"
    /\ prompts' = prompts \union {s}
    /\ To(s, "persisted")
    /\ UNCHANGED <<present, active, handle, turnId, pint, sendRest, threadVars, clientVars,
                   serverVars, sentVars>>

\* The database refuses the prompt: abort_send.
SendPersistFails(s) ==
    /\ send[s] = "claimed"
    /\ To(s, "fail")
    /\ UNCHANGED <<sessionVars, sendRest, threadVars, clientVars, serverVars, sentVars>>

\* begin_turn_start: two maps, two locks.
SendArms(s) ==
    /\ send[s] = "persisted"
    /\ armed' = TRUE
    /\ To(s, "armed")
    /\ UNCHANGED <<sessionVars, sendRest, starting, expected, deferred, orphans, clientVars,
                   serverVars, sentVars>>

SendStarts(s) ==
    /\ send[s] = "armed"
    /\ starting' = TRUE
    /\ To(s, "begun")
    /\ UNCHANGED <<sessionVars, sendRest, armed, expected, deferred, orphans, clientVars,
                   serverVars, sentVars>>

\* request("turn/start"): its sender is in the map ...
SendPends(s) ==
    /\ send[s] = "begun"
    /\ pending' = pending \union {s}
    /\ To(s, "asks")
    /\ UNCHANGED <<sessionVars, sendRest, threadVars, closing, reader, serverVars, sentVars>>

\* ... before send_value reads the flag, ...
SendAsks(s) ==
    /\ send[s] = "asks" /\ Open
    /\ asked' = Append(asked, s)
    /\ To(s, "waiting")
    /\ UNCHANGED <<sessionVars, sendRest, threadVars, clientVars, lines, running, alive, sentVars>>

\* ... and taken back when the client is closed.
SendAskFails(s) ==
    /\ send[s] = "asks" /\ ~Open
    /\ pending' = pending \ {s}
    /\ result' = [result EXCEPT ![s] = "error"]
    /\ To(s, "clear")
    /\ UNCHANGED <<sessionVars, kill, taken, timeouts, threadVars, closing, reader, serverVars,
                   sentVars>>

\* recv_timeout: an answer, or a sender that is still waiting for one.
SendHears(s) ==
    /\ send[s] = "waiting" /\ result[s] # "none"
    /\ To(s, IF result[s] = "ok" THEN "expect" ELSE "clear")
    /\ UNCHANGED <<sessionVars, sendRest, threadVars, clientVars, serverVars, sentVars>>

SendTimesOut(s) ==
    /\ send[s] = "waiting" /\ result[s] = "none" /\ timeouts < MaxTimeouts
    /\ timeouts' = timeouts + 1
    /\ pending' = pending \ {s}
    /\ result' = [result EXCEPT ![s] = "timeout"]
    /\ To(s, "clear")
    /\ UNCHANGED <<sessionVars, kill, taken, threadVars, closing, reader, serverVars, sentVars>>

\* finish_turn_start_ok, _timeout and _err, one map after the other.
SendExpects(s) ==
    /\ send[s] = "expect"
    /\ expected' = s
    /\ To(s, "clear")
    /\ UNCHANGED <<sessionVars, sendRest, armed, starting, deferred, orphans, clientVars,
                   serverVars, sentVars>>

SendClearsStarting(s) ==
    /\ send[s] = "clear"
    /\ starting' = FALSE
    /\ To(s, "take")
    /\ UNCHANGED <<sessionVars, sendRest, armed, expected, deferred, orphans, clientVars,
                   serverVars, sentVars>>

\* Only a start that timed out stays armed.
Disarms(s) == result[s] # "timeout"

SendTakes(s) ==
    /\ send[s] = "take"
    /\ taken' = [taken EXCEPT ![s] = IF result[s] = "ok" THEN deferred \ {s} ELSE deferred]
    /\ deferred' = {}
    /\ To(s, IF Disarms(s) THEN "disarm" ELSE "sweep")
    /\ UNCHANGED <<sessionVars, result, kill, timeouts, armed, starting, expected, orphans,
                   clientVars, serverVars, sentVars>>

SendDisarms(s) ==
    /\ send[s] = "disarm"
    /\ armed' = FALSE
    /\ To(s, "sweep")
    /\ UNCHANGED <<sessionVars, sendRest, starting, expected, deferred, orphans, clientVars,
                   serverVars, sentVars>>

\* interrupt_all.
SendSweeps(s) ==
    /\ send[s] = "sweep"
    /\ Sweep(taken[s])
    /\ taken' = [taken EXCEPT ![s] = {}]
    /\ To(s, IF result[s] = "ok" THEN "present" ELSE "unwind")
    /\ UNCHANGED <<sessionVars, result, kill, timeouts, armed, starting, expected, deferred,
                   clientVars, serverVars, fired>>

SendLooks(s) ==
    /\ send[s] = "present"
    /\ To(s, IF present THEN "publish" ELSE "gone")
    /\ UNCHANGED <<sessionVars, sendRest, threadVars, clientVars, serverVars, sentVars>>

SendPublishes(s) ==
    /\ send[s] = "publish"
    /\ turnId' = turnId \union {s}
    /\ To(s, "swap")
    /\ UNCHANGED <<present, active, handle, pint, prompts, sendRest, threadVars, clientVars,
                   serverVars, sentVars>>

\* "swap: exactly one of send()/kill() fires the interrupt."
SendSwaps(s) ==
    /\ send[s] = "swap"
    /\ pint' = pint \ {s}
    /\ IF s \in pint THEN Fire(s) ELSE UNCHANGED fired
    /\ To(s, "ok")
    /\ UNCHANGED <<present, active, handle, turnId, prompts, sendRest, threadVars,
                   clientVars, serverVars, swept>>

\* The session was disposed of during the request.
SendFindsGone(s) ==
    /\ send[s] = "gone"
    /\ pint' = pint \ {s}
    /\ IF s \in pint THEN Fire(s) ELSE UNCHANGED fired
    /\ prompts' = prompts \ {s}
    /\ To(s, "disposed")
    /\ UNCHANGED <<present, active, handle, turnId, sendRest, threadVars, clientVars,
                   serverVars, swept>>

SendRollsBack(s) ==
    /\ send[s] = "unwind"
    /\ prompts' = prompts \ {s}
    /\ To(s, "fail")
    /\ UNCHANGED <<present, active, handle, turnId, pint, sendRest, threadVars, clientVars,
                   serverVars, sentVars>>

SendFails(s) ==
    /\ send[s] = "fail"
    /\ ClearAndReap
    /\ To(s, "failed")
    /\ UNCHANGED <<present, turnId, pint, prompts, sendRest, threadVars, clientVars,
                   serverVars, sentVars>>

SendNext(s) ==
    \/ SendBegins(s) \/ SendMoves(s) \/ SendGetsClient(s) \/ SendClaims(s)
    \/ SendPersists(s) \/ SendPersistFails(s) \/ SendArms(s)
    \/ SendStarts(s) \/ SendPends(s) \/ SendAsks(s) \/ SendAskFails(s)
    \/ SendHears(s) \/ SendTimesOut(s) \/ SendExpects(s) \/ SendClearsStarting(s)
    \/ SendTakes(s) \/ SendDisarms(s)
    \/ SendSweeps(s) \/ SendLooks(s) \/ SendPublishes(s) \/ SendSwaps(s)
    \/ SendFindsGone(s) \/ SendRollsBack(s) \/ SendFails(s)

-----------------------------------------------------------------------------
(* interrupt() and dispose()                                                 *)

killRest == <<send, result, taken, timeouts>>

\* Both read the session's turn; dispose takes the session out with it.
KillReads(k) ==
    /\ kill[k].pc = "new"
    /\ \E disposes \in BOOLEAN :
        /\ k \in (IF disposes THEN Dispose ELSE Stop)
        /\ kill' = [kill EXCEPT ![k] =
                     [pc |-> IF present /\ active # NoTurn THEN "kill" ELSE "done",
                      turn |-> active, disposes |-> disposes]]
        /\ IF disposes
           THEN present' = FALSE /\ active' = NoTurn
           ELSE UNCHANGED <<present, active>>
    /\ UNCHANGED <<handle, turnId, pint, prompts, killRest, threadVars, clientVars,
                   serverVars, sentVars>>

AfterKill(k) == IF kill[k].disposes THEN "reap" ELSE "done"

\* ActiveTurn::kill: arm before reading the id.
KillArms(k) ==
    /\ kill[k].pc = "kill"
    /\ IF handle[kill[k].turn] = "held"
       THEN /\ pint' = pint \union {kill[k].turn}
            /\ kill' = [kill EXCEPT ![k].pc = "read"]
       ELSE /\ kill' = [kill EXCEPT ![k].pc = AfterKill(k)]
            /\ UNCHANGED pint
    /\ UNCHANGED <<present, active, handle, turnId, prompts, killRest, threadVars,
                   clientVars, serverVars, sentVars>>

KillReadsId(k) ==
    /\ kill[k].pc = "read"
    /\ kill' = [kill EXCEPT ![k].pc = IF kill[k].turn \in turnId THEN "swap" ELSE AfterKill(k)]
    /\ UNCHANGED <<sessionVars, killRest, threadVars, clientVars, serverVars, sentVars>>

KillSwaps(k) ==
    /\ kill[k].pc = "swap"
    /\ pint' = pint \ {kill[k].turn}
    /\ IF kill[k].turn \in pint THEN Fire(kill[k].turn) ELSE UNCHANGED fired
    /\ kill' = [kill EXCEPT ![k].pc = AfterKill(k)]
    /\ UNCHANGED <<present, active, handle, turnId, prompts, killRest, threadVars,
                   clientVars, serverVars, swept>>

\* dispose: reap the handle; unsubscribing tells the server to forget a thread
\* whose events have no session any more.
DisposeReaps(k) ==
    /\ kill[k].pc = "reap"
    /\ handle' = [handle EXCEPT ![kill[k].turn] = "empty"]
    /\ kill' = [kill EXCEPT ![k].pc = "done"]
    /\ UNCHANGED <<present, active, turnId, pint, prompts, killRest, threadVars, clientVars,
                   serverVars, sentVars>>

KillNext(k) == \/ KillReads(k) \/ KillArms(k) \/ KillReadsId(k) \/ KillSwaps(k)
               \/ DisposeReaps(k)

-----------------------------------------------------------------------------
(* read_loop                                                                 *)

readRest == <<pending, closing>>
turn == reader.line.turn

\* complete_pending for a response; a notification goes through the checks.
ReadLine ==
    /\ reader.pc = "idle" /\ lines # <<>>
    /\ LET l == Head(lines) IN
        IF l.kind \in {"response", "refusal"}
        THEN /\ result' = IF l.turn \in pending
                          THEN [result EXCEPT ![l.turn] =
                                 IF l.kind = "response" THEN "ok" ELSE "error"]
                          ELSE result
             /\ pending' = pending \ {l.turn}
             /\ UNCHANGED reader
        ELSE /\ reader' = [pc |-> "armed", line |-> l]
             /\ UNCHANGED <<result, pending>>
    /\ lines' = Tail(lines)
    /\ UNCHANGED <<sessionVars, send, kill, taken, timeouts, threadVars, closing, asked,
                   running, alive, sentVars>>

\* interrupt_cancelled_turn: one map after the other.
ReadArmed ==
    /\ reader.pc = "armed"
    /\ Reads(IF armed THEN "expected" ELSE "orphan")
    /\ UNCHANGED <<sessionVars, callVars, threadVars, readRest, serverVars, sentVars>>

ReadExpected ==
    /\ reader.pc = "expected"
    /\ Reads(IF expected = turn THEN "orphan" ELSE "starting")
    /\ UNCHANGED <<sessionVars, callVars, threadVars, readRest, serverVars, sentVars>>

ReadStarting ==
    /\ reader.pc = "starting"
    /\ Reads(IF starting THEN "defer" ELSE "disarm")
    /\ UNCHANGED <<sessionVars, callVars, threadVars, readRest, serverVars, sentVars>>

ReadDefers ==
    /\ reader.pc = "defer"
    /\ deferred' = deferred \union {turn}
    /\ Reads("orphan")
    /\ UNCHANGED <<sessionVars, callVars, armed, starting, expected, orphans, readRest,
                   serverVars, sentVars>>

ReadDisarms ==
    /\ reader.pc = "disarm"
    /\ armed' = FALSE
    /\ Reads("sweep")
    /\ UNCHANGED <<sessionVars, callVars, starting, expected, deferred, orphans, readRest,
                   serverVars, sentVars>>

ReadSweeps ==
    /\ reader.pc = "sweep"
    /\ Sweep({turn})
    /\ Reads("orphan")
    /\ UNCHANGED <<sessionVars, callVars, armed, starting, expected, deferred, readRest,
                   serverVars, fired>>

\* is_cancelled_orphan_line: drop the line, and forget the turn at its end.
ReadOrphan ==
    /\ reader.pc = "orphan"
    /\ Reads(IF turn \in orphans THEN "idle" ELSE "event")
    /\ orphans' = IF reader.line.kind = "completed" THEN orphans \ {turn} ELSE orphans
    /\ UNCHANGED <<sessionVars, callVars, armed, starting, expected, deferred, readRest,
                   serverVars, sentVars>>

\* handle_runner_event: a V2 session without a turn drops the event
\* (runner_event_is_stale, terminal_should_skip); an end goes on.
ReadEvent ==
    /\ reader.pc = "event"
    /\ Reads(IF reader.line.kind = "completed" /\ present /\ active # NoTurn
             THEN "clear" ELSE "idle")
    /\ UNCHANGED <<sessionVars, callVars, threadVars, readRest, serverVars, sentVars>>

\* finish_runner_turn.
ReadClears ==
    /\ reader.pc = "clear"
    /\ ClearAndReap
    /\ Reads("idle")
    /\ UNCHANGED <<present, turnId, pint, prompts, callVars, threadVars, readRest,
                   serverVars, sentVars>>

ReaderNext == \/ ReadLine \/ ReadArmed \/ ReadExpected \/ ReadStarting \/ ReadDefers
              \/ ReadDisarms \/ ReadSweeps \/ ReadOrphan \/ ReadEvent \/ ReadClears

\* close_state, by the reader at the end of the output or by the writer when
\* the input is gone: the flag, ...
Closes ==
    /\ Open /\ ~alive
    /\ closing' = "failing"
    /\ UNCHANGED <<sessionVars, callVars, threadVars, pending, reader, serverVars, sentVars>>

\* ... fail_pending, ...
ClosesPending ==
    /\ closing = "failing"
    /\ result' = [s \in Send |-> IF s \in pending THEN "error" ELSE result[s]]
    /\ pending' = {}
    /\ closing' = "telling"
    /\ UNCHANGED <<sessionVars, send, kill, taken, timeouts, threadVars, reader, serverVars,
                   sentVars>>

\* ... and a failed turn for every session that has one.
ClosesTurns ==
    /\ closing = "telling"
    /\ IF present /\ active # NoTurn THEN ClearAndReap ELSE UNCHANGED <<active, handle>>
    /\ closing' = "closed"
    /\ UNCHANGED <<present, turnId, pint, prompts, callVars, threadVars, pending, reader,
                   serverVars, sentVars>>

CloseNext == Closes \/ ClosesPending \/ ClosesTurns

-----------------------------------------------------------------------------
(* The app-server.                                                           *)

Says(kind, t) == [kind |-> kind, turn |-> t]

\* A start is accepted when no turn runs; the notification and the response
\* come in either order.
ServerAccepts ==
    /\ alive /\ asked # <<>> /\ running = NoTurn
    /\ LET t == Head(asked) IN
        /\ running' = t
        /\ \/ lines' = lines \o <<Says("response", t), Says("started", t)>>
           \/ lines' = lines \o <<Says("started", t), Says("response", t)>>
    /\ asked' = Tail(asked)
    /\ UNCHANGED <<sessionVars, callVars, threadVars, clientVars, alive, sentVars>>

ServerRefuses ==
    /\ alive /\ asked # <<>>
    /\ lines' = Append(lines, Says("refusal", Head(asked)))
    /\ asked' = Tail(asked)
    /\ UNCHANGED <<sessionVars, callVars, threadVars, clientVars, running, alive, sentVars>>

\* A turn ends, interrupted or not.
ServerEndsTurn ==
    /\ alive /\ running # NoTurn
    /\ lines' = Append(lines, Says("completed", running))
    /\ running' = NoTurn
    /\ UNCHANGED <<sessionVars, callVars, threadVars, clientVars, asked, alive, sentVars>>

ServerDies ==
    /\ alive
    /\ alive' = FALSE /\ running' = NoTurn /\ asked' = <<>>
    /\ UNCHANGED <<sessionVars, callVars, threadVars, clientVars, lines, sentVars>>

ServerNext == ServerAccepts \/ ServerRefuses \/ ServerEndsTurn \/ ServerDies

Next ==
    \/ \E s \in Send : SendNext(s)
    \/ \E k \in Killer : KillNext(k)
    \/ ReaderNext \/ CloseNext \/ ServerNext

Spec == Init /\ [][Next]_vars

-----------------------------------------------------------------------------

Killing(k, s) == kill[k].turn = s /\ kill[k].pc \in {"kill", "read", "swap"}

\* interrupt() and send() together: an armed interrupt is fired by exactly one
\* of them.  No turn is interrupted more often than it was asked for, and when
\* a send has returned its turn no flag is left armed behind it.
InterruptFiresOnce ==
    /\ TypeOK
    /\ \A s \in Send :
         fired[s] <= Cardinality({k \in Killer : kill[k].turn = s /\ kill[k].pc # "kill"})
    /\ \A s \in pint : send[s] = "ok" => \E k \in Killer : Killing(k, s)

\* A turn/start that timed out here and was accepted there never runs
\* unwatched: it has been interrupted, or the client is armed to interrupt it,
\* or has put it aside for that.  One flag watches the thread, so this is about
\* sends in series of which no other has timed out.
OrphanIsWatched ==
    \A s \in Send :
        /\ Serial
        /\ running = s /\ result[s] = "timeout"
        /\ \A t \in Send \ {s} : result[t] # "timeout"
        => \/ s \in swept \/ armed \/ s \in deferred \/ (\E t \in Send : s \in taken[t])
           \/ reader.pc \in {"defer", "sweep"} /\ turn = s

\* A client that has closed answers everybody: no send is left to its timeout
\* by a sender added behind fail_pending.
ClosedAnswersAll ==
    closing \in {"telling", "closed"} =>
        \A s \in Send : send[s] = "waiting" => result[s] # "none"

\* A server that died leaves nobody waiting and no chat busy: the closing of the client and the
\* sends that were under way when it began clear, between them, every turn.
DeadServerFreesChat ==
    /\ ClosedAnswersAll
    /\ closing = "closed" /\ (\A s \in Send : send[s] \in {"new"} \union Returned) =>
          active = NoTurn

=============================================================================
