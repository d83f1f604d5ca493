# PickForge IDE in TLA+

PickForge IDE is a desktop application: a Rust core (`crates/pickforge-core`), a
Tauri shell (`src-tauri`) and a SolidJS frontend (`src`). It runs shells, coding
agents, emulators, remote processes and voice recordings on behalf of one user.
Most of what can go wrong in it is a race over the ownership of a process or
over the right to change a conversation. This directory models those parts,
checks them with TLC and proves some of the results with TLAPS.

Paths below are relative to the repository's root. `manager.rs` is
`crates/pickforge-core/src/agents/manager.rs`, `session.rs` is
`crates/pickforge-core/src/pty/session.rs`, `lease.rs` is
`crates/pickforge-core/src/remote/lease.rs`, and `agentChat.ts` is
`src/stores/agentChat.ts`.

    StartGate.tla          the gate in front of every spawn
    PtyRegistry.tla        terminals: spawns, readers, kills, shutdown
    RemoteLease.tla        a leased process on a remote host
    AgentTurns.tla         turns of an agent chat
    CodexTurns.tla         turns of a chat on the Codex app-server
    AgentQueue.tla         the message queue of a chat in the frontend
    CorrelatedWs.tla       the WebSocket client with its two tasks
    VoiceSessions.tla      a voice session and the calls that race for it
    Tunnels.tla            ssh tunnels,
    Emulators.tla          Android emulators, and
    AppShutdown.tla        the end of the application, which stops both
    SettingsSync.tla       settings of one account on several machines
    *_proofs.tla           theorems about the module they are named for
    MC*.tla, *.cfg         instances for TLC

A module and its instance are checked with `tlc -config PtyRegistry.cfg
MCPtyRegistry`; a proof module with `tlapm PtyRegistry_proofs.tla`.

## 1. Inventory

### Modelled

**Start gate** (`process/start_gate.rs`). State: a mutex with `closed` and the
number `active` of live permits, and a condition variable. Operations: `begin`
(a permit, unless closed), the permit's destructor, `close`, `wait`,
`close_and_wait`. Used by the PTY manager, the recoverable sessions, the agent
chat manager, the emulators, voice sessions and tunnels. Hard: a closer
must not sleep past the last drop; a permit must span everything between the
creation of a child and its registration. Correct when a returned wait means
that no start is in flight and none can begin.

**PTY registry** (`pty/session.rs`). State: the map `sessions` of live
terminals, `shutting_down`, the start gate, and for each session a child, a
writer, a reader thread, and possibly a remote lease. Operations: `spawn`,
`pty_kill`, `pty_detach`, the reader thread's end of file, `shutdown`. Hard:
every one of the last four may remove and tear down one session; a spawn may
overtake a shutdown; a teardown joins the reader, which wants the registry's
lock; six steps of a spawn may fail. Correct when a process has one owner at any
time, none is forgotten, and nothing starts behind a finished shutdown.

**Remote lease** (`remote/lease.rs`). State: on the desktop a handle and its
heartbeat thread; on the remote host a directory with `state.json`,
`state.lock`, a FIFO and a liveness file, a Python supervisor, a watchdog and the
payload's process group. Operations: prepare, launch, beat, stop, expire, clean
up. Hard: four kinds of process rewrite one file under a lock whose file one
of them unlinks; ssh commands are lost, late, or overtake each other; the
supervisor may be killed. Correct when a stop and an expiry take effect on
whatever runs, and are not undone.

**Agent chat manager, engine V1** (`agents/manager.rs`, `codex_exec.rs`,
`claude_stream.rs`). State: the session map with `active_turn` and
`terminal_pending`, the rows of the database, one process and one reader thread
per turn. Operations: `start`, `send`, `interrupt`, `dispose`, `shutdown`, the
runner's terminal event. Hard: a process is spawned before its turn is
installed, so it may end first; the end of a turn does not name the turn; a
session that is disposed and restarted keeps its id. Correct when no runner is
without an owner, and a turn ends by its own end.

**Agent chat store, message queue** (`src/stores/agentChat.ts`). State: per
chat the session id, `turnActive`, the queue, `queueHeld`, the drain under way and
the generation. Operations: send, queue, follow up, remove, clear, send a held
queue, interrupt; the answers and events of the backend. Hard: events and
answers arrive in any order between the awaits of a handler. Correct when no
text is lost or sent twice and the chat does not stay busy or waiting for ever.

**Codex app-server turns, engine V2** (`agents/codex_app.rs` and the Codex parts
of `manager.rs`). State: one child per project, requests in flight by id, five
maps that tell a thread's own turn from an orphan, and in the manager a turn
handle whose id arrives after the turn. Operations: `send`, `interrupt`,
`dispose`, the reader of the server's output, the closing of the client. Hard: a
`turn/start` that times out here may be accepted there (manager.rs:1116); `kill`
and `send` race for the turn id (manager.rs:2368); the client closes in three
steps. Correct when exactly one of `kill` and `send` interrupts, no orphan runs
unwatched, and a dead server leaves nobody waiting.

**Correlated WebSocket client** (`correlated_ws.rs`, used by `cdp.rs` and
`vm_service.rs`). State: one connection slot with a generation, its pending
requests, a reader and a writer task. Operations: connect, request, disconnect,
`clear_generation`. Hard: a handshake that is overtaken, the tasks of a
replaced connection, requests in flight. Correct when only the latest generation
is in the slot, no old task ends a new connection, and every request comes back.

**Voice sessions** (`voice/session.rs`, with the recorder, segmenter and
transcriber). State: a provisional and a ready registry, a control channel and a
completion per session, the slot of the running transcription. Operations: start,
stop, cancel, shutdown, each with a timeout, against a runner thread. Hard: a
cancel that comes between the start of a transcription and its way into the
slot, a transcription that hangs. Correct when a cancelled session ends, every
call returns, and no runner escapes shutdown.

**Remote tunnels** (`remote/tunnel.rs`). State: provisional and ready
registries of ssh children, a watcher per tunnel. Operations: open with three
attempts, close, shutdown. Correct when no tunnel outlives the application and
an ended one is noticed.

**Android emulators** (`android/emulator.rs`). State: as for tunnels, but an
emulator is in both registries for a while, and shutdown waits for the gate
between the two drains. Correct on the same terms.

**Application shutdown** (`src-tauri/src/shutdown.rs`). `run_once` runs once
(`DONE.swap`) and shuts down, in this order, the agent manager, the gate of the
recoverable sessions, the PTY manager, the recoverable sessions themselves,
emulators, voice, tunnels, mirrors and logs. Correct when it returns and each
owner has then nothing left. The emulators and the tunnels are composed with it;
the others' shutdowns are modelled with their managers.

**Settings sync** (`src/stores/settingsSyncStore.ts`, `src/lib/settingsSync.ts`,
`settingsSyncEdits.ts`). State: per group of settings a value, the time of
its last edit, and what was last synced; one run at a time, groups waiting for
the next run; the account's rows on the server. Operations: edits, switches of
the groups and of the sync, sign-in and sign-out, a run's pull, adoption and
push. Hard: edits while an answer is awaited, answers that are lost, requests
during a run. Correct when the last writer wins, a machine that takes itself for
synced is, and no request is dropped.

### Not modelled

**Other provider clients** (`claude_bridge.rs`, `omp_acp.rs`, `pi_rpc.rs`,
`remote_exec.rs`). They differ from `codex_app.rs` in wire format more than in
protocol; their turns are installed before their prompt is sent, as Codex turns
are. Approvals and steering are not modelled for any provider.

**Recoverable shell sessions** (`pty/sessions.rs`). State: dtach and tmux
masters that survive the application, found by scanning the process table; a
start gate of its own. Operations: wrap a spawn, list, kill one, kill all at
exit. The scan has no state of its own; the gate is `StartGate`.

**Crash containment** (`process/containment.rs`). State: a guardian process
that holds the read end of a pipe and the identities registered over it. On end
of file it kills what is registered. Hard: the instant between a spawn and its
registration, which the code names as a gap. Off unless an environment variable
turns it on.

**Process runner** (`process/runner.rs`, `binary_detector.rs`,
`shell_env.rs`, `argv.rs`, `askpass.rs`, `process/mod.rs`). Blocking helpers
over one child each: spawn in a group, wait with a timeout, terminate the
group. No state outlives a call.

**Tauri commands** (`src-tauri/src`). Adapters; blocking ones run on threads of
their own, which is why calls overlap in every module here.

**Remote server, authentication, health, daemon** (`remote/server.rs`,
`auth.rs`, `health.rs`, `daemon.rs`, `ssh.rs`, `pickforged`). State: the
listener, the pairing codes and clients in a file under a lock. Every request is
a transaction of its own. Correct when a pairing code is used once.

**Database** (`db/`). SQLite behind one lock, one transaction per call. The
models hold the columns that matter to them (`running`, `prompts` in
AgentTurns) and change them in one step.

**Change sets and git** (`changes/`, `git/`). Parsing of git's output and
folding of a turn's events into change sets: functions over text.

**Transcripts and storage** (`transcript/`, `storage/`). Recording, replaying,
and files under the application's home directory.

**MCP** (`mcp/`, `pickforge-mcp`). Configuration files and a stateless bridge.

**Operator** (`operator/`, `src/stores/operator.ts`). Classifies a spoken or
typed intent and sends it to a chat. Its sends are the sends at any time of
AgentQueue.

**Other devices** (`android/` but for the emulators, `ios/`, `targets/`, `cdp.rs`,
`vm_service.rs`, `inspector.rs`). Adapters around adb, simctl, logcat, scrcpy and
the WebSocket client.

**Swarm, orchestra, run console** (`src/stores/swarm.ts`, `orchestra.ts`,
`runConsole.ts`). Drive several chats and terminals through the stores above.

**Other stores and the UI** (`src/stores`, `src/components`, `src/screens`).
View state, layout, single requests.

### How the components interact

- The frontend calls the core by Tauri commands and hears of it by events. Nothing
  orders an answer with respect to an event. AgentQueue models the two as
  separate channels.
- `agentChat.ts` sees the chat manager as a backend with one turn at a time.
  AgentQueue holds that backend in four variables. AgentTurns is the manager's
  inside.
- The PTY and the agent manager take a permit of a start gate before they spawn,
  and shutdown closes the gate first. PtyRegistry carries the gate's two
  variables, and its steps implement `StartGate!GateSpec` (checked and proved); so do
  those of AgentTurns (proved).
- A PTY session for a remote host holds a lease handle. PtyRegistry knows the
  handle's four states (`none`, `held`, `stopped`, `finished`); RemoteLease is what
  happens behind them.
- Shutdown is the only caller that meets all managers. AppShutdown instantiates
  Tunnels and Emulators and runs their shutdowns one after the other; the window,
  the commands in flight and the watchers of both go on meanwhile.
- Voice sessions, tunnels and emulators hold a start gate as well. In their modules
  `gate.wait` is a guard on the calls in their interval, which is what StartGate
  proves of it.

## 2. Modules and code

In each module a variable is a field or the place where a thread is, an action is
a step between two points where another thread can act, and the name of an
action is that of the function or the branch. The mutated definitions that the
properties were tried against stand next to the definition they mutate
(`CloseCallKeeps` next to `CloseCall`) and occur in no specification.

**StartGate.** `Begin`, `Drop`, `Close`, `Wait`, `CloseAndWait` are the critical
sections of the mutex; `SpuriousWake` is the wake-up a condition variable
allows. A closer that finds `active > 0` goes to sleep in the same step; the last
`Drop` wakes every sleeper. The specification is `GateSpec`, so that modules of
components that hold a gate can extend the module beside their own.

**PtyRegistry.** A session is named by the spawn that creates it. One step is one
critical section of the registry's mutex or one blocking call outside it. A spawn
goes `resolving → spawned → opened → registered → attaching → attached → ok`, with
a failure edge at every point where the code has `?` or a rollback. The reader
either finds its session in the map (it removes it and reaps the child) or finds
it gone (a kill, detach or shutdown owns it). TERM, the 150 ms wait, KILL and
`wait` are one step. Writes and resizes change none of this and are left out.

**RemoteLease.** `client` is the handle and its heartbeat thread. `boot` is the
ssh helper that makes the directory, reads the payload and delivers it to the
FIFO. `sup`, `dog` and `ctl[k]` are the Python supervisor, the watchdog and
the short ssh commands. A control's open, read and write are separate steps;
`cleanup()`, which takes no lock, may come in between. A file is its existence;
the lock is an inode number, since `flock` holds the inode that was opened.
Time is what is left of the lease, and a tick needs every monitor to have
polled (`Prompt`), as the poll interval is far shorter than a heartbeat's.
Quoting, encoding, path and identity checks, and the terminal's foreground group
are abstracted.

**AgentTurns.** A send names its process. `send[s]` follows the function: gate,
snapshot, running row, prompt row, spawn, claim. The reader thread reads the terminal line or the end of
file, waits, and reports in three steps (`EventChecked`, `EventStored`,
`EventClears`), because the code looks, stores and clears in three critical sections. Threads of an
earlier life of the session report to the present one. The permits are not
counted again here: `DownDrains` waits until no call is in its interval (`Quiet`),
which StartGate proves of `wait`: the permits of the calls implement it
(`GateSpec`, proved). `hasty` is history: a send has begun before
the caller heard of the end of its last turn (`Heard`), which the chat store does
not let the user do.

**AgentQueue.** The chat is one record and each function of the store is an
operator on it (`Sends`, `Drains`, `DrainLands`, `SendsFail`, `RollsBack`,
`Refolds`, `Holds`, `Ended`); an action is a handler up to its next await. A
call is a message's (`call[m]`: waiting for the session, asked, answered). The
backend refuses a send while it has a turn and reports the end of a turn
after it has cleared it. The provider is chosen at the start: `codex` and `omp`
queue what is typed during a turn, `pi` offers it to the turn first. A re-fold
passes the chat's generation; `cutOff` names the messages whose drain, or failed
send, it made stale, and `givenBack` remembers that a stale start has given back a
session that had a turn. The specification is `QueueSpec`, with names of its own
beside those of AgentTurns, so that one module can hold the proofs of both.

**CodexTurns.** A send names the turn the server makes of it. Each of the client's
maps has a lock of its own, so a call that goes through three maps takes three steps
(`SendExpects`, `SendClearsStarting`, `SendTakes`, ...), and so does the reader
(`ReadArmed` to `ReadEvent`). The server is external: it keeps the order of its
input and runs one turn of a thread at a time, as the client's comments assume,
accepts or refuses a start, ends turns, and may die. A request puts its sender in the
map (`SendPends`) before it reads the closed flag (`SendAsks`, `SendAskFails`). After
the closing sends go to a second client, which is outside (`SendMoves`).

**CorrelatedWs.** A connection is named by its generation. A step is one critical
section of the slot or of a pending map, or one exchange with the peer.
`retire` is two steps, the cancel and the clearing of the senders, by whichever
caller or task took the connection out. The request's id is left out of the
payload and kept in the map.

**VoiceSessions.** One session. Audio is counted in pieces that are short against a
segment (`Target`) and against the half second below which `remaining_range` leaves a
tail alone (`MinTail`); a segment ends after one or more pieces, as the quiet place
the segmenter looks for may be before or behind its target. `partials` holds the
pieces whose text the runner has, `quiet` those whose text was empty. `from` is where
the text of the last segment is missing from: its `content_start_sample`, and the
cursor once it has been transcribed. `mode` is what a transcription is for, and
"unread" when the capture could not be read for the tail. A transcription job may
hang for ever: only a kill or its own end makes it return. `poll_control` before the
job, after it is in the slot, and in the loop are separate steps, since a cancel comes
between them. A poll drains the channel and a Cancel in it wins over any Stop, so the
channel is a set.

**Tunnels, Emulators, AppShutdown.** An open or launch owns its child from the
spawn to the publication, and the registries are sets of such calls. A killed child is
waited for in the same step. `AppShutdown` starts the emulators' shutdown at the
exit event and the tunnels' when that one has returned.

**SettingsSync.** A value is the edit that made it, named by its time, so a value
and the stamp it carries can be compared; 0 is the default. `job[m]` is `inFlight` with the
run's place in its group: `Collect` is `syncGroup` up to the pull, `PullReturns`
and `PushReturns` what follows the two answers, `Binds` the end of the one
write-back that awaits a database. `Fails` loses a request or its answer, so a
push may have landed. A request and a toggle are one step, as the effect on the toggles is.
The server keeps the later row (`PushLands`), since a push
that is not `written` lost to a concurrent writer. One account, one project per binding, clocks that agree, no
detached binding, no refusal without the server's row.

## 3. Runs

`CHECK_DEADLOCK FALSE` is set everywhere: each call of an instance is made once,
so that histories end. That calls end is a liveness property where it matters.

| run | instance | shows |
|---|---|---|
| `gate` | 4 starters, 3 closers | no closer sleeps unwoken, a returned wait is final quiescence, every closer gets out |
| `pty` | 2 spawns, each a detachable client or a leased ssh, 1 kill or detach, 1 shutdown | one owner per process, no leaked lease, shutdown is final, the permits implement StartGate, every call returns, every exited child is waited for |
| `lease` | 1 control at a time, TTL of 2 ticks, a leader that ignores SIGTERM | stop, expiry and the payload's record survive every interleaving; no overrun; an orphaned payload dies, the supervisor ends |
| `turns_safety` | 2 overlapping sends, 1 start, 1 dispose, shutdown | every runner has an owner, shutdown is final, no phantom prompt |
| `turns_serial` | 2 sends one after the other, 1 start, 1 interrupt, shutdown | a refused claim is the send's own for a caller that waits for the end it is told of; failed and interrupted turns are given up |
| `turns_loser` | 2 sends one after the other, 1 start | violation, see 6 |
| `queue` | 3 messages, 1 flip of the review flag, 1 interrupt, three providers | no text lost, doubled, reordered or sent after removal; not busy or stranded when settled, but for what re-folds leave behind |
| `codex` | 2 sends one after the other, 2 timeouts, 1 interrupt or dispose, the death of the server | an interrupt fires once, orphans stay watched, a dead server leaves nobody waiting or busy |
| `ws` | 2 connects, 1 disconnect, 1 request, a peer that may close | no late connect wins, no old task ends a new connection, nothing ended stays half ended |
| `voice` | 1 session of up to 3 pieces, a target and a shortest tail of 2, 1 stop, 1 cancel, 1 shutdown | no runner escapes shutdown, the transcript follows the audio, a cancel ends the session, every call returns |
| `shutdown` | 1 tunnel with 3 attempts, 1 close, 2 emulators | no child survives, every exit is noticed and reported, the shutdown returns |
| `settings` | 2 machines that share 1 of 2 groups, clock to 3, one user who switches | no request is forgotten, synced is true, a newer edit survives |

The type invariant of a module is part of the first invariant of its run, as its
first conjunct, or proved (5).

Why the bounds are enough. The interesting cases of a gate need two closers of
which one sleeps, and a starter on each side of the close. A race over one
terminal has four parties (spawn, reader, closer, shutdown), all of which are in
`pty`, and a second session lets shutdown drain more than one. A raw shell is left
out of `Kind` there: it behaves as a client that is killed, since detaching it is
a kill. One control
of the lease meets the supervisor, the watchdog and the helper, all of which write or
remove the file it has read; several at once are what `RemoteLease_proofs` covers. A
second tick lets a beat renew a lease that is half spent; a TTL of one
would make every lapse an expiry. Two sends are a loser and a winner, or an old
life and a new one. Three messages are one being sent, one behind it and one typed meanwhile; a fourth
makes the run too long, and what it adds (6) was met in the proof and then found
by TLC on one provider without an interrupt. On a
Codex thread two sends are an orphan and its retry, or two orphans, of which the
code watches for one only (6). Two connects and a disconnect give three
generations, so that a connection is replaced, replaced again, or taken down while
a handshake hangs. With three pieces and a target of two a segment ends after one, two
or three of them: what is left is another segment, a tail, a tail too short (one piece
of the two of `MinTail`) or nothing, and a stop may cost a first or a second segment; a
job in each may be the one a cancel meets. One tunnel in three attempts is in every place a
tunnel can be; two emulators let shutdown drain one from each registry. On the settings, three times are an
edit that is synced, an older edit and a newer one; a group that is switched makes
the requests a run does not cover. It is a second group beside the shared one, or the
shared one itself (`Starts`), which is then one that is written back over an await.
The constants `MaxFlips` and `MaxStops` bound the only unbounded user actions.
Symmetry is used in safety runs only, over calls that differ in name only.

## 4. Fairness

- StartGate: permits are dropped and a woken closer runs on. The permit is a
  guard on the stack of a call that has begun, so it is dropped.
- PtyRegistry: a thread that has begun runs on. Each wait in it is for a killed or exited
  child, for the reader, or has a timeout. Nothing makes a live child exit, a
  reader's sink panic, or a caller call.
- RemoteLease: the supervisor, the watchdog, the helper and delivered
  controls are scheduled and time passes. Nothing is assumed of the desktop, of
  ssh, or of the payload, so `OrphanDies` holds for a desktop that vanished.
- AgentTurns: calls that have begun, reader threads and destructors run on. No
  process has to exit.
- AgentQueue, CodexTurns and SettingsSync: none. "Not for ever" is stated of settled
  states, where nothing is under way (`NoStranding`), or of a closed client with no
  send in progress (`DeadServerFreesChat`), and is safety there.
- CorrelatedWs: callers past their first await and tasks are scheduled, and the
  request's timer fires. A handshake may hang and the peer owes nothing.
- VoiceSessions: calls, the runner and the timeouts go on. A transcription never has
  to end by itself.
- AppShutdown: opens, launches, watchers and shutdown run on, and a readiness probe
  gives up after its ten seconds. Nobody has to call and no child has to exit.

## 5. Proofs

The proofs of the gate are in `AppShutdown_proofs` and assume only that the set of
starters is finite. The inductive
invariant `GateInv` is the type invariant with five parts: the counter is the number of
permits (`CountsPermits`), closers act on a closed gate (`ClosersClosed`), nobody sleeps while the
counter is zero (`NoLostWakeup`), and a returned wait finds the gate closed and
empty (`StrictQuiescence`). `NoLostWakeup` is not inductive without `CountsPermits`, since
it is the count that reaches zero, and `StrictQuiescence` needs `ClosersClosed`, so that no permit is
handed out after a wait. Theorems: `GateInvariant`, `GateCounts`,
`GateNoLostWakeup`, `GateQuiescence`, and the action property `GateOnlyDrains`.

`AgentChat_proofs` is about a chat on both sides, which share nothing.

For AgentTurns it assumes `Serial ∈ BOOLEAN` and `NoTurn ∉ Send`; the sets of
calls are arbitrary. `IInv` joins the type invariant, `HandsKill` (a runner
whose handle has left its slot is dead, or its Child is taken), `Closing` (a
shutdown closes the gate, then sets the flag, and what it stops is a turn),
`Owned`, `Drained` (from the drain on no session is present, no turn
installed, no call in its interval), `Prompting` (a prompt belongs to a send on its
way, to a turn that has run, or to a chat that was started again), and `Waited`:
unless the caller was hasty or the chat was started again, at most one send is not
over (`Alone`), it finds no other turn (`Undisturbed`), `terminal_pending` is set by
its own runner only (`PendingIsOwn`), and an installed turn stays until the manager has
looked at its end (`TurnStands`). `Owned` needs `HandsKill`, to know that
whoever takes a handle out leaves nothing behind it that can be signalled;
`Drained` needs `Closing`, to know that a start or a send finds the gate shut;
`OwnTerminal` needs all of `Waited`, which holds of no caller that merely waits for
its last send to return. Theorems: `TurnsTypeOK`, `TurnsInvariant`,
`TurnsOwned`, `TurnsShutdownIsFinal`, `TurnsNoPhantomPrompt`, `TurnsOwnTerminal`, and
`TurnsImplementGate`: the calls inside their provisional interval (`Permits`) are a
finite set at any time, its size is the gate's counter, and a step of a call takes or
drops one permit at most. No run checks this one; RegistryImplementsGate is its
counterpart that one does.

For AgentQueue it assumes that the bounds are numbers, that the providers are among
the three, and that "none" is no message and no event (`NoneAssumption`); the
messages are any set. `QueueInv` has two halves. `Kept` is about the texts: the queue
is in the order of entry and without repetitions (`Lined`), a drain sends the head,
which stays until the drain is over, and only such an entry has a call (`Called`), a
start under way has a send that waits for it, which went stale if the start did
(`Awaited`), what the backend has of each message follows from its call (`Counted`),
and no message it has is behind one of the queue that it lacks (`Passed`). The order
of delivery hangs on `Called`: a message that is taken out of turn would have to be
sent from behind the head. `Lively` is about what comes next: a busy chat has the
end of a turn to come or a send that is not stale in flight (`Busy`), an idle chat
with a queue has a drain that will look again, or a failure on show (`Moving`), and
a turn announced last has not ended (`Announced`), without which a late
`turnStarted` could make a chat busy for good. `GivesUp` ties `givenBack` to
`cutOff`. The lemmas on sequences (`WithoutFacts`, `AppendFacts`, `OrderedIsDistinct`)
say what taking out and adding an entry leave of order and distinctness.
Theorems: `QueueInvariant`, `QueueConserved`, `QueueKeepsOrder`,
`QueueNoStranding`.

`PtyRegistry_proofs` assumes that the set of sessions is finite. `IInv` has the
count of permits (as in the gate), the exclusivity of a session's owners (spawn
call, registry, reader, closer, shutdown), what a spawn call has and has not done
at each place (`Young`), the lease's state at each place (`Leased`), where a child
or its reader may still be waited for (`Kept`), and the stages of shutdown
(`Shut`). Theorems: `RegistryInvariant`, `RegistryOneOwner`,
`RegistryShutdown`, and `RegistryImplementsGate`: under
the mapping in PtyRegistry every step is a step of `StartGate` or a stutter.

`RemoteLease_proofs` assumes a finite set of controls that names neither
monitor (`ControlAssumption`), that "no state" is no state (`NoneAssumption`), and a
TTL of at least one tick. Everything hangs on `Intact`: the payload lives, or
neither monitor has begun to clean up. While that is so there is one inode and one
holder of its lock (`OneLock`, `Holding`), the files are there (`Kept`), a control
that is about to write holds a copy that still agrees with the file (`Fresh`), the
payload is on record or about to be (`Recorded`), the watchdog marks only a lapsed
lease (`Marked`), and a monitor that has polled since the last tick found time
left in the file and in every pending copy (`Polled`). After the payload's
death the lock's inode is unlinked and none of this holds; the proof does not
need it. Theorems: `LeaseInvariant`, `LeaseRunningIsRecorded`,
and the action properties `LeaseStopIsObeyed`, `LeaseNoLostUpdate`, `LeaseNoOverrun`.

`CodexTurns_proofs` assumes that the set of interrupts and disposals is finite
(`KillerAssumption`). `Kills`: a dispose past its first step has taken the session.
`Answered`: a sender that waits without an answer is in the map of pending
requests, which closing empties; who is in it after that has yet to read the flag.
`Freed` and `Doomed`: the turn in a closed
client's chat belongs to a send that will clear it. `Armed`: the flag stays armed
beside a published turn id only while the kill that armed it is busy, which needs
that send() publishes the id before it swaps the flag. `Credit`: requests
fired and flags armed are at most the kills that asked, by cardinality.
The watch for orphans needs more. `Places` is about the pipe to the server: a send
asks once, the lines of a turn come in their order (`Once`), and while the server
lives the answer to a request is in the pipe or has come (`Told`). `Watch`, for
sends in series, is about the time until the first orphan has been met: one send is
under way (`OneSend`) or has its turn (`OneLive`), its request is behind every other
(`Latest`), the thread stays armed while the beginning of a turn without an answer is
to be read (`Stays`), and one that has been read was put aside or interrupted
(`Caught`). Theorems: `CodexInvariant`, `CodexPlaces`, `CodexInterruptFiresOnce`,
`CodexOrphanIsWatched`, `CodexDeadServerFreesChat`.

`CorrelatedWs_proofs` assumes finite, disjoint sets of connects and disconnects
(`CallAssumption`). The generation is the number of calls begun, generations are
unique, and a connection in the slot is the newest decided; callers and tasks that
retire hold a connection that has been taken out, and what is retired has no
sender left. For the action property a task that has left its loop was cancelled or
found its socket closed (`Ended`). Theorems: `WsInvariant`, `WsLateIsSuperseded`,
`WsNothingLeftWaiting`, `WsOnlyOwnEnds`.

`VoiceSessions_proofs` assumes a finite set of stops and disjoint kinds of calls
(`CallAssumption`), and that the three lengths are numbers, the target not 0
(`AudioAssumption`). `Course` ties the runner's place to its recorder, exit and
completion, `Registered` says who has the session, `Calls` what is true by the
time a call of each kind is where it is, `Stops` that a stop which ended the recording has
left the channel unless two were sent, and `Ordered`, `Upto` and `Kept` what has
been heard up to the cursor, but for the segment in hand (`Unheard`) and, at the end,
what may be passed over (`PassedOver`). Theorems: `VoiceInvariant`,
`VoiceShutdownReachesAll`, `VoiceTranscriptFollows`.

`AppShutdown_proofs` assumes at least one attempt per tunnel. `TunnelInv` and
`EmulatorInv` are invariants of the two owners (tries, owned children, a watcher
that has noticed has reaped, the stages of closing), each kept by the steps of its
owner and by any step that leaves it alone, which is what composes them.
Theorems: `ShutdownInvariant`, `ShutdownLeavesNothing`.

`SettingsSync_proofs` assumes that the slow groups and the machines that quit are
among those there are, a time bound, and that "none" is no time, group or row
(`NoneAssumption`); machines and groups are any sets. `Waiting`: a request that no run has begun
is before the run in flight or pending, for a group that is on. `Placed` says what a run
holds at each place, and `Past` that no value comes from the future, so that an edit is
newer than whatever it meets. `Synced`: what a machine takes for the account's row, or
a run has pulled, the account has had, and has now or a later one in its place. `Stamped`:
every value that is passed on carries the time of its edit, unless it is the default or
was made while another group was written back; without it a comparison of stamps
says nothing about the values. `Bare`: a binding is written where there was none, which
needs the exception of `Slow` groups, whose slot is looked at before an await.
Theorems: `SettingsInvariant`, `SettingsNothingDropped`, `SettingsSyncedIsTrue`, and the
action property `SettingsNewerEditSurvives`.

Every invariant and every action property of the passing runs is proved. Only
model-checked are the properties under fairness (`CloseReturns`, `CallsReturn`,
`ExitedIsReaped`, `OrphanDies`, `SupervisorEnds`, `FailedTurnEnds`,
`InterruptEndsTurn`, `EndedIsOver`, `CancelEnds`, `ExitIsNoticed`,
`ShutdownReturns`). Liveness under
fairness, ENABLED, and induction over data such as sequences are out of the
proof system's reach and stay with TLC. What the proofs say of a queue or a pipe
they say of its positions, one step of a recursion at most. No module declares a
RECURSIVE operator.

## 6. Where code and statement differ

One run refutes what the source says of itself.

- `turns_loser` (manager.rs:2646). The end of a turn that was refused its claim
  is applied in a later critical section to whatever turn is there, and may remove
  and kill the next send's.

Three more statements of the source do not hold on a path that the properties
leave out by name:

- session.rs:232. When `try_clone_reader` or `take_writer` fails,
  `spawn` returns through `?`; the child runs, in no registry, and the permit is
  gone. start_gate.rs:5-8 says a permit spans the interval until the child is
  registered or rolled back. `OneOwner` and `ExitedIsReaped` except this
  path (`abandoned`).
- lease.rs:722. A stop that arrives before the supervisor's
  first record finds no state, returns 0 and leaves no trace; the payload is
  launched and lives until its lease expires. lease.rs:976-977 says that a stop
  prevents launch or sees the payload. `StopIsObeyed` is about stops that find a
  state.
- agentChat.ts:2531. A follow-up refused because its turn has
  just ended is queued after the end that would have drained it.
  agentChat.ts:2529-2530 says the queue sends it when the turn closes.
  `NoStranding` lets a queue wait on `pi`, the provider with follow-ups.

Other behaviour that was met while modelling:

- session.rs:424, 810: after the reader has removed a session whose program closed
  its terminal but lives on, `kill` returns Ok and shutdown does not report it.
- lease.rs:724: a beat that is late but precedes the poll revives an overdue
  lease; `NoOverrun` bounds the overrun by a tick.
- lease.rs:829: a member of the payload's group that ignores SIGTERM survives when
  the leader does not.
- lease.rs:887: a control that races the cleanup may leave the lease directory.
- lease.rs:1025: a supervisor that dies between the fork of the payload and that
  of the watchdog leaves the payload without a monitor. `NoOverrun` and
  `OrphanDies` speak of monitored payloads.
- lease.rs:727: expiry is wall-clock time; the models' time is one clock.
- manager.rs:1400: overlapping sends share one `terminal_pending`, so a turn may be
  installed for a process that has ended. A caller that merely waits for its last
  send to return is not safe from it: the reader of that send's turn may report into the
  next send but one. `OwnTerminal` is about a caller that waits for the end of the turn, as
  the chat store does (agentChat.ts:1172, 2271; the sink is called last,
  manager.rs:2756).
- manager.rs:1369: a prompt stays when a disposed chat is started again before
  the send's rollback; `NoPhantomPrompt` excepts second starts.
- manager.rs:876: a send that passed its snapshot writes status running after a
  dispose wrote idle.
- manager.rs:2640, 2843: the terminal event of an old runner is stored after its session
  is gone, or refuses the next send of the restarted chat.
- codex_exec.rs:478: a process that ends with 0 and without its terminal line
  tells the manager nothing, and its turn stays active.
- codex_app.rs:1201: the reader disarms a thread after the first orphan it interrupts,
  so of two starts that time out one after the other only the first orphan is
  interrupted. `OrphanIsWatched` is about the only one to time out.
- codex_app.rs:1178: the reader reads the expected turn before the start returns and
  the starting set after it, so a legitimate turn may be swept as an orphan, and the
  line that completes it is dropped with it.
- manager.rs:1083: a session that is disposed of after the turn's answer and before
  `session_present`, by a dispose that has not yet armed the flag, leaves its turn running.
- codex_app.rs:774: an orphan's end that is read before the orphan is known as one
  clears the turn of the retry.
- Three ways in which a voice session that a single stop ends, and that reports Done,
  loses audio; `TranscriptFollowsAudio` leaves out exactly these (`PassedOver`).
  voice/session.rs:531: a stop that a poll of `transcribe_path` sees costs the segment
  that was about to be transcribed, as the segmenter has moved on. voice/session.rs:457:
  when there is text and the capture cannot be read while finalizing, the tail is
  skipped. voice/segments.rs:121: a tail of less than half a second is not transcribed.
- tunnel.rs:210: no permit covers `close`, so the shutdown may return before a child
  that a close has taken out is killed.
- agentChat.ts:1598, 2310: a re-fold during a drain leaves the sent entry in
  the queue, and it is sent again (`cutOff`).
- agentChat.ts:1795: a start made stale by a re-fold gives its session back although the
  session may still have a turn (the comment there thinks of a chat that was disposed
  of); a `turnStarted` of it that is still under way leaves the
  chat busy for ever. `NoStranding` excepts it (`givenBack`).
- agentChat.ts:2376: a send that failed and has gone stale rolls nothing back and shows
  no failure, so a queue may wait in silence. `NoStranding` excepts it (`cutOff`).
- agentChat.ts:1302: an interrupt clicked before `turnStarted` is handled loses
  its flag, and the queue fires when the interrupted V1 turn reports a failure.
- settingsSyncStore.ts:244: an edit made after its group was collected is overwritten when
  the pull's or the push's answer is adopted; `NewerEditSurvives` excepts it.
- settingsSync.ts:305: the slot is tested before the database is awaited, so a
  binding the user makes meanwhile is overwritten, although the comment says that
  a bound project is never clobbered. Edits of any group are unstamped meanwhile
  (settingsSyncEdits.ts:43), so they carry an older time, or that of the run.
- settingsSyncStore.ts:302: a group that a run has skipped because it was off, and that is
  switched on again, counts as covered and waits for the next trigger.
- settingsSyncStore.ts:328: opting out is noticed between groups; the group in
  progress is still pushed.
- settingsSyncStore.ts:242: a machine that was never edited pushes its defaults
  with the time of the run, which may beat an older edit elsewhere; `NewerEditSurvives`
  excepts the default.
- agentChat.ts:337: removing the last entry but the one being sent keeps
  `queueHeld` on a queue that is then empty.

Failures the models leave out, inside components that are modelled:

- PtyRegistry: that the thread which reaps a session at shutdown cannot be spawned
  (pty/session.rs:568); the child has been killed but nobody waits for it.
- AgentTurns: the `?` exits of manager.rs:861-876, before and at the status row, which
  leave through the permit alone; and a rollback of the prompt row that fails
  itself, which the code swallows (manager.rs:1013-1015), so that `NoPhantomPrompt` is
  about a database that does what it is asked on that path.
- AgentQueue: a send that the backend has accepted and that reports an error
  nevertheless; a second interrupt while one is in flight; typing while the feature
  `messageQueue` is off (agentChat.ts:317), when nothing is queued.
- Tunnels: a `try_wait` that fails ends the watcher and leaves the entry
  (tunnel.rs:316), so `ExitIsNoticed` is about children the system can be asked about.
- Emulators: when `try_wait` fails for good, the watcher takes the entry out, drops the
  lock and then kills the child (emulator.rs:370-375); a shutdown may return in between.
- VoiceSessions: `stop` of the recorder has a Result that session.rs:454 passes on; the
  one implementation outside the tests always returns Ok (recorder.rs:58-63).
- SettingsSync: a run that ends because the workspace does not get ready
  (settingsSyncStore.ts:339-344), before it has looked at any group.

## 7. Plan

The order was that of what matters most to a user: processes first, then
conversations, then connections. Done are StartGate, PtyRegistry, RemoteLease,
AgentTurns, AgentQueue, CodexTurns, CorrelatedWs, VoiceSessions, and Tunnels and
Emulators under AppShutdown, and SettingsSync. What is left:

1. AgentQueue with retry, disposal and provider switch. Abstract specification:
   a FIFO of texts, each taken back by the user or delivered once; AgentQueue shown
   to implement it for drains that are not cut off.
2. The PTY manager, the chats and the voice sessions in AppShutdown, with the
   recoverable sessions and containment.
3. Approvals and steering of the V2 providers.
4. SettingsSync with a change of account and detached bindings.
5. Refinements: AgentQueue and the FIFO of 1, and the gates of the voice sessions, the
   tunnels and the emulators as `StartGate!GateSpec`, as those of the PTY registry and
   the chat manager are.
