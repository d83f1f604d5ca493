------------------------------ MODULE AgentQueue ------------------------------
(***************************************************************************)
(* The message queue of one agent chat: src/stores/agentChat.ts.           *)
(*                                                                         *)
(* What the user types while a turn runs waits in a queue.  The end of a   *)
(* turn drains it: the head is sent like any other message and leaves the  *)
(* queue only when the backend has taken it.  A turn the user stopped      *)
(* holds the queue instead.  On Pi a message typed during a turn is        *)
(* offered to that turn first and queued if it is refused.                 *)
(*                                                                         *)
(* The store runs on one thread, so a handler is one step up to its await. *)
(* Between two steps come the answers of the calls in flight and the       *)
(* events of the session, which no order relates.  A re-fold of the change *)
(* receipts passes the chat's generation, and a call that began before it  *)
(* finds itself stale when it resumes.                                     *)
(*                                                                         *)
(* The backend is AgentChatManager as the store sees it: one turn at a     *)
(* time, sends refused while it has one, a turn's end reported after the   *)
(* turn has been cleared (crates/pickforge-core/src/agents/manager.rs).    *)
(* Disposal, retry and provider switches are left out, and so are steering *)
(* and hydration, which leave the queue alone.                             *)
(***************************************************************************)
EXTENDS Naturals, Sequences, FiniteSets, SequencesExt

CONSTANTS Msg,       \* the messages of one history, each entered once
          Providers, \* providers the chat may have
          MaxFlips,  \* how often the changesReview flag is flipped
          MaxStops,  \* how often the user interrupts
          None       \* no message, no event

ASSUME ProvidersAssumption == Providers \subseteq {"codex", "omp", "pi"}
ASSUME BoundsAssumption == MaxFlips \in Nat /\ MaxStops \in Nat

Ends == {"done", "failed", "interrupted"}

ASSUME NoneAssumption == None \notin Msg \union Ends

VARIABLES
    provider,  \* chat.provider
    chat,      \* the chat's store entry and the module-level maps about it
    interrupting,  \* the interrupt call: none, asked, or failed on its way back
    flips, stops,  \* what is used of MaxFlips and MaxStops
    turn,      \* the backend's turn
    closing,   \* the end of a turn that is cleared but not yet reported
    chan,      \* events on their way to the store
    entered,   \* queued messages in the order they were queued
    removed,   \* messages the user took out of the queue
    delivered, \* delivered[m]: how often the backend took m
    cutOff,    \* messages whose drain, or failed send, went stale in flight
    givenBack  \* a start gone stale has given back a session that had a turn

budget == <<flips, stops>>
backend == <<turn, closing, chan, delivered>>
history == <<entered, removed, cutOff, givenBack>>
queueVars == <<provider, chat, interrupting, budget, backend, history>>

\* Entries of the store, with one call per message in flight: "starting" waits
\* for the session, "asked" for the backend, "ok" and "err" are its answers.
Chat == [session : BOOLEAN,       \* sessionId is set
         turnActive : BOOLEAN,
         error : {"none", "send", "followUp", "turn"},
         queue : Seq(Msg), queueHeld : BOOLEAN,
         draining : Msg \union {None}, \* drainingId, activeQueueDrainByChat
         missed : BOOLEAN,             \* pendingQueueDrainByChat
         interrupted : BOOLEAN,        \* interruptedByUser
         refold : BOOLEAN,             \* pendingChangesReceiptReflow
         fetching : BOOLEAN,           \* the latest re-fold awaits its history
         call : [Msg -> {"none", "starting", "asked", "ok", "err"}],
         kind : [Msg -> {"new", "send", "followUp", "queued"}],
         stale : SUBSET Msg,           \* calls begun in an earlier generation
         startup : {"none", "asked", "ok", "err"},  \* ensurePromises
         startupStale : BOOLEAN]

\* Types, and a draining entry is in flight.
QueueTypeOK ==
    /\ provider \in Providers /\ chat \in Chat
    /\ interrupting \in {"none", "asked", "err"}
    /\ flips \in 0..MaxFlips /\ stops \in 0..MaxStops
    /\ turn \in {"none", "accepted", "started"}
    /\ closing \in Ends \union {None} /\ chan \in Seq(Ends \union {"started"})
    /\ entered \in Seq(Msg) /\ removed \subseteq Msg /\ cutOff \subseteq Msg
    /\ delivered \in [Msg -> Nat] /\ givenBack \in BOOLEAN
    /\ chat.draining # None => chat.call[chat.draining] # "none"

QueueInit ==
    /\ provider \in Providers
    /\ chat = [session |-> TRUE, turnActive |-> FALSE, error |-> "none", queue |-> <<>>,
               queueHeld |-> FALSE, draining |-> None, missed |-> FALSE,
               interrupted |-> FALSE, refold |-> FALSE, fetching |-> FALSE,
               call |-> [m \in Msg |-> "none"], kind |-> [m \in Msg |-> "new"],
               stale |-> {}, startup |-> "none", startupStale |-> FALSE]
    /\ interrupting = "none" /\ flips = 0 /\ stops = 0
    /\ turn = "none" /\ closing = None /\ chan = <<>>
    /\ entered = <<>> /\ removed = {} /\ cutOff = {} /\ givenBack = FALSE
    /\ delivered = [m \in Msg |-> 0]

-----------------------------------------------------------------------------
(* What the functions of the store do to the entry c.                       *)

InFlight(c) == {m \in Msg : c.call[m] # "none"}

\* Every entry has an id of its own, so that filtering one out removes the first
\* entry that equals it.
Without(queue, m) == RemoveFirst(queue, m)

\* sendAgentMessage up to its first await; without a session it starts one or
\* joins the start under way.
Sends(c, m) ==
    LET shown == [c EXCEPT !.turnActive = TRUE, !.error = "none"]
    IN  IF c.session THEN [shown EXCEPT !.call[m] = "asked"]
        ELSE [shown EXCEPT !.call[m] = "starting",
                           !.startup = IF @ = "none" THEN "asked" ELSE @]

\* enqueueAgentMessage.
Queues(c, m) == [c EXCEPT !.queue = Append(@, m), !.kind[m] = "queued"]

\* nextDrainEntry finds an entry.
Drainable(c) == ~c.turnActive /\ ~c.queueHeld /\ c.queue # <<>>

\* Mutant: the drain does not look for one in flight.
DrainsTwice(c) ==
    IF Drainable(c) THEN [Sends(c, Head(c.queue)) EXCEPT !.draining = Head(c.queue)] ELSE c

\* Mutant: the newest entry is sent first.
DrainsNewest(c) ==
    CASE ~Drainable(c) -> c
      [] Drainable(c) /\ c.draining # None -> [c EXCEPT !.missed = TRUE]
      [] Drainable(c) /\ c.draining = None ->
           [Sends(c, Last(c.queue)) EXCEPT !.draining = Last(c.queue)]

\* drainAgentQueue up to its await.
Drains(c) ==
    CASE ~Drainable(c) -> c
      [] Drainable(c) /\ c.draining # None -> [c EXCEPT !.missed = TRUE]
      [] Drainable(c) /\ c.draining = None ->
           [Sends(c, Head(c.queue)) EXCEPT !.draining = Head(c.queue)]

\* The calls of ms are over.
Settles(c, ms) ==
    [c EXCEPT !.call = [m \in Msg |-> IF m \in ms THEN "none" ELSE @[m]],
              !.stale = @ \ ms]

\* releaseAgentQueueDrain, the replay aside.
Releases(c) == [c EXCEPT !.draining = None, !.missed = FALSE]

\* rollbackFailedSend; a send that fails may mean that the transport of OMP or
\* Pi has died, so the session is forgotten.
RollsBack(c) ==
    [c EXCEPT !.turnActive = FALSE, !.error = "send",
              !.session = @ /\ provider \notin {"omp", "pi"}]

\* Mutant: a turn end that came meanwhile is forgotten.
DrainLandsOnce(c, m) ==
    LET free == Releases(Settles(c, {m}))
    IN  IF m \in c.stale THEN free ELSE [free EXCEPT !.queue = Without(@, m)]

\* A drain whose send arrived: the entry is retired unless the drain is stale,
\* and an end of turn that came meanwhile drains the next one.
DrainLands(c, m) ==
    LET free == Releases(Settles(c, {m}))
        retired == [free EXCEPT !.queue = Without(@, m)]
    IN  CASE m \in c.stale -> free
          [] m \notin c.stale /\ ~c.missed -> retired
          [] m \notin c.stale /\ c.missed -> Drains(retired)

\* Sends that failed, by hand or by a drain.  A failure replays nothing, and a
\* stale one does not even roll back.
SendsFail(c, ms) ==
    LET over == Settles(c, ms)
        back == IF ms \subseteq c.stale THEN over ELSE RollsBack(over)
    IN  IF c.draining \in ms THEN Releases(back) ELSE back

\* reflowChangesReceiptFold up to its await: a new generation.
Refolds(c) ==
    [c EXCEPT !.refold = FALSE, !.fetching = TRUE, !.stale = InFlight(c),
              !.startupStale = c.startup # "none"]

\* markQueueHeld for the end of a turn the user stopped.
Holds(c) ==
    [c EXCEPT !.queueHeld = @ \/ \E m \in Range(c.queue) : m # c.draining]

\* receiveAgentEvent for the end of a turn.
Ended(c, end) ==
    LET closed == [c EXCEPT !.turnActive = FALSE, !.interrupted = FALSE,
                            !.error = IF end = "failed" THEN "turn" ELSE @]
        folded == IF c.refold THEN Refolds(closed) ELSE closed
        stopped == c.interrupted \/ end = "interrupted"
    IN  IF stopped THEN Holds(folded) ELSE Drains(folded)

-----------------------------------------------------------------------------
(* The user and the other callers of the store.                             *)

\* The composer sends while no turn runs, but the voice operator and the
\* orchestra do not look.
UserSends(m) ==
    /\ chat.kind[m] = "new"
    /\ chat' = [Sends(chat, m) EXCEPT !.kind[m] = "send"]
    /\ UNCHANGED <<provider, interrupting, budget, backend, history>>

\* The composer queues only during a turn; a message with images is queued on Pi
\* too.
UserQueues(m) ==
    /\ chat.kind[m] = "new" /\ chat.turnActive
    /\ chat' = Queues(chat, m)
    /\ entered' = Append(entered, m)
    /\ UNCHANGED <<provider, interrupting, budget, backend, removed, cutOff, givenBack>>

UserFollowsUp(m) ==
    /\ chat.kind[m] = "new" /\ chat.turnActive /\ chat.session /\ provider = "pi"
    /\ chat' = [chat EXCEPT !.error = "none", !.call[m] = "asked", !.kind[m] = "followUp"]
    /\ UNCHANGED <<provider, interrupting, budget, backend, history>>

UserRemoves(m) ==
    /\ m \in Range(chat.queue) /\ m # chat.draining
    /\ LET queue == Without(chat.queue, m)
       IN  chat' = [chat EXCEPT !.queue = queue, !.queueHeld = @ /\ queue # <<>>]
    /\ removed' = removed \union {m}
    /\ UNCHANGED <<provider, interrupting, budget, backend, entered, cutOff, givenBack>>

UserClears ==
    /\ chat.queue # <<>>
    /\ chat' = [chat EXCEPT !.queueHeld = FALSE,
                            !.queue = IF chat.draining \in Range(@) THEN <<chat.draining>>
                                      ELSE <<>>]
    /\ removed' = removed \union (Range(chat.queue) \ {chat.draining})
    /\ UNCHANGED <<provider, interrupting, budget, backend, entered, cutOff, givenBack>>

UserSendsHeld ==
    /\ chat.queueHeld
    /\ chat' = Drains([chat EXCEPT !.queueHeld = FALSE])
    /\ UNCHANGED <<provider, interrupting, budget, backend, history>>

UserInterrupts ==
    /\ stops < MaxStops /\ interrupting = "none" /\ chat.session
    /\ stops' = stops + 1 /\ interrupting' = "asked"
    /\ chat' = [chat EXCEPT !.interrupted = @ \/ chat.turnActive]
    /\ UNCHANGED <<provider, flips, backend, history>>

\* The changesReview flag is flipped: re-fold now, or when the turn ends.
FlagFlips ==
    /\ flips < MaxFlips
    /\ flips' = flips + 1
    /\ chat' = IF chat.turnActive THEN [chat EXCEPT !.refold = TRUE] ELSE Refolds(chat)
    /\ UNCHANGED <<provider, interrupting, stops, backend, history>>

-----------------------------------------------------------------------------
(* Answers and events reach the store.                                      *)

SendAnswered(m) ==
    /\ chat.kind[m] = "send" /\ chat.call[m] \in {"ok", "err"}
    /\ chat' = IF chat.call[m] = "ok" THEN Settles(chat, {m}) ELSE SendsFail(chat, {m})
    /\ cutOff' = IF chat.call[m] = "ok" THEN cutOff
                 ELSE cutOff \union (chat.stale \intersect {m})
    /\ UNCHANGED <<provider, interrupting, budget, backend, entered, removed, givenBack>>

DrainAnswered(m) ==
    /\ chat.draining = m /\ chat.call[m] \in {"ok", "err"}
    /\ chat' = IF chat.call[m] = "ok" THEN DrainLands(chat, m) ELSE SendsFail(chat, {m})
    /\ cutOff' = cutOff \union (chat.stale \intersect {m})
    /\ UNCHANGED <<provider, interrupting, budget, backend, entered, removed, givenBack>>

FollowUpAnswered(m) ==
    /\ chat.kind[m] = "followUp"
    /\ \/ /\ chat.call[m] = "ok"
          /\ chat' = Settles(chat, {m})
          /\ UNCHANGED entered
       \/ /\ chat.call[m] = "err"
          /\ chat' = Queues([Settles(chat, {m}) EXCEPT
                               !.error = IF m \in chat.stale THEN @ ELSE "followUp"], m)
          /\ entered' = Append(entered, m)
    /\ UNCHANGED <<provider, interrupting, budget, backend, removed, cutOff, givenBack>>

\* ensureAgentChat resolves: the sends that waited for it go on.  A start that
\* went stale gives its session back, which ends the turn.
SessionStarted ==
    LET waiting == {m \in Msg : chat.call[m] = "starting"}
        idle == [chat EXCEPT !.startup = "none", !.startupStale = FALSE]
    IN  /\ chat.startup \in {"ok", "err"}
        /\ \/ /\ chat.startup = "ok" /\ ~chat.startupStale
              /\ chat' = [idle EXCEPT !.session = TRUE, !.error = "none",
                            !.call = [m \in Msg |-> IF m \in waiting THEN "asked" ELSE @[m]]]
              /\ UNCHANGED <<backend, cutOff, givenBack>>
           \/ /\ chat.startup = "err" \/ chat.startupStale
              /\ chat' = SendsFail(idle, waiting)
              /\ cutOff' = cutOff \union (waiting \intersect chat.stale)
              /\ IF chat.startup = "ok" THEN turn' = "none" ELSE UNCHANGED turn
              /\ givenBack' = (givenBack \/ turn' # turn)
              /\ UNCHANGED <<closing, chan, delivered>>
        /\ UNCHANGED <<provider, interrupting, budget, entered, removed>>

\* The history of a re-fold is there, or could not be read.  A turn that began
\* meanwhile defers the re-fold again.
RefoldLoads ==
    /\ chat.fetching
    /\ \E read \in BOOLEAN :
          chat' = [chat EXCEPT !.fetching = FALSE, !.refold = @ \/ (read /\ chat.turnActive)]
    /\ UNCHANGED <<provider, interrupting, budget, backend, history>>

StopFailed ==
    /\ interrupting = "err"
    /\ interrupting' = "none"
    /\ chat' = [chat EXCEPT !.interrupted = FALSE]
    /\ UNCHANGED <<provider, budget, backend, history>>

StartArrives ==
    /\ chan # <<>> /\ Head(chan) = "started"
    /\ chan' = Tail(chan)
    /\ chat' = [chat EXCEPT !.turnActive = TRUE, !.error = "none", !.interrupted = FALSE,
                            !.queueHeld = FALSE]
    /\ UNCHANGED <<provider, interrupting, budget, turn, closing, delivered, history>>

EndArrives ==
    /\ chan # <<>> /\ Head(chan) \in Ends
    /\ chan' = Tail(chan)
    /\ chat' = Ended(chat, Head(chan))
    /\ UNCHANGED <<provider, interrupting, budget, turn, closing, delivered, history>>

-----------------------------------------------------------------------------
(* The backend.                                                             *)

Answers(m, answer) ==
    /\ chat' = [chat EXCEPT !.call[m] = answer]
    /\ UNCHANGED <<provider, interrupting, budget, closing, chan, history>>

TakesSend(m) ==
    /\ chat.call[m] = "asked" /\ chat.kind[m] # "followUp" /\ turn = "none"
    /\ Answers(m, "ok")
    /\ turn' = "accepted"
    /\ delivered' = [delivered EXCEPT ![m] = @ + 1]

TakesFollowUp(m) ==
    /\ chat.call[m] = "asked" /\ chat.kind[m] = "followUp" /\ turn # "none"
    /\ Answers(m, "ok")
    /\ delivered' = [delivered EXCEPT ![m] = @ + 1]
    /\ UNCHANGED turn

Refuses(m) ==
    /\ chat.call[m] = "asked"
    /\ Answers(m, "err")
    /\ UNCHANGED <<turn, delivered>>

\* A session that still has a turn reports it again when it is started again.
SessionStarts ==
    /\ chat.startup = "asked"
    /\ \E answer \in {"ok", "err"} :
          /\ chat' = [chat EXCEPT !.startup = answer]
          /\ chan' = IF answer = "ok" /\ turn # "none" THEN Append(chan, "started") ELSE chan
    /\ UNCHANGED <<provider, interrupting, budget, turn, closing, delivered, history>>

TurnBegins ==
    /\ turn = "accepted"
    /\ turn' = "started"
    /\ chan' = Append(chan, "started")
    /\ UNCHANGED <<provider, chat, interrupting, budget, closing, delivered, history>>

\* The turn is cleared; one end is reported at a time.
Clears(end) ==
    /\ turn # "none" /\ closing = None
    /\ turn' = "none" /\ closing' = end

TurnEnds(end) ==
    /\ Clears(end)
    /\ UNCHANGED <<provider, chat, interrupting, budget, chan, delivered, history>>

EndReported ==
    /\ closing # None
    /\ chan' = Append(chan, closing) /\ closing' = None
    /\ UNCHANGED <<provider, chat, interrupting, budget, turn, delivered, history>>

\* An interrupt ends the turn, as interrupted (V2) or failed (V1), or does
\* nothing, or fails.
TakesStop ==
    /\ interrupting = "asked"
    /\ \/ interrupting' = "none" /\ \E end \in {"interrupted", "failed"} : Clears(end)
       \/ interrupting' \in {"none", "err"} /\ UNCHANGED <<turn, closing>>
    /\ UNCHANGED <<provider, chat, budget, chan, delivered, history>>

-----------------------------------------------------------------------------
QueueNext ==
    \/ UserClears \/ UserSendsHeld \/ UserInterrupts \/ FlagFlips
    \/ \E m \in Msg : \/ UserSends(m) \/ UserQueues(m) \/ UserFollowsUp(m) \/ UserRemoves(m)
                      \/ SendAnswered(m) \/ DrainAnswered(m) \/ FollowUpAnswered(m)
                      \/ TakesSend(m) \/ TakesFollowUp(m) \/ Refuses(m)
    \/ SessionStarted \/ RefoldLoads \/ StopFailed \/ StartArrives \/ EndArrives
    \/ SessionStarts \/ TurnBegins \/ EndReported \/ TakesStop
    \/ \E end \in {"done", "failed"} : TurnEnds(end)

QueueSpec == QueueInit /\ [][QueueNext]_queueVars

-----------------------------------------------------------------------------
\* What the user took out of the queue is not sent, not even by a drain under
\* way when it was taken out (removeQueuedMessage, clearAgentQueue).
RemovedNotSent ==
    \A m \in removed \ cutOff : delivered[m] = 0 /\ chat.call[m] = "none"

\* No text is lost and none is sent twice or after its removal.  A queued message
\* is in the queue until the user takes it out or the backend has it, whatever its
\* sends come to (drainAgentQueue); and it reaches the agent once, however the end
\* of its turn and the answer to its send are ordered.  A re-fold that ends the
\* generation of a drain in flight leaves the sent entry in the queue: those are
\* excepted.
Conserved ==
    /\ QueueTypeOK
    /\ \A m \in Range(entered) : m \in Range(chat.queue) \/ m \in removed \/ delivered[m] > 0
    /\ \A m \in Msg \ cutOff : delivered[m] <= 1
    /\ RemovedNotSent

\* Messages leave in the order they were queued.
QueueOrder ==
    \A i, j \in 1..Len(entered) :
        i < j /\ delivered[entered[j]] > 0 /\ entered[i] \in Range(chat.queue)
            => delivered[entered[i]] > 0

\* Nothing is under way: no turn, call, event or interrupt.
Settled ==
    /\ turn = "none" /\ closing = None /\ chan = <<>> /\ interrupting = "none"
    /\ InFlight(chat) = {}

\* When nothing runs the chat is not shown busy, which would send whatever is
\* typed next into a queue that no turn end drains; and without follow-ups a
\* queue is left waiting only where the user has been shown that a send failed,
\* since releaseAgentQueueDrain replays a turn end that a drain in flight hid.
\* Two things a re-fold does are excepted: it can leave a chat busy by giving
\* the session of a turn back, and a call it made stale fails without a word.
NoStranding ==
    Settled =>
        /\ chat.turnActive => givenBack
        /\ chat.queue # <<>> /\ ~chat.queueHeld /\ cutOff = {} /\ provider # "pi"
              => chat.error = "send"
=============================================================================
