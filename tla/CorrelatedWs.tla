----------------------------- MODULE CorrelatedWs -----------------------------
(***************************************************************************)
(* The WebSocket client shared by the CDP and VM-service adapters,         *)
(* crates/pickforge-core/src/correlated_ws.rs.  One slot, behind an async  *)
(* mutex, holds the current connection; connects, disconnects, requests    *)
(* and the two tasks of every connection race for it.                      *)
(*                                                                         *)
(* One step is one critical section of the slot, one of a connection's     *)
(* pending map, or one exchange with the peer.  A connection is named by   *)
(* its generation, which is the number of connects and disconnects begun   *)
(* before it.                                                              *)
(***************************************************************************)
EXTENDS Naturals, Sequences, FiniteSets

CONSTANTS Connect,     \* calls of connect
          Disconnect,  \* calls of disconnect
          Request      \* calls of request

ASSUME CallAssumption == /\ IsFiniteSet(Connect) /\ IsFiniteSet(Disconnect)
                         /\ Connect \cap Disconnect = {}

Caller == Connect \union Disconnect
Gen == 1 .. Cardinality(Caller)   \* every caller takes one generation
None == 0

VARIABLES
    generation,  \* ConnectionState.generation
    connection,  \* ConnectionState.connection: its generation, or None
    call,        \* where each connect and disconnect is
    gen,         \* the generation a caller took from the slot
    holds,       \* the connection a caller has taken out and must retire
    life,        \* each connection: unborn, installed, taken, cancelled, retired
    pending,     \* Connection.pending: request ids with a waiting sender
    nextId,      \* Connection.next_id
    out,         \* Connection.out: ids queued for the writer task
    writer,      \* the writer task of each connection
    reader,      \* its reader task
    socket,      \* "open", or "closed" by the peer
    wire,        \* requests the peer has and answers it sent: [asked, said]
    req,         \* where each request is
    at           \* the connection and id of each request

slotVars == <<generation, connection>>
callVars == <<call, gen, holds>>
taskVars == <<writer, reader>>
connVars == <<life, pending, nextId, out, socket, wire>>
reqVars  == <<req, at>>
vars == <<slotVars, callVars, taskVars, connVars, reqVars>>

CallPC == {"idle", "opening", "retire", "clear", "spawn",
           "done", "failed", "superseded"}
TaskPC == {"unborn", "runs", "ending", "retire", "clear", "gone"}
ReqPC  == {"idle", "waiting", "expired", "answered", "disconnected", "timeout"}

TypeOK ==
    /\ generation \in 0 .. Cardinality(Caller)
    /\ connection \in Gen \union {None}
    /\ call \in [Caller -> CallPC]
    /\ gen \in [Caller -> Gen \union {None}]
    /\ holds \in [Caller -> Gen \union {None}]
    /\ life \in [Gen -> {"unborn", "installed", "taken", "cancelled", "retired"}]
    /\ writer \in [Gen -> TaskPC] /\ reader \in [Gen -> TaskPC]
    /\ socket \in [Gen -> {"open", "closed"}]
    /\ req \in [Request -> ReqPC]
    /\ pending \in [Gen -> SUBSET Nat] /\ nextId \in [Gen -> Nat]
    /\ out \in [Gen -> Seq(Nat)]
    /\ wire \in [Gen -> [asked : SUBSET Nat, said : SUBSET Nat]]
    /\ at \in [Request -> [conn : Gen \union {None}, id : Nat]]
    /\ \A r \in Request : req[r] \in {"waiting", "expired"} => at[r].conn \in Gen

Init ==
    /\ generation = 0 /\ connection = None
    /\ call = [k \in Caller |-> "idle"]
    /\ gen = [k \in Caller |-> None]
    /\ holds = [k \in Caller |-> None]
    /\ life = [g \in Gen |-> "unborn"]
    /\ pending = [g \in Gen |-> {}]
    /\ nextId = [g \in Gen |-> 1]
    /\ out = [g \in Gen |-> <<>>]
    /\ writer = [g \in Gen |-> "unborn"]
    /\ reader = [g \in Gen |-> "unborn"]
    /\ socket = [g \in Gen |-> "open"]
    /\ wire = [g \in Gen |-> [asked |-> {}, said |-> {}]]
    /\ req = [r \in Request |-> "idle"]
    /\ at = [r \in Request |-> [conn |-> None, id |-> 0]]

-----------------------------------------------------------------------------
(* Variants, each a definition below with a plausible bug.                   *)

\* connect that installs what it opened without asking whether it is late.
InstallUnchecked(c) ==
    /\ call[c] = "opening"
    /\ connection' = gen[c]
    /\ life' = [g \in Gen |-> IF g = gen[c] THEN "installed"
                              ELSE IF g = connection THEN "taken" ELSE life[g]]
    /\ holds' = [holds EXCEPT ![c] = connection]
    /\ call' = [call EXCEPT ![c] = IF connection = None THEN "spawn" ELSE "retire"]
    /\ UNCHANGED <<generation, gen, pending, nextId, out, socket, wire, taskVars, reqVars>>

\* clear_generation that takes whatever connection it finds.
TakesAny(g) == connection # None

\* retire that cancels the tasks and leaves the waiting senders alone.
ClearedNone(g) == pending[g]

\* A replaced connection is dropped instead of retired.
AfterInstallForgets(old) == "spawn"

\* A reader that ends without giving its connection up.
ReaderLeaves(g) ==
    /\ reader[g] = "runs"
    /\ life[g] \in {"cancelled", "retired"} \/ socket[g] = "closed"
    /\ reader' = [reader EXCEPT ![g] = "gone"]
    /\ UNCHANGED <<slotVars, callVars, writer, connVars, reqVars>>

-----------------------------------------------------------------------------
(* connect                                                                   *)

\* connect, first lock: every attempt outdates those before it.
BeginConnect(c) ==
    /\ call[c] = "idle"
    /\ generation' = generation + 1
    /\ gen' = [gen EXCEPT ![c] = generation + 1]
    /\ call' = [call EXCEPT ![c] = "opening"]
    /\ UNCHANGED <<connection, holds, taskVars, connVars, reqVars>>

\* guard_loopback_ws_url refuses the address, or the handshake fails.  The
\* slot keeps the connection it has.
OpenFails(c) ==
    /\ call[c] = "opening"
    /\ call' = [call EXCEPT ![c] = "failed"]
    /\ UNCHANGED <<slotVars, gen, holds, taskVars, connVars, reqVars>>

\* The step after the second lock, given the connection that was replaced.
AfterInstall(old) == IF old = None THEN "spawn" ELSE "retire"

\* connect, second lock, when no call has begun since the first.
Install(c) ==
    /\ call[c] = "opening"
    /\ generation = gen[c]
    /\ connection' = gen[c]
    /\ life' = [g \in Gen |-> IF g = gen[c] THEN "installed"
                              ELSE IF g = connection THEN "taken" ELSE life[g]]
    /\ holds' = [holds EXCEPT ![c] = connection]
    /\ call' = [call EXCEPT ![c] = AfterInstall(connection)]
    /\ UNCHANGED <<generation, gen, pending, nextId, out, socket, wire, taskVars, reqVars>>

\* connect, second lock, when one has: Err(Superseded), and the socket it
\* opened is dropped.
Superseded(c) ==
    /\ call[c] = "opening"
    /\ generation # gen[c]
    /\ call' = [call EXCEPT ![c] = "superseded"]
    /\ UNCHANGED <<slotVars, gen, holds, taskVars, connVars, reqVars>>

\* tokio::spawn of the two tasks, after the replaced connection is retired.
SpawnTasks(c) ==
    /\ call[c] = "spawn"
    /\ writer' = [writer EXCEPT ![gen[c]] = "runs"]
    /\ reader' = [reader EXCEPT ![gen[c]] = "runs"]
    /\ call' = [call EXCEPT ![c] = "done"]
    /\ UNCHANGED <<slotVars, gen, holds, connVars, reqVars>>

\* disconnect: it also outdates the connects in flight.
BeginDisconnect(d) ==
    /\ call[d] = "idle"
    /\ generation' = generation + 1
    /\ gen' = [gen EXCEPT ![d] = generation + 1]
    /\ holds' = [holds EXCEPT ![d] = connection]
    /\ connection' = None
    /\ life' = [g \in Gen |-> IF g = connection THEN "taken" ELSE life[g]]
    /\ call' = [call EXCEPT ![d] = IF connection = None THEN "done" ELSE "retire"]
    /\ UNCHANGED <<pending, nextId, out, socket, wire, taskVars, reqVars>>

-----------------------------------------------------------------------------
(* Connection::retire, by the caller or task that took the connection out of *)
(* the slot and outside its lock: cancel the tasks, then drop every sender.  *)

Cancelled(g) == life' = [life EXCEPT ![g] = "cancelled"]

\* The senders left in the pending map once it has been cleared.
Cleared(g) == {}

Clear(g) ==
    /\ life' = [life EXCEPT ![g] = "retired"]
    /\ pending' = [pending EXCEPT ![g] = Cleared(g)]

CallerCancels(k) ==
    /\ call[k] = "retire"
    /\ Cancelled(holds[k])
    /\ call' = [call EXCEPT ![k] = "clear"]
    /\ UNCHANGED <<slotVars, gen, holds, pending, nextId, out, socket, wire, taskVars, reqVars>>

CallerClears(k) ==
    /\ call[k] = "clear"
    /\ Clear(holds[k])
    /\ call' = [call EXCEPT ![k] = IF k \in Connect THEN "spawn" ELSE "done"]
    /\ UNCHANGED <<slotVars, gen, holds, nextId, out, socket, wire, taskVars, reqVars>>

-----------------------------------------------------------------------------
(* The tasks of connection g                                                 *)

Cancel(g) == life[g] \in {"cancelled", "retired"}

\* run_writer: send the next message.  On a socket the peer has closed the
\* send may still succeed, into nothing, or fail, which ends the task.
Write(g) ==
    /\ writer[g] = "runs" /\ out[g] # <<>>
    /\ out' = [out EXCEPT ![g] = Tail(@)]
    /\ IF socket[g] = "open"
       THEN /\ wire' = [wire EXCEPT ![g].asked = @ \union {Head(out[g])}]
            /\ UNCHANGED writer
       ELSE /\ writer' \in {writer, [writer EXCEPT ![g] = "ending"]}
            /\ UNCHANGED wire
    /\ UNCHANGED <<slotVars, callVars, life, pending, nextId, socket, reader, reqVars>>

WriterEnds(g) ==
    /\ writer[g] = "runs"
    /\ Cancel(g)
    /\ writer' = [writer EXCEPT ![g] = "ending"]
    /\ UNCHANGED <<slotVars, callVars, reader, connVars, reqVars>>

\* The reader hands an answer to the sender waiting for its id, if there is
\* still one.
Deliver(g) ==
    /\ reader[g] = "runs"
    /\ \E i \in wire[g].said :
        /\ wire' = [wire EXCEPT ![g].said = @ \ {i}]
        /\ pending' = [pending EXCEPT ![g] = @ \ {i}]
        /\ req' = [r \in Request |->
                     IF req[r] = "waiting" /\ at[r] = [conn |-> g, id |-> i] /\ i \in pending[g]
                     THEN "answered" ELSE req[r]]
    /\ UNCHANGED <<slotVars, callVars, life, nextId, out, socket, taskVars, at>>

\* Cancelled, or the stream ended: answers still in the socket may be lost.
ReaderEnds(g) ==
    /\ reader[g] = "runs"
    /\ Cancel(g) \/ socket[g] = "closed"
    /\ reader' = [reader EXCEPT ![g] = "ending"]
    /\ UNCHANGED <<slotVars, callVars, writer, connVars, reqVars>>

\* clear_generation takes the slot's connection only if it is the caller's.
Takes(g) == connection = g

\* clear_generation as the last act of the task that task[g] stands for.
ClearGeneration(task, g) ==
    /\ task[g] = "ending"
    /\ IF Takes(g)
       THEN /\ connection' = None
            /\ life' = [life EXCEPT ![connection] = "taken"]
            /\ task' = [task EXCEPT ![g] = "retire"]
       ELSE /\ task' = [task EXCEPT ![g] = "gone"]
            /\ UNCHANGED <<connection, life>>
    /\ UNCHANGED <<generation, callVars, pending, nextId, out, socket, wire, reqVars>>

TaskCancels(task, g) ==
    /\ task[g] = "retire"
    /\ Cancelled(g)
    /\ task' = [task EXCEPT ![g] = "clear"]
    /\ UNCHANGED <<slotVars, callVars, pending, nextId, out, socket, wire, reqVars>>

TaskClears(task, g) ==
    /\ task[g] = "clear"
    /\ Clear(g)
    /\ task' = [task EXCEPT ![g] = "gone"]
    /\ UNCHANGED <<slotVars, callVars, nextId, out, socket, wire, reqVars>>

\* What a task does once its loop is over.
Finish(task, g) ==
    ClearGeneration(task, g) \/ TaskCancels(task, g) \/ TaskClears(task, g)

WriterFinishes(g) == Finish(writer, g) /\ UNCHANGED reader
ReaderFinishes(g) == Finish(reader, g) /\ UNCHANGED writer

-----------------------------------------------------------------------------
(* request                                                                   *)

\* Under the slot's lock: number the request, leave a sender for its answer
\* and queue it.  (The queue's receiver lives until the writer task has given
\* the connection up, so the send does not fail: NothingLeftWaiting.)
Ask(r) ==
    /\ req[r] = "idle"
    /\ connection # None
    /\ LET g == connection IN
        /\ at' = [at EXCEPT ![r] = [conn |-> g, id |-> nextId[g]]]
        /\ nextId' = [nextId EXCEPT ![g] = @ + 1]
        /\ pending' = [pending EXCEPT ![g] = @ \union {nextId[g]}]
        /\ out' = [out EXCEPT ![g] = Append(@, nextId[g])]
    /\ req' = [req EXCEPT ![r] = "waiting"]
    /\ UNCHANGED <<slotVars, callVars, taskVars, life, socket, wire>>

AskRefused(r) ==
    /\ req[r] = "idle"
    /\ connection = None
    /\ req' = [req EXCEPT ![r] = "disconnected"]
    /\ UNCHANGED <<slotVars, callVars, taskVars, connVars, at>>

HasSender(r) == at[r].id \in pending[at[r].conn]

\* The sender was dropped without an answer.
Hear(r) ==
    /\ req[r] = "waiting" /\ ~HasSender(r)
    /\ req' = [req EXCEPT ![r] = "disconnected"]
    /\ UNCHANGED <<slotVars, callVars, taskVars, connVars, at>>

\* tokio::time::timeout elapses; only then is the sender taken back, and an
\* answer that arrives in between finds a receiver already gone.
Expire(r) ==
    /\ req[r] = "waiting" /\ HasSender(r)
    /\ req' = [req EXCEPT ![r] = "expired"]
    /\ UNCHANGED <<slotVars, callVars, taskVars, connVars, at>>

TakeBack(r) ==
    /\ req[r] = "expired"
    /\ pending' = [pending EXCEPT ![at[r].conn] = @ \ {at[r].id}]
    /\ req' = [req EXCEPT ![r] = "timeout"]
    /\ UNCHANGED <<slotVars, callVars, taskVars, life, nextId, out, socket, wire, at>>

-----------------------------------------------------------------------------
(* The peer: it answers in any order, or not at all, and may go away.        *)

PeerAnswers(g) ==
    /\ socket[g] = "open"
    /\ \E i \in wire[g].asked :
        wire' = [wire EXCEPT ![g] = [asked |-> @.asked \ {i}, said |-> @.said \union {i}]]
    /\ UNCHANGED <<slotVars, callVars, taskVars, life, pending, nextId, out, socket, reqVars>>

PeerCloses(g) ==
    /\ life[g] # "unborn" /\ socket[g] = "open"
    /\ socket' = [socket EXCEPT ![g] = "closed"]
    /\ UNCHANGED <<slotVars, callVars, taskVars, life, pending, nextId, out, wire, reqVars>>

Next ==
    \/ \E c \in Connect : \/ BeginConnect(c) \/ OpenFails(c) \/ Install(c)
                          \/ Superseded(c) \/ SpawnTasks(c)
    \/ \E d \in Disconnect : BeginDisconnect(d)
    \/ \E k \in Caller : CallerCancels(k) \/ CallerClears(k)
    \/ \E g \in Gen : \/ Write(g) \/ WriterEnds(g) \/ Deliver(g) \/ ReaderEnds(g)
                      \/ WriterFinishes(g) \/ ReaderFinishes(g)
                      \/ PeerAnswers(g) \/ PeerCloses(g)
    \/ \E r \in Request : Ask(r) \/ AskRefused(r) \/ Hear(r) \/ Expire(r) \/ TakeBack(r)

Spec == Init /\ [][Next]_vars

\* The runtime runs every task and caller that can run, and timers fire.  A
\* handshake may hang and the peer owes nothing.
Fairness ==
    /\ \A c \in Connect : WF_vars(SpawnTasks(c))
    /\ \A k \in Caller : WF_vars(CallerCancels(k) \/ CallerClears(k))
    /\ \A g \in Gen : /\ WF_vars(WriterEnds(g)) /\ WF_vars(WriterFinishes(g))
                      /\ WF_vars(ReaderEnds(g)) /\ WF_vars(ReaderFinishes(g))
    /\ \A r \in Request : WF_vars(Hear(r) \/ Expire(r) \/ TakeBack(r))

FairSpec == Spec /\ Fairness

-----------------------------------------------------------------------------

\* A call that has had its say about the slot: a connect that installed, a
\* disconnect that began.
Decided == {c \in Connect : call[c] \in {"retire", "clear", "spawn", "done"}}
           \union {d \in Disconnect : call[d] # "idle"}

\* A connect that resolves late never replaces a newer connection and never
\* undoes a disconnect that began after it.
LateIsSuperseded ==
    /\ TypeOK
    /\ connection # None => \A k \in Decided : gen[k] <= connection

\* A connection that is still up is lost to nobody but a disconnect or a newer
\* connection: the end of an old connection's tasks does not touch it.
OnlyOwnEnds ==
    [][connection # None /\ connection' = None =>
         \/ socket[connection] = "closed"
         \/ \E d \in Disconnect : call[d] = "idle" /\ call'[d] # "idle"]_vars

\* A retired connection keeps no waiting request: whoever waited on it hears
\* of the disconnection at once and not after the ten seconds of a timeout.
\* And the slot never holds a connection whose writer is gone.
NothingLeftWaiting ==
    /\ \A r \in Request : req[r] = "waiting" /\ HasSender(r) => life[at[r].conn] # "retired"
    /\ connection # None => writer[connection] # "gone"

\* What has ended is over in full.  A connection that left the slot is retired,
\* and its tasks and with them its socket end; a connection whose peer is gone
\* does not stay in the slot; and every request comes back.  (The calls are
\* finitely many and nothing ended comes back, so "at last, for good" is as
\* strong as one leads-to for each.)
EndedIsOver ==
    <>[](/\ \A g \in Gen : life[g] \in {"taken", "cancelled", "retired"} =>
               life[g] = "retired" /\ writer[g] = "gone" /\ reader[g] = "gone"
         /\ connection # None => socket[connection] = "open"
         /\ \A r \in Request : req[r] \notin {"waiting", "expired"})

=============================================================================
