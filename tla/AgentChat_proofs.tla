--------------------------- MODULE AgentChat_proofs ----------------------------
(***************************************************************************)
(* Proofs about an agent chat, in two parts that share nothing.  For the   *)
(* store's queue (AgentQueue), whatever the messages: none is lost, sent   *)
(* twice or overtaken, and no chat is left busy or waiting without reason. *)
(* For the manager's turns (AgentTurns), whatever the calls: no runner is  *)
(* without an owner, nothing survives shutdown, and a caller that waits    *)
(* for the end of a turn hears that of its own.                            *)
(***************************************************************************)
EXTENDS AgentQueue, AgentTurns, SequenceTheorems, FiniteSetTheorems, TLAPS

-----------------------------------------------------------------------------
(* The queue: what always holds                                              *)

\* No message was queued twice.
Distinct(e) == \A i, j \in DOMAIN e : e[i] = e[j] => i = j

\* The queue is in the order of entry.
Ordered(q, e) ==
    \A i, j \in DOMAIN q : \A k, l \in DOMAIN e :
        i < j /\ q[i] = e[k] /\ q[j] = e[l] => k < l

\* What the queue of the entry c holds, given the messages e that were queued
\* and the messages r that the user took out.
Lined(c, e, r) ==
    /\ Distinct(e) /\ Ordered(c.queue, e)
    /\ Range(c.queue) \subseteq Range(e)
    /\ \A m \in Msg : c.kind[m] = "queued" <=> m \in Range(e)
    /\ r \subseteq Range(e) /\ r \intersect Range(c.queue) = {}

\* Which calls can be in flight.  A drain sends the head of the queue, and the
\* head stays until the drain is over.
Called(c) ==
    /\ c.draining # None =>
          c.queue # <<>> /\ c.queue[1] = c.draining /\ c.call[c.draining] # "none"
    /\ \A m \in Msg :
          /\ c.kind[m] = "queued" /\ c.call[m] # "none" => m = c.draining
          /\ c.kind[m] = "new" => c.call[m] = "none"
          /\ c.call[m] = "starting" => c.kind[m] \in {"send", "queued"}
          /\ c.kind[m] = "followUp" => provider = "pi"
    /\ c.stale \subseteq InFlight(c)

\* A start under way has a send that waits for it, and one gone stale has one
\* that went stale with it.
Awaited(c) ==
    /\ c.startup # "none" => \E m \in Msg : c.call[m] = "starting"
    /\ c.startupStale => \E m \in c.stale : c.call[m] = "starting"

\* What the backend has of each message; d is delivered and x is cutOff.
Counted(c, r, d, x) ==
    \A m \in Msg :
        /\ c.kind[m] = "new" => d[m] = 0
        /\ c.kind[m] \in {"new", "followUp"} => m \notin x
        /\ c.call[m] = "ok" => d[m] > 0
        /\ m \notin x => d[m] <= 1
        /\ c.call[m] \in {"starting", "asked", "err"} /\ m \notin x => d[m] = 0
        /\ m \in r /\ m \notin x => d[m] = 0 /\ c.call[m] = "none"
        /\ c.kind[m] = "queued" =>
              /\ m \in Range(c.queue) /\ m \notin x /\ d[m] > 0 => c.call[m] = "ok"
              /\ m \notin Range(c.queue) /\ m \notin r => d[m] > 0

\* A message the backend has is behind no message of the queue that it lacks.
Passed(c, e, d) ==
    \A i, j \in DOMAIN e :
        i < j /\ d[e[j]] > 0 /\ e[i] \in Range(c.queue) => d[e[i]] > 0

\* All of that.
KeptIn(c, e, r, d, x) ==
    /\ Lined(c, e, r) /\ Called(c) /\ Awaited(c)
    /\ Counted(c, r, d, x) /\ Passed(c, e, d)

Kept == KeptIn(chat, entered, removed, delivered, cutOff)

\* What the history of a queue is made of.
History(e, r, d, x) ==
    e \in Seq(Msg) /\ r \subseteq Msg /\ d \in [Msg -> Nat] /\ x \subseteq Msg

-----------------------------------------------------------------------------
\* A send that will start a turn or roll back, and one whose outcome the store
\* will still act on.
Pending(c, m) == c.kind[m] # "followUp" /\ c.call[m] \in {"starting", "asked", "err"}
Asking(c) == \E m \in Msg \ c.stale : Pending(c, m)

\* The end of a turn is to come.
EndComes == turn # "none" \/ closing # None \/ \E i \in DOMAIN chan : chan[i] \in Ends

\* An idle chat with messages that wait.
Idle(c) == ~c.turnActive /\ c.queue # <<>> /\ ~c.queueHeld

\* What will move them, or has told the user that nothing will: a drain that
\* leaves no other message or saw the end of a turn, or a send in flight.
Stirs(c) ==
    \/ c.error = "send"
    \/ c.draining # None /\ (c.missed \/ Len(c.queue) = 1)
    \/ \E m \in Msg : Pending(c, m)

\* A chat shown busy will hear an end or a failure.
Busy == chat.turnActive /\ ~givenBack => EndComes \/ Asking(chat)

\* The turn announced last is not over.
Announced == chan # <<>> /\ chan[Len(chan)] = "started" /\ ~givenBack =>
                 turn # "none" \/ closing # None

\* An idle chat with a queue is about to drain it, or has shown a failure.
Moving == Idle(chat) /\ cutOff = {} /\ provider # "pi" => Stirs(chat) \/ EndComes

Lively == Busy /\ Announced /\ Moving

\* A start that gives a session back fails a send that went stale with it.
GivesUp == givenBack => cutOff # {}

QueueInv == QueueTypeOK /\ Kept /\ Lively /\ GivesUp
-----------------------------------------------------------------------------
(* Sequences                                                                 *)

\* What Range is over the positions of a sequence.
LEMMA InRange ==
    ASSUME NEW q, NEW m
    PROVE  m \in Range(q) <=> \E i \in DOMAIN q : q[i] = m
BY DEF Range

\* Adding an entry at the end.
LEMMA AppendFacts ==
    ASSUME NEW S, NEW q \in Seq(S), NEW m \in S
    PROVE  /\ Append(q, m) \in Seq(S)
           /\ DOMAIN Append(q, m) = 1..Len(q)+1 /\ DOMAIN q = 1..Len(q)
           /\ \A i \in DOMAIN q : Append(q, m)[i] = q[i]
           /\ Append(q, m)[Len(q)+1] = m
           /\ Len(Append(q, m)) = Len(q) + 1 /\ Append(q, m) # <<>>
           /\ Range(Append(q, m)) = Range(q) \union {m}
<1>1. /\ Append(q, m) \in Seq(S)
      /\ DOMAIN Append(q, m) = 1..Len(q)+1 /\ DOMAIN q = 1..Len(q)
      /\ \A i \in DOMAIN q : Append(q, m)[i] = q[i]
      /\ Append(q, m)[Len(q)+1] = m
      /\ Len(Append(q, m)) = Len(q) + 1 /\ Append(q, m) # <<>>
  BY AppendProperties, LenProperties
<1>2. Len(q) \in Nat
  BY LenProperties
<1>3. \A x : x \in Range(Append(q, m)) <=> x \in Range(q) \union {m}
  BY <1>1, <1>2 DEF Range
<1> QED
  BY <1>1, <1>3

\* Taking an entry out of a queue without repetitions.
LEMMA WithoutFacts ==
    ASSUME NEW q \in Seq(Msg), NEW m \in Msg, Distinct(q)
    PROVE  /\ Without(q, m) \in Seq(Msg)
           /\ Range(Without(q, m)) = Range(q) \ {m}
           /\ \A i, j \in DOMAIN Without(q, m) : i < j =>
                 \E k, l \in DOMAIN q : /\ k < l
                                        /\ q[k] = Without(q, m)[i]
                                        /\ q[l] = Without(q, m)[j]
           /\ q # <<>> /\ q[1] # m => Without(q, m) # <<>> /\ Without(q, m)[1] = q[1]
           /\ m \in Range(q) => Len(Without(q, m)) = Len(q) - 1
<1> DEFINE w == Without(q, m)
<1>0. DOMAIN q = 1..Len(q) /\ Len(q) \in Nat /\ \A i \in DOMAIN q : q[i] \in Msg
  BY LenProperties, ElementOfSeq
<1>1. CASE m \notin Range(q)
  <2>1. w = q
    BY <1>0, <1>1, InRange DEF Without, RemoveFirst
  <2>2. q # <<>> => Len(q) # 0
    BY EmptySeq
  <2> QED
    BY <1>0, <1>1, <2>1
<1>2. CASE m \in Range(q)
  <2>1. PICK p \in 1..Len(q) : q[p] = m
    BY <1>0, <1>2, InRange
  <2>2. {i \in 1..Len(q) : q[i] = m} = {p}
    BY <1>0, <2>1 DEF Distinct
  <2>3. SelectInSeq(q, LAMBDA v : v = m) = p
    <3>1. Min({p}) = p
      BY <2>1 DEF Min
    <3> QED
      BY <2>2, <3>1 DEF SelectInSeq
  <2>4. w = SubSeq(q, 1, p-1) \o SubSeq(q, p+1, Len(q))
    BY <2>1, <2>3 DEF Without, RemoveFirst, RemoveAt
  <2> DEFINE a == SubSeq(q, 1, p-1)
             b == SubSeq(q, p+1, Len(q))
  <2>5. a \in Seq(Msg) /\ Len(a) = p-1 /\ \A i \in 1..p-1 : a[i] = q[i]
    BY <1>0, <2>1, SubSeqProperties
  <2>6. b \in Seq(Msg) /\ Len(b) = Len(q) - p /\ \A i \in 1..Len(q)-p : b[i] = q[p+i]
    <3>1. p + 1 \in Int /\ Len(q) \in Int /\ \A i \in p+1..Len(q) : q[i] \in Msg
      BY <1>0, <2>1
    <3>2. b \in Seq(Msg)
      BY <3>1, SubSeqProperties
    <3>3. Len(b) = IF p+1 <= Len(q) THEN Len(q)-(p+1)+1 ELSE 0
      BY <3>1, SubSeqProperties
    <3>4. \A i \in 1..Len(q)-(p+1)+1 : b[i] = q[(p+1)+i-1]
      BY <3>1, SubSeqProperties
    <3> HIDE DEF b
    <3> DEFINE n == Len(q)
               lb == Len(b)
    <3>5. n \in Nat /\ p \in 1..n
      BY <1>0, <2>1
    <3>6. lb = n - p
      <4> HIDE DEF n, lb
      <4> QED
        BY <3>3, <3>5 DEF n, lb
    <3>7. ASSUME NEW i \in 1..n-p PROVE b[i] = q[p+i]
      <4>1. b[i] = q[(p+1)+i-1]
        BY <3>4, <3>5
      <4>2. (p+1)+i-1 = p+i
        BY <3>5
      <4> QED
        BY <4>1, <4>2
    <3> QED
      BY <3>2, <3>6, <3>7
  <2>7. /\ w \in Seq(Msg) /\ Len(w) = Len(q) - 1
        /\ \A i \in 1..Len(q)-1 : w[i] = IF i < p THEN q[i] ELSE q[i+1]
    <3>0. w = a \o b
      BY <2>4
    <3> HIDE DEF a, b, w
    <3>1. w \in Seq(Msg) /\ Len(w) = Len(a) + Len(b)
      BY <3>0, <2>5, <2>6, ConcatProperties
    <3>2. \A i \in 1..Len(a)+Len(b) : w[i] = IF i <= Len(a) THEN a[i] ELSE b[i - Len(a)]
      BY <3>0, <2>5, <2>6, ConcatProperties
    <3>3. Len(a) = p-1 /\ Len(a) + Len(b) = Len(q)-1 /\ p \in 1..Len(q)
      BY <1>0, <2>1, <2>5, <2>6
    <3>4. ASSUME NEW i \in 1..Len(q)-1 PROVE w[i] = IF i < p THEN q[i] ELSE q[i+1]
      <4>1. CASE i < p
        <5>1. w[i] = a[i] /\ i \in 1..p-1
          BY <4>1, <1>0, <3>2, <3>3
        <5> QED
          BY <4>1, <5>1, <2>5
      <4>2. CASE ~(i < p)
        <5>1. i \in 1..Len(a)+Len(b) /\ ~(i <= Len(a)) /\ i - Len(a) = i - (p-1)
          BY <4>2, <1>0, <3>3
        <5>2. w[i] = b[i - (p-1)]
          BY <5>1, <3>2
        <5>3. i - (p-1) \in 1..Len(q)-p /\ p + (i - (p-1)) = i + 1
          BY <4>2, <1>0, <3>3
        <5>4. b[i - (p-1)] = q[p + (i - (p-1))]
          BY <5>3, <2>6
        <5> QED
          BY <4>2, <5>2, <5>3, <5>4
      <4> QED
        BY <4>1, <4>2
    <3> QED
      BY <3>1, <3>3, <3>4
  <2>8. DOMAIN w = 1..Len(q)-1
    BY <2>7, LenProperties
  <2> HIDE DEF a, b, w
  <2>9. Range(w) = Range(q) \ {m}
    <3>1. ASSUME NEW x \in Range(w) PROVE x \in Range(q) \ {m}
      <4>1. PICK i \in 1..Len(q)-1 : w[i] = x
        BY <2>8, InRange
      <4>2. PICK k \in 1..Len(q) : x = q[k] /\ k # p
        BY <4>1, <1>0, <2>1, <2>7
      <4> QED
        BY <4>2, <1>0, <2>1, InRange DEF Distinct
    <3>2. ASSUME NEW x \in Range(q) \ {m} PROVE x \in Range(w)
      <4>1. PICK k \in 1..Len(q) : q[k] = x /\ k # p
        BY <1>0, <2>1, InRange
      <4>2. CASE k < p
        <5>1. k \in 1..Len(q)-1 /\ w[k] = x
          BY <4>1, <4>2, <1>0, <2>1, <2>7
        <5> QED
          BY <5>1, <2>8, InRange
      <4>3. CASE k > p
        <5>1. k-1 \in 1..Len(q)-1 /\ w[k-1] = x
          BY <4>1, <4>3, <1>0, <2>1, <2>7
        <5> QED
          BY <5>1, <2>8, InRange
      <4> QED
        BY <4>1, <4>2, <4>3, <1>0, <2>1
    <3> QED
      BY <3>1, <3>2
  <2>10. ASSUME NEW i \in DOMAIN w, NEW j \in DOMAIN w, i < j
         PROVE  \E k, l \in DOMAIN q : k < l /\ q[k] = w[i] /\ q[l] = w[j]
    <3> DEFINE k == IF i < p THEN i ELSE i + 1
               l == IF j < p THEN j ELSE j + 1
    <3>1. k \in DOMAIN q /\ l \in DOMAIN q /\ k < l
      BY <1>0, <2>1, <2>8, <2>10
    <3>2. q[k] = w[i] /\ q[l] = w[j]
      BY <2>7, <2>8, <2>10
    <3> QED
      BY <3>1, <3>2
  <2>11. ASSUME q # <<>>, q[1] # m PROVE w # <<>> /\ w[1] = q[1]
    <3>1. p # 1
      BY <2>1, <2>11
    <3>2. 1 \in 1..Len(q)-1 /\ w[1] = q[1]
      BY <3>1, <1>0, <2>1, <2>7
    <3> QED
      BY <3>2, <2>8
  <2> QED
    BY <1>2, <2>7, <2>9, <2>10, <2>11 DEF w
<1> QED
  BY <1>1, <1>2

-----------------------------------------------------------------------------
(* What the functions of the store do to the fields of an entry              *)

\* sendAgentMessage marks the chat busy and puts the call of m on its way.
LEMMA SendsFields ==
    ASSUME NEW c \in Chat, NEW m \in Msg
    PROVE  /\ Sends(c, m) \in Chat
           /\ Sends(c, m).turnActive = TRUE /\ Sends(c, m).error = "none"
           /\ Sends(c, m).queue = c.queue /\ Sends(c, m).queueHeld = c.queueHeld
           /\ Sends(c, m).draining = c.draining /\ Sends(c, m).missed = c.missed
           /\ Sends(c, m).kind = c.kind /\ Sends(c, m).stale = c.stale
           /\ Sends(c, m).call =
                 [c.call EXCEPT ![m] = IF c.session THEN "asked" ELSE "starting"]
           /\ Sends(c, m).startup =
                 IF c.session \/ c.startup # "none" THEN c.startup ELSE "asked"
           /\ Sends(c, m).startupStale = c.startupStale
<1>1. CASE c.session
  BY <1>1 DEF Sends, Chat
<1>2. CASE ~c.session
  BY <1>2 DEF Sends, Chat
<1> QED
  BY <1>1, <1>2

\* enqueueAgentMessage only adds an entry.
LEMMA QueuesFields ==
    ASSUME NEW c \in Chat, NEW m \in Msg
    PROVE  /\ Queues(c, m) \in Chat
           /\ Queues(c, m).turnActive = c.turnActive /\ Queues(c, m).error = c.error
           /\ Queues(c, m).queue = Append(c.queue, m)
           /\ Queues(c, m).queueHeld = c.queueHeld
           /\ Queues(c, m).draining = c.draining /\ Queues(c, m).missed = c.missed
           /\ Queues(c, m).kind = [c.kind EXCEPT ![m] = "queued"]
           /\ Queues(c, m).stale = c.stale /\ Queues(c, m).call = c.call
           /\ Queues(c, m).startup = c.startup
           /\ Queues(c, m).startupStale = c.startupStale
<1>1. Append(c.queue, m) \in Seq(Msg)
  BY AppendFacts DEF Chat
<1> QED
  BY <1>1 DEF Queues, Chat

\* The entry with its first queued message on its way.
HeadSent(c) == [Sends(c, Head(c.queue)) EXCEPT !.draining = Head(c.queue)]

\* The first entry of a queue.
LEMMA HeadOfQueue ==
    ASSUME NEW c \in Chat, c.queue # <<>>
    PROVE  Head(c.queue) = c.queue[1] /\ c.queue[1] \in Msg /\ 1 \in DOMAIN c.queue
           /\ c.queue[1] \in Range(c.queue)
<1>1. c.queue \in Seq(Msg)
  BY DEF Chat
<1>2. Head(c.queue) = c.queue[1] /\ Len(c.queue) # 0 /\ Len(c.queue) \in Nat
      /\ DOMAIN c.queue = 1..Len(c.queue)
  BY <1>1, HeadTailProperties, EmptySeq, LenProperties
<1> QED
  BY <1>1, <1>2, ElementOfSeq, InRange

\* A drain sends the first entry, which stays in the queue.
LEMMA HeadSentFields ==
    ASSUME NEW c \in Chat, c.queue # <<>>
    PROVE  /\ HeadSent(c) \in Chat
           /\ HeadSent(c).turnActive = TRUE /\ HeadSent(c).error = "none"
           /\ HeadSent(c).queue = c.queue /\ HeadSent(c).queueHeld = c.queueHeld
           /\ HeadSent(c).draining = c.queue[1] /\ HeadSent(c).missed = c.missed
           /\ HeadSent(c).kind = c.kind /\ HeadSent(c).stale = c.stale
           /\ HeadSent(c).call =
                 [c.call EXCEPT ![c.queue[1]] = IF c.session THEN "asked" ELSE "starting"]
           /\ HeadSent(c).startup =
                 IF c.session \/ c.startup # "none" THEN c.startup ELSE "asked"
           /\ HeadSent(c).startupStale = c.startupStale
<1> DEFINE h == c.queue[1]
           s == Sends(c, h)
<1>1. Head(c.queue) = h /\ h \in Msg
  BY HeadOfQueue
<1>2. HeadSent(c) = [s EXCEPT !.draining = h]
  BY <1>1 DEF HeadSent
<1>3. s \in Chat
  BY <1>1, SendsFields
<1>4. [s EXCEPT !.draining = h] \in Chat
  <2> HIDE DEF s, h
  <2> QED
    BY <1>1, <1>3 DEF Chat
<1>5. /\ [s EXCEPT !.draining = h].draining = h
      /\ [s EXCEPT !.draining = h].turnActive = s.turnActive
      /\ [s EXCEPT !.draining = h].error = s.error
      /\ [s EXCEPT !.draining = h].queue = s.queue
      /\ [s EXCEPT !.draining = h].queueHeld = s.queueHeld
      /\ [s EXCEPT !.draining = h].missed = s.missed
      /\ [s EXCEPT !.draining = h].kind = s.kind
      /\ [s EXCEPT !.draining = h].stale = s.stale
      /\ [s EXCEPT !.draining = h].call = s.call
      /\ [s EXCEPT !.draining = h].startup = s.startup
      /\ [s EXCEPT !.draining = h].startupStale = s.startupStale
  <2> HIDE DEF s, h
  <2> QED
    BY <1>1, <1>3 DEF Chat
<1>6. /\ s.turnActive = TRUE /\ s.error = "none" /\ s.queue = c.queue
      /\ s.queueHeld = c.queueHeld /\ s.missed = c.missed /\ s.kind = c.kind
      /\ s.stale = c.stale /\ s.startupStale = c.startupStale
      /\ s.call = [c.call EXCEPT ![h] = IF c.session THEN "asked" ELSE "starting"]
      /\ s.startup = IF c.session \/ c.startup # "none" THEN c.startup ELSE "asked"
  BY <1>1, SendsFields
<1> HIDE DEF s
<1> QED
  BY <1>2, <1>4, <1>5, <1>6

\* The three things a drain can come to.
LEMMA DrainsIs ==
    ASSUME NEW c \in Chat
    PROVE  /\ ~Drainable(c) => Drains(c) = c
           /\ Drainable(c) /\ c.draining # None => Drains(c) = [c EXCEPT !.missed = TRUE]
           /\ Drainable(c) /\ c.draining = None => Drains(c) = HeadSent(c)
BY DEF Drains, HeadSent

\* A drain that finds another under way only leaves word.
LEMMA MissedFields ==
    ASSUME NEW c \in Chat
    PROVE  LET b == [c EXCEPT !.missed = TRUE]
           IN  /\ b \in Chat /\ b.missed = TRUE
               /\ b.turnActive = c.turnActive /\ b.error = c.error
               /\ b.queue = c.queue /\ b.queueHeld = c.queueHeld
               /\ b.draining = c.draining /\ b.kind = c.kind /\ b.stale = c.stale
               /\ b.call = c.call /\ b.startup = c.startup
               /\ b.startupStale = c.startupStale
BY DEF Chat

\* A call that is over is neither in flight nor stale.
LEMMA SettlesFields ==
    ASSUME NEW c \in Chat, NEW ms \in SUBSET Msg
    PROVE  /\ Settles(c, ms) \in Chat
           /\ Settles(c, ms).turnActive = c.turnActive /\ Settles(c, ms).error = c.error
           /\ Settles(c, ms).queue = c.queue /\ Settles(c, ms).queueHeld = c.queueHeld
           /\ Settles(c, ms).draining = c.draining /\ Settles(c, ms).missed = c.missed
           /\ Settles(c, ms).kind = c.kind /\ Settles(c, ms).stale = c.stale \ ms
           /\ Settles(c, ms).call =
                 [m \in Msg |-> IF m \in ms THEN "none" ELSE c.call[m]]
           /\ Settles(c, ms).startup = c.startup
           /\ Settles(c, ms).startupStale = c.startupStale
           /\ Settles(c, ms).session = c.session
BY DEF Settles, Chat

\* releaseAgentQueueDrain forgets the drain, not its entry.
LEMMA ReleasesFields ==
    ASSUME NEW c \in Chat
    PROVE  /\ Releases(c) \in Chat
           /\ Releases(c).turnActive = c.turnActive /\ Releases(c).error = c.error
           /\ Releases(c).queue = c.queue /\ Releases(c).queueHeld = c.queueHeld
           /\ Releases(c).draining = None /\ Releases(c).missed = FALSE
           /\ Releases(c).kind = c.kind /\ Releases(c).stale = c.stale
           /\ Releases(c).call = c.call /\ Releases(c).startup = c.startup
           /\ Releases(c).startupStale = c.startupStale
BY DEF Releases, Chat

\* rollbackFailedSend ends the turn and shows the failure.
LEMMA RollsBackFields ==
    ASSUME NEW c \in Chat
    PROVE  /\ RollsBack(c) \in Chat
           /\ RollsBack(c).turnActive = FALSE /\ RollsBack(c).error = "send"
           /\ RollsBack(c).queue = c.queue /\ RollsBack(c).queueHeld = c.queueHeld
           /\ RollsBack(c).draining = c.draining /\ RollsBack(c).missed = c.missed
           /\ RollsBack(c).kind = c.kind /\ RollsBack(c).stale = c.stale
           /\ RollsBack(c).call = c.call /\ RollsBack(c).startup = c.startup
           /\ RollsBack(c).startupStale = c.startupStale
BY DEF RollsBack, Chat

\* The calls of ms are over, and with them the drain if it is among them.
IsOver(b, c, ms) ==
    /\ ms \subseteq Msg
    /\ b.queue = c.queue /\ b.kind = c.kind /\ b.stale = c.stale \ ms
    /\ b.draining = IF c.draining \in ms THEN None ELSE c.draining
    /\ b.call = [m \in Msg |-> IF m \in ms THEN "none" ELSE c.call[m]]

\* What a failure of the sends ms leaves.
LEMMA SendsFailFields ==
    ASSUME NEW c \in Chat, NEW ms \in SUBSET Msg
    PROVE  /\ SendsFail(c, ms) \in Chat /\ IsOver(SendsFail(c, ms), c, ms)
           /\ SendsFail(c, ms).queueHeld = c.queueHeld
           /\ ms \subseteq c.stale => /\ SendsFail(c, ms).turnActive = c.turnActive
                                      /\ SendsFail(c, ms).error = c.error
           /\ ~(ms \subseteq c.stale) => /\ SendsFail(c, ms).turnActive = FALSE
                                         /\ SendsFail(c, ms).error = "send"
           /\ SendsFail(c, ms).missed = IF c.draining \in ms THEN FALSE ELSE c.missed
           /\ SendsFail(c, ms).startup = c.startup
           /\ SendsFail(c, ms).startupStale = c.startupStale
<1> DEFINE over == Settles(c, ms)
           back == IF ms \subseteq c.stale THEN over ELSE RollsBack(over)
<1>1. /\ back \in Chat /\ back.queue = c.queue /\ back.queueHeld = c.queueHeld
      /\ ms \subseteq c.stale => back.turnActive = c.turnActive /\ back.error = c.error
      /\ ~(ms \subseteq c.stale) => back.turnActive = FALSE /\ back.error = "send"
      /\ back.draining = c.draining /\ back.missed = c.missed
      /\ back.kind = c.kind /\ back.stale = c.stale \ ms
      /\ back.call = [m \in Msg |-> IF m \in ms THEN "none" ELSE c.call[m]]
      /\ back.startup = c.startup /\ back.startupStale = c.startupStale
  <2>1. /\ over \in Chat /\ over.queue = c.queue /\ over.queueHeld = c.queueHeld
        /\ over.turnActive = c.turnActive /\ over.error = c.error
        /\ over.draining = c.draining /\ over.missed = c.missed
        /\ over.kind = c.kind /\ over.stale = c.stale \ ms
        /\ over.call = [m \in Msg |-> IF m \in ms THEN "none" ELSE c.call[m]]
        /\ over.startup = c.startup /\ over.startupStale = c.startupStale
    BY SettlesFields
  <2> HIDE DEF over
  <2>2. CASE ms \subseteq c.stale
    BY <2>2, <2>1
  <2>3. CASE ~(ms \subseteq c.stale)
    BY <2>3, <2>1, RollsBackFields
  <2> QED
    BY <2>2, <2>3
<1>2. SendsFail(c, ms) = IF c.draining \in ms THEN Releases(back) ELSE back
  BY DEF SendsFail
<1> HIDE DEF back
<1>3. /\ Releases(back) \in Chat
      /\ Releases(back).turnActive = back.turnActive /\ Releases(back).error = back.error
      /\ Releases(back).queue = back.queue /\ Releases(back).queueHeld = back.queueHeld
      /\ Releases(back).draining = None /\ Releases(back).missed = FALSE
      /\ Releases(back).kind = back.kind /\ Releases(back).stale = back.stale
      /\ Releases(back).call = back.call /\ Releases(back).startup = back.startup
      /\ Releases(back).startupStale = back.startupStale
  BY <1>1, ReleasesFields
<1>4. IsOver(SendsFail(c, ms), c, ms)
  <2>1. CASE c.draining \in ms
    BY <1>1, <1>2, <1>3, <2>1 DEF IsOver
  <2>2. CASE c.draining \notin ms
    BY <1>1, <1>2, <2>2 DEF IsOver
  <2> QED
    BY <2>1, <2>2
<1>5. CASE c.draining \in ms
  BY <1>1, <1>2, <1>3, <1>4, <1>5
<1>6. CASE c.draining \notin ms
  BY <1>1, <1>2, <1>4, <1>6
<1> QED
  BY <1>5, <1>6

\* A re-fold makes the calls in flight stale and touches no message.
LEMMA RefoldsFields ==
    ASSUME NEW c \in Chat
    PROVE  /\ Refolds(c) \in Chat
           /\ Refolds(c).turnActive = c.turnActive /\ Refolds(c).error = c.error
           /\ Refolds(c).queue = c.queue /\ Refolds(c).queueHeld = c.queueHeld
           /\ Refolds(c).draining = c.draining /\ Refolds(c).missed = c.missed
           /\ Refolds(c).kind = c.kind /\ Refolds(c).stale = InFlight(c)
           /\ Refolds(c).call = c.call /\ Refolds(c).startup = c.startup
           /\ Refolds(c).startupStale = (c.startup # "none")
<1>1. InFlight(c) \in SUBSET Msg
  BY DEF InFlight
<1> QED
  BY <1>1 DEF Refolds, Chat

\* markQueueHeld holds a queue that has more than the entry on its way.
LEMMA HoldsFields ==
    ASSUME NEW c \in Chat
    PROVE  /\ Holds(c) \in Chat
           /\ Holds(c).turnActive = c.turnActive /\ Holds(c).error = c.error
           /\ Holds(c).queue = c.queue
           /\ Holds(c).queueHeld = (c.queueHeld \/ \E m \in Range(c.queue) : m # c.draining)
           /\ Holds(c).draining = c.draining /\ Holds(c).missed = c.missed
           /\ Holds(c).kind = c.kind /\ Holds(c).stale = c.stale
           /\ Holds(c).call = c.call /\ Holds(c).startup = c.startup
           /\ Holds(c).startupStale = c.startupStale
BY DEF Holds, Chat

-----------------------------------------------------------------------------
(* What a step keeps of the queue and its history.  Each lemma takes an entry *)
(* c to an entry b that differs from it in the fields the lemma names.        *)

\* Both entries agree on what the history says something about.
SameCore(b, c) ==
    /\ b.queue = c.queue /\ b.draining = c.draining /\ b.kind = c.kind
    /\ b.call = c.call /\ b.stale = c.stale
    /\ b.startup = c.startup /\ b.startupStale = c.startupStale

\* An entry that agrees on the core keeps all of it.
LEMMA CoreKept ==
    ASSUME NEW b, NEW c, NEW e, NEW r, NEW d, NEW x,
           SameCore(b, c), KeptIn(c, e, r, d, x)
    PROVE  KeptIn(b, e, r, d, x)
<1>1. Lined(b, e, r)
  BY DEF KeptIn, SameCore, Lined
<1>2. Called(b)
  BY DEF KeptIn, SameCore, Called, InFlight
<1>3. Awaited(b)
  BY DEF KeptIn, SameCore, Awaited
<1>4. Counted(b, r, d, x)
  BY DEF KeptIn, SameCore, Counted
<1>5. Passed(b, e, d)
  BY DEF KeptIn, SameCore, Passed
<1> QED
  BY <1>1, <1>2, <1>3, <1>4, <1>5 DEF KeptIn

\* A queue in order of entry holds no message twice.
LEMMA OrderedIsDistinct ==
    ASSUME NEW q \in Seq(Msg), NEW e \in Seq(Msg), Ordered(q, e),
           Range(q) \subseteq Range(e)
    PROVE  Distinct(q)
<1> SUFFICES ASSUME NEW i \in DOMAIN q, NEW j \in DOMAIN q, q[i] = q[j], i # j
             PROVE  FALSE
  BY DEF Distinct
<1>1. PICK k \in DOMAIN e : e[k] = q[i]
  BY InRange
<1>2. i \in Int /\ j \in Int /\ k \in Int
  BY LenProperties
<1>3. i < j \/ j < i
  BY <1>2
<1>4. k < k
  BY <1>1, <1>3 DEF Ordered
<1> QED
  BY <1>2, <1>4

\* The head of the queue is sent.
LEMMA HeadSentKept ==
    ASSUME NEW c \in Chat, NEW e, NEW r, NEW d, NEW x, History(e, r, d, x),
           KeptIn(c, e, r, d, x), c.queue # <<>>, c.draining = None
    PROVE  KeptIn(HeadSent(c), e, r, d, x)
<1> DEFINE b == HeadSent(c)
           h == c.queue[1]
           s == IF c.session THEN "asked" ELSE "starting"
<1>1. /\ b \in Chat /\ b.queue = c.queue /\ b.draining = h
      /\ b.kind = c.kind /\ b.stale = c.stale /\ b.call = [c.call EXCEPT ![h] = s]
      /\ b.startup = IF c.session \/ c.startup # "none" THEN c.startup ELSE "asked"
      /\ b.startupStale = c.startupStale
  BY HeadSentFields
<1>2. h \in Msg /\ h \in Range(c.queue) /\ None \notin Msg
  BY HeadOfQueue, NoneAssumption
<1>3. /\ c.call \in [Msg -> {"none", "starting", "asked", "ok", "err"}]
      /\ c.stale \subseteq Msg
  BY DEF Chat
<1>4. c.kind[h] = "queued" /\ c.call[h] = "none" /\ h \notin r
  BY <1>2 DEF KeptIn, Lined, Called
<1>5. s \in {"asked", "starting"} /\ b.call[h] = s
      /\ \A m \in Msg : m # h => b.call[m] = c.call[m]
  BY <1>1, <1>2, <1>3
<1> HIDE DEF b
<1>6. Lined(b, e, r)
  BY <1>1 DEF KeptIn, Lined
<1>7. Called(b)
  BY <1>1, <1>2, <1>3, <1>4, <1>5 DEF KeptIn, Called, InFlight
<1>8. Awaited(b)
  <2>1. b.startup # "none" => \E m \in Msg : b.call[m] = "starting"
    <3>1. CASE c.startup # "none"
      BY <3>1, <1>4, <1>5 DEF KeptIn, Awaited
    <3>2. CASE c.startup = "none"
      BY <3>2, <1>1, <1>2, <1>5
    <3> QED
      BY <3>1, <3>2
  <2>2. b.startupStale => \E m \in b.stale : b.call[m] = "starting"
    BY <1>1, <1>3, <1>4, <1>5 DEF KeptIn, Awaited
  <2> QED
    BY <2>1, <2>2 DEF Awaited
<1>9. Counted(b, r, d, x)
  <2>1. d[h] = 0 \/ h \in x
    BY <1>2, <1>4 DEF KeptIn, Counted, History
  <2> QED
    BY <1>1, <1>2, <1>4, <1>5, <2>1 DEF KeptIn, Counted
<1>10. Passed(b, e, d)
  BY <1>1 DEF KeptIn, Passed
<1> QED
  BY <1>6, <1>7, <1>8, <1>9, <1>10 DEF KeptIn, b

\* A drain.
LEMMA DrainsKept ==
    ASSUME NEW c \in Chat, NEW e, NEW r, NEW d, NEW x, History(e, r, d, x),
           KeptIn(c, e, r, d, x)
    PROVE  Drains(c) \in Chat /\ KeptIn(Drains(c), e, r, d, x)
<1>1. CASE ~Drainable(c)
  BY <1>1, DrainsIs
<1>2. CASE Drainable(c) /\ c.draining # None
  <2>1. SameCore([c EXCEPT !.missed = TRUE], c)
    BY MissedFields DEF SameCore
  <2> QED
    BY <1>2, <2>1, DrainsIs, MissedFields, CoreKept
<1>3. CASE Drainable(c) /\ c.draining = None
  <2>1. Drains(c) = HeadSent(c)
    BY <1>3, DrainsIs
  <2>2. c.queue # <<>>
    BY <1>3 DEF Drainable
  <2>3. HeadSent(c) \in Chat
    BY <2>2, HeadSentFields
  <2>4. KeptIn(HeadSent(c), e, r, d, x)
    BY <1>3, <2>2, HeadSentKept
  <2> QED
    BY <2>1, <2>3, <2>4
<1> QED
  BY <1>1, <1>2, <1>3

\* A message is sent by hand, or offered to the turn that runs.
Asks(b, c, m, k, s) ==
    /\ c.kind[m] = "new" /\ k \in {"send", "followUp"} /\ s \in {"asked", "starting"}
    /\ k = "followUp" => s = "asked" /\ provider = "pi"
    /\ b.queue = c.queue /\ b.draining = c.draining /\ b.stale = c.stale
    /\ b.kind = [c.kind EXCEPT ![m] = k] /\ b.call = [c.call EXCEPT ![m] = s]
    /\ b.startup # "none" => c.startup # "none" \/ s = "starting"
    /\ b.startupStale = c.startupStale

\* A message that was new is in no queue, so sending it disturbs none.
LEMMA AskedKept ==
    ASSUME NEW c \in Chat, NEW b, NEW e, NEW r, NEW d, NEW x, KeptIn(c, e, r, d, x),
           NEW m \in Msg, NEW k, NEW s, Asks(b, c, m, k, s)
    PROVE  KeptIn(b, e, r, d, x)
<1> USE DEF Asks
<1>1. /\ c.call \in [Msg -> {"none", "starting", "asked", "ok", "err"}]
      /\ c.kind \in [Msg -> {"new", "send", "followUp", "queued"}]
      /\ c.stale \subseteq Msg
  BY DEF Chat
<1>2. c.call[m] = "none" /\ m \notin Range(e) /\ m \notin r /\ d[m] = 0
  BY DEF KeptIn, Lined, Called, Counted
<1>3. /\ b.call[m] = s /\ b.kind[m] = k
      /\ \A n \in Msg : n # m => b.call[n] = c.call[n] /\ b.kind[n] = c.kind[n]
  BY <1>1
<1>4. Lined(b, e, r)
  BY <1>2, <1>3 DEF KeptIn, Lined
<1>5. Called(b)
  <2>1. c.draining # m
    BY <1>2, NoneAssumption DEF KeptIn, Called
  <2>2. b.draining # None =>
          b.queue # <<>> /\ b.queue[1] = b.draining /\ b.call[b.draining] # "none"
    <3>1. c.draining \in Msg \union {None}
      BY DEF Chat
    <3> QED
      BY <1>3, <2>1, <3>1 DEF KeptIn, Called
  <2>3. b.stale \subseteq InFlight(b)
    BY <1>1, <1>2, <1>3 DEF KeptIn, Called, InFlight
  <2> QED
    BY <1>3, <2>2, <2>3 DEF KeptIn, Called
<1>6. Awaited(b)
  <2>1. b.startup # "none" => \E n \in Msg : b.call[n] = "starting"
    BY <1>2, <1>3 DEF KeptIn, Awaited
  <2>2. b.startupStale => \E n \in b.stale : b.call[n] = "starting"
    BY <1>1, <1>2, <1>3 DEF KeptIn, Awaited
  <2> QED
    BY <2>1, <2>2 DEF Awaited
<1>7. Counted(b, r, d, x)
  BY <1>2, <1>3 DEF KeptIn, Counted
<1>8. Passed(b, e, d)
  BY DEF KeptIn, Passed
<1> QED
  BY <1>4, <1>5, <1>6, <1>7, <1>8 DEF KeptIn

\* A queued message whose call is over was not delivered, or counts as cut off
\* from now on.
LEMMA SettledKept ==
    ASSUME NEW c \in Chat, NEW b, NEW e, NEW r, NEW d, NEW x, NEW y, NEW ms,
           KeptIn(c, e, r, d, x), IsOver(b, c, ms), Awaited(b), x \subseteq y,
           \A m \in y \ x : c.kind[m] \in {"send", "queued"},
           \A m \in ms : c.kind[m] = "queued" => m \in y \/ d[m] = 0
    PROVE  KeptIn(b, e, r, d, y)
<1> USE DEF IsOver
<1>1. \A m \in Msg : b.call[m] = IF m \in ms THEN "none" ELSE c.call[m]
  OBVIOUS
<1>2. Lined(b, e, r)
  BY DEF KeptIn, Lined
<1>3. Called(b)
  <2>1. c.draining \in Msg \union {None} /\ c.stale \subseteq Msg
    BY DEF Chat
  <2>2. b.draining # None =>
          b.queue # <<>> /\ b.queue[1] = b.draining /\ b.call[b.draining] # "none"
    BY <1>1, <2>1 DEF KeptIn, Called
  <2>3. \A m \in Msg : b.kind[m] = "queued" /\ b.call[m] # "none" => m = b.draining
    BY <1>1 DEF KeptIn, Called
  <2>4. b.stale \subseteq InFlight(b)
    BY <1>1, <2>1 DEF KeptIn, Called, InFlight
  <2> QED
    BY <1>1, <2>2, <2>3, <2>4 DEF KeptIn, Called
<1>4. Counted(b, r, d, y)
  BY <1>1 DEF KeptIn, Counted
<1>5. Passed(b, e, d)
  BY DEF KeptIn, Passed
<1> QED
  BY <1>2, <1>3, <1>4, <1>5 DEF KeptIn

\* Taking an entry out keeps the order of entry.
LEMMA WithoutOrdered ==
    ASSUME NEW q \in Seq(Msg), NEW e \in Seq(Msg), NEW m \in Msg,
           Ordered(q, e), Range(q) \subseteq Range(e)
    PROVE  Ordered(Without(q, m), e)
<1>1. Distinct(q)
  BY OrderedIsDistinct
<1> DEFINE w == Without(q, m)
<1>2. \A i, j \in DOMAIN w : i < j =>
         \E k, l \in DOMAIN q : k < l /\ q[k] = w[i] /\ q[l] = w[j]
  BY <1>1, WithoutFacts
<1> HIDE DEF w
<1>3. Ordered(w, e)
  BY <1>2 DEF Ordered
<1> QED
  BY <1>3 DEF w

\* The entry whose drain the backend took is retired.
LEMMA RetiredKept ==
    ASSUME NEW c \in Chat, NEW b \in Chat, NEW e, NEW r, NEW d, NEW x,
           History(e, r, d, x), KeptIn(c, e, r, d, x),
           NEW m \in Msg, c.draining = m, c.call[m] = "ok", m \notin c.stale,
           b.queue = Without(c.queue, m), b.kind = c.kind, b.stale = c.stale,
           b.draining = None,
           b.call = [n \in Msg |-> IF n = m THEN "none" ELSE c.call[n]],
           b.startup = c.startup, b.startupStale = c.startupStale
    PROVE  KeptIn(b, e, r, d, x)
<1>1. /\ c.queue \in Seq(Msg) /\ e \in Seq(Msg) /\ Ordered(c.queue, e)
      /\ Range(c.queue) \subseteq Range(e) /\ c.stale \subseteq Msg
  BY DEF KeptIn, Lined, History, Chat
<1>2. Range(b.queue) = Range(c.queue) \ {m}
  BY <1>1, OrderedIsDistinct, WithoutFacts
<1>3. Ordered(b.queue, e)
  BY <1>1, WithoutOrdered
<1>4. \A n \in Msg : b.call[n] = IF n = m THEN "none" ELSE c.call[n]
  OBVIOUS
<1>5. c.kind[m] = "queued" /\ d[m] > 0 /\ (m \in r => m \in x)
  <2>1. m \in Range(c.queue)
    BY HeadOfQueue, NoneAssumption DEF KeptIn, Called
  <2> QED
    BY <2>1, <1>1 DEF KeptIn, Lined, Counted
<1>6. Lined(b, e, r)
  BY <1>2, <1>3 DEF KeptIn, Lined
<1>7. Called(b)
  <2>1. \A n \in Msg : b.kind[n] = "queued" => b.call[n] = "none"
    BY <1>4 DEF KeptIn, Called
  <2>2. b.stale \subseteq InFlight(b)
    BY <1>1, <1>4 DEF KeptIn, Called, InFlight
  <2> QED
    BY <1>4, <2>1, <2>2 DEF KeptIn, Called
<1>8. Awaited(b)
  BY <1>1, <1>4 DEF KeptIn, Awaited
<1>9. Counted(b, r, d, x)
  BY <1>2, <1>4, <1>5 DEF KeptIn, Counted
<1>10. Passed(b, e, d)
  BY <1>2 DEF KeptIn, Passed
<1> QED
  BY <1>6, <1>7, <1>8, <1>9, <1>10 DEF KeptIn

\* The user takes messages out of the queue, the one on its way excepted.
LEMMA TakenKept ==
    ASSUME NEW c \in Chat, NEW b \in Chat, NEW e, NEW r, NEW d, NEW x,
           History(e, r, d, x), KeptIn(c, e, r, d, x),
           NEW gone \in SUBSET Range(c.queue), c.draining \notin gone,
           Ordered(b.queue, e), Range(b.queue) = Range(c.queue) \ gone,
           c.draining # None => b.queue # <<>> /\ b.queue[1] = c.queue[1],
           b.draining = c.draining, b.kind = c.kind, b.call = c.call,
           b.stale = c.stale, b.startup = c.startup, b.startupStale = c.startupStale
    PROVE  KeptIn(b, e, r \union gone, d, x)
<1>1. Lined(b, e, r \union gone)
  BY DEF KeptIn, Lined
<1>2. Called(b)
  BY DEF KeptIn, Called, InFlight
<1>3. Awaited(b)
  BY DEF KeptIn, Awaited
<1>4. ASSUME NEW m \in gone PROVE m \in Msg /\ c.call[m] = "none" /\ (d[m] = 0 \/ m \in x)
  <2>1. m \in Msg /\ m \in Range(c.queue)
    <3>1. c.queue \in Seq(Msg)
      BY DEF Chat
    <3>2. PICK i \in DOMAIN c.queue : c.queue[i] = m
      BY InRange
    <3> QED
      BY <3>1, <3>2, ElementOfSeq, LenProperties
  <2>2. c.kind[m] = "queued"
    BY <2>1 DEF KeptIn, Lined
  <2>3. c.call[m] = "none"
    BY <2>1, <2>2, <1>4 DEF KeptIn, Called
  <2> QED
    BY <2>1, <2>2, <2>3 DEF KeptIn, Counted, History
<1>5. Counted(b, r \union gone, d, x)
  BY <1>4 DEF KeptIn, Counted
<1>6. Passed(b, e, d)
  BY DEF KeptIn, Passed
<1> QED
  BY <1>1, <1>2, <1>3, <1>5, <1>6 DEF KeptIn

\* A re-fold makes every call in flight stale.
LEMMA RefoldsKept ==
    ASSUME NEW c \in Chat, NEW e, NEW r, NEW d, NEW x, KeptIn(c, e, r, d, x)
    PROVE  Refolds(c) \in Chat /\ KeptIn(Refolds(c), e, r, d, x)
<1> DEFINE b == Refolds(c)
<1>1. /\ b \in Chat /\ b.queue = c.queue /\ b.draining = c.draining /\ b.kind = c.kind
      /\ b.stale = InFlight(c) /\ b.call = c.call /\ b.startup = c.startup
      /\ b.startupStale = (c.startup # "none")
  BY RefoldsFields
<1> HIDE DEF b
<1>2. Lined(b, e, r)
  BY <1>1 DEF KeptIn, Lined
<1>3. Called(b)
  BY <1>1 DEF KeptIn, Called, InFlight
<1>4. Awaited(b)
  BY <1>1 DEF KeptIn, Awaited, InFlight
<1>5. Counted(b, r, d, x)
  BY <1>1 DEF KeptIn, Counted
<1>6. Passed(b, e, d)
  BY <1>1 DEF KeptIn, Passed
<1> QED
  BY <1>1, <1>2, <1>3, <1>4, <1>5, <1>6 DEF KeptIn, b

\* The end of a turn.
LEMMA EndedKept ==
    ASSUME NEW c \in Chat, NEW e, NEW r, NEW d, NEW x, History(e, r, d, x),
           KeptIn(c, e, r, d, x), NEW end
    PROVE  Ended(c, end) \in Chat /\ KeptIn(Ended(c, end), e, r, d, x)
<1> DEFINE over == [c EXCEPT !.turnActive = FALSE, !.interrupted = FALSE,
                               !.error = IF end = "failed" THEN "turn" ELSE @]
           folded == IF c.refold THEN Refolds(over) ELSE over
<1>1. over \in Chat /\ SameCore(over, c)
  BY DEF Chat, SameCore
<1>2. KeptIn(over, e, r, d, x)
  BY <1>1, CoreKept
<1>3. Ended(c, end) = IF c.interrupted \/ end = "interrupted" THEN Holds(folded)
                      ELSE Drains(folded)
  BY DEF Ended
<1> HIDE DEF over
<1>4. folded \in Chat /\ KeptIn(folded, e, r, d, x)
  BY <1>1, <1>2, RefoldsKept
<1> HIDE DEF folded
<1>5. Holds(folded) \in Chat /\ KeptIn(Holds(folded), e, r, d, x)
  <2>1. SameCore(Holds(folded), folded)
    BY <1>4, HoldsFields DEF SameCore
  <2> QED
    BY <1>4, <2>1, CoreKept, HoldsFields
<1>6. Drains(folded) \in Chat /\ KeptIn(Drains(folded), e, r, d, x)
  BY <1>4, DrainsKept
<1> QED
  BY <1>3, <1>5, <1>6

\* A message joins the queue.
LEMMA QueuedKept ==
    ASSUME NEW c \in Chat, NEW e, NEW r, NEW d, NEW x, History(e, r, d, x),
           KeptIn(c, e, r, d, x),
           NEW m \in Msg, c.kind[m] # "queued", c.call[m] = "none", d[m] = 0
    PROVE  Queues(c, m) \in Chat /\ KeptIn(Queues(c, m), Append(e, m), r, d, x)
<1> DEFINE b == Queues(c, m)
           f == Append(e, m)
<1>1. /\ b \in Chat /\ b.queue = Append(c.queue, m) /\ b.draining = c.draining
      /\ b.kind = [c.kind EXCEPT ![m] = "queued"] /\ b.stale = c.stale /\ b.call = c.call
      /\ b.startup = c.startup /\ b.startupStale = c.startupStale
  BY QueuesFields
<1>2. /\ c.queue \in Seq(Msg) /\ e \in Seq(Msg)
      /\ c.kind \in [Msg -> {"new", "send", "followUp", "queued"}]
      /\ c.draining \in Msg \union {None}
  BY DEF Chat, History
<1>3. /\ DOMAIN f = 1..Len(e)+1 /\ DOMAIN e = 1..Len(e) /\ Len(e) \in Nat
      /\ \A i \in DOMAIN e : f[i] = e[i]
      /\ f[Len(e)+1] = m /\ Range(f) = Range(e) \union {m}
  BY <1>2, AppendFacts, LenProperties
<1>4. /\ DOMAIN b.queue = 1..Len(c.queue)+1 /\ DOMAIN c.queue = 1..Len(c.queue)
      /\ Len(c.queue) \in Nat /\ b.queue # <<>>
      /\ \A i \in DOMAIN c.queue : b.queue[i] = c.queue[i]
      /\ b.queue[Len(c.queue)+1] = m /\ Range(b.queue) = Range(c.queue) \union {m}
  BY <1>1, <1>2, AppendFacts, LenProperties
<1>5. m \notin Range(e) /\ m \notin Range(c.queue) /\ m \notin r /\ c.draining # m
  <2>1. m \notin Range(e)
    BY DEF KeptIn, Lined
  <2> QED
    BY <2>1, NoneAssumption DEF KeptIn, Lined, Called
<1>6. b.kind[m] = "queued" /\ \A n \in Msg : n # m => b.kind[n] = c.kind[n]
  BY <1>1, <1>2
<1> HIDE DEF b, f
<1>7. Distinct(f)
  <2> SUFFICES ASSUME NEW i \in DOMAIN f, NEW j \in DOMAIN f, f[i] = f[j]
               PROVE  i = j
    BY DEF Distinct
  <2>1. CASE i \in DOMAIN e /\ j \in DOMAIN e
    BY <2>1, <1>3 DEF KeptIn, Lined, Distinct
  <2>2. CASE i = Len(e)+1 /\ j = Len(e)+1
    BY <2>2
  <2>3. CASE i \in DOMAIN e /\ j = Len(e)+1
    BY <2>3, <1>3, <1>5, InRange
  <2>4. CASE i = Len(e)+1 /\ j \in DOMAIN e
    BY <2>4, <1>3, <1>5, InRange
  <2> QED
    BY <1>3, <2>1, <2>2, <2>3, <2>4
<1>8. Ordered(b.queue, f)
  <2> SUFFICES ASSUME NEW i \in DOMAIN b.queue, NEW j \in DOMAIN b.queue,
                      NEW k \in DOMAIN f, NEW l \in DOMAIN f,
                      i < j, b.queue[i] = f[k], b.queue[j] = f[l]
               PROVE  k < l
    BY DEF Ordered
  <2>1. i \in DOMAIN c.queue
    BY <1>4
  <2>2. b.queue[i] = c.queue[i] /\ c.queue[i] \in Range(e) /\ c.queue[i] # m
    BY <2>1, <1>4, <1>5, InRange DEF KeptIn, Lined
  <2>3. k \in DOMAIN e /\ e[k] = c.queue[i]
    <3>1. f[k] = c.queue[i] /\ f[k] # m
      BY <2>2
    <3>2. k # Len(e)+1
      BY <3>1, <1>3
    <3> QED
      BY <3>1, <3>2, <1>3
  <2>4. CASE j \in DOMAIN c.queue
    <3>1. c.queue[j] = f[l] /\ c.queue[j] # m
      BY <2>4, <1>4, <1>5, InRange
    <3>2. l \in DOMAIN e /\ e[l] = c.queue[j]
      BY <3>1, <1>3
    <3> QED
      BY <2>1, <2>3, <2>4, <3>2 DEF KeptIn, Lined, Ordered
  <2>5. CASE j = Len(c.queue)+1
    <3>1. f[l] = m
      BY <2>5, <1>4
    <3>2. l = Len(e)+1
      BY <3>1, <1>3, <1>5, InRange
    <3> QED
      BY <3>2, <2>3, <1>3
  <2> QED
    BY <1>4, <2>4, <2>5
<1>9. Lined(b, f, r)
  BY <1>3, <1>4, <1>5, <1>6, <1>7, <1>8 DEF KeptIn, Lined
<1>10. Called(b)
  <2>1. b.draining # None =>
          b.queue # <<>> /\ b.queue[1] = b.draining /\ b.call[b.draining] # "none"
    <3> SUFFICES ASSUME c.draining # None
                 PROVE  b.queue # <<>> /\ b.queue[1] = c.draining
                        /\ c.call[c.draining] # "none"
      BY <1>1
    <3>1. 1 \in DOMAIN c.queue
      BY HeadOfQueue DEF KeptIn, Called
    <3> QED
      BY <3>1, <1>4 DEF KeptIn, Called
  <2>2. b.stale \subseteq InFlight(b)
    BY <1>1 DEF KeptIn, Called, InFlight
  <2> QED
    BY <1>1, <1>6, <2>1, <2>2 DEF KeptIn, Called
<1>11. Awaited(b)
  BY <1>1 DEF KeptIn, Awaited
<1>12. Counted(b, r, d, x)
  BY <1>1, <1>4, <1>5, <1>6 DEF KeptIn, Counted
<1>13. Passed(b, f, d)
  <2> SUFFICES ASSUME NEW i \in DOMAIN f, NEW j \in DOMAIN f, i < j, d[f[j]] > 0,
                      f[i] \in Range(b.queue)
               PROVE  d[f[i]] > 0
    BY DEF Passed
  <2>1. j \in DOMAIN e
    BY <1>3
  <2>2. i \in DOMAIN e /\ f[i] = e[i] /\ f[j] = e[j]
    BY <2>1, <1>3
  <2>3. e[i] \in Range(c.queue)
    BY <2>2, <1>4, <1>5, InRange
  <2> QED
    BY <2>1, <2>2, <2>3 DEF KeptIn, Passed
<1> QED
  BY <1>1, <1>9, <1>10, <1>11, <1>12, <1>13 DEF KeptIn, b, f

\* The backend answers the call of m, and may have taken m.
LEMMA AnsweredKept ==
    ASSUME NEW c \in Chat, NEW b \in Chat, NEW e, NEW r, NEW d, NEW x,
           History(e, r, d, x), KeptIn(c, e, r, d, x),
           NEW m \in Msg, c.call[m] = "asked",
           NEW answer \in {"ok", "err"}, NEW g,
           g = IF answer = "ok" THEN [d EXCEPT ![m] = @ + 1] ELSE d,
           SameCore(b, [c EXCEPT !.call[m] = answer])
    PROVE  KeptIn(b, e, r, g, x)
<1>1. /\ b.queue = c.queue /\ b.draining = c.draining /\ b.kind = c.kind
      /\ b.stale = c.stale /\ b.startup = c.startup /\ b.startupStale = c.startupStale
      /\ b.call = [c.call EXCEPT ![m] = answer]
  BY DEF SameCore, Chat
<1>2. /\ c.call \in [Msg -> {"none", "starting", "asked", "ok", "err"}]
      /\ c.stale \subseteq Msg /\ c.draining \in Msg \union {None}
      /\ c.queue \in Seq(Msg) /\ e \in Seq(Msg) /\ d \in [Msg -> Nat]
  BY DEF Chat, History
<1>3. b.call[m] = answer /\ \A n \in Msg : n # m => b.call[n] = c.call[n]
  BY <1>1, <1>2
<1>4. /\ \A n \in Msg : n # m => g[n] = d[n]
      /\ g[m] = IF answer = "ok" THEN d[m] + 1 ELSE d[m]
      /\ g \in [Msg -> Nat]
  BY <1>2
<1>5. Lined(b, e, r)
  BY <1>1 DEF KeptIn, Lined
<1>6. Called(b)
  <2>1. b.draining # None =>
          b.queue # <<>> /\ b.queue[1] = b.draining /\ b.call[b.draining] # "none"
    BY <1>1, <1>2, <1>3 DEF KeptIn, Called
  <2>2. b.stale \subseteq InFlight(b)
    BY <1>1, <1>2, <1>3 DEF KeptIn, Called, InFlight
  <2> QED
    BY <1>1, <1>3, <2>1, <2>2 DEF KeptIn, Called
<1>7. Awaited(b)
  <2>1. \A n \in Msg : c.call[n] = "starting" => b.call[n] = "starting"
    BY <1>3
  <2>2. b.startup # "none" => \E n \in Msg : b.call[n] = "starting"
    BY <1>1, <2>1 DEF KeptIn, Awaited
  <2>3. b.startupStale => \E n \in b.stale : b.call[n] = "starting"
    BY <1>1, <1>2, <2>1 DEF KeptIn, Awaited
  <2> QED
    BY <2>2, <2>3 DEF Awaited
<1>8. Counted(b, r, g, x)
  <2>1. ASSUME NEW n \in Msg, n # m
        PROVE  g[n] = d[n] /\ b.call[n] = c.call[n]
    BY <2>1, <1>3, <1>4
  <2>2. d[m] \in Nat /\ c.kind[m] # "new" /\ (m \in r => m \in x) /\ (m \notin x => d[m] = 0)
    BY <1>2 DEF KeptIn, Called, Counted
  <2>3. c.kind[m] = "queued" => m \in Range(b.queue)
    <3>1. c.kind[m] = "queued" => c.draining = m /\ c.draining # None
      BY NoneAssumption DEF KeptIn, Called
    <3> QED
      BY <3>1, <1>1, HeadOfQueue DEF KeptIn, Called
  <2>4. b.call[m] = answer /\ g[m] = IF answer = "ok" THEN d[m] + 1 ELSE d[m]
    BY <1>3, <1>4
  <2>5. ASSUME NEW n \in Msg
        PROVE  /\ b.kind[n] = "new" => g[n] = 0
               /\ b.kind[n] \in {"new", "followUp"} => n \notin x
               /\ b.call[n] = "ok" => g[n] > 0
               /\ n \notin x => g[n] <= 1
               /\ b.call[n] \in {"starting", "asked", "err"} /\ n \notin x => g[n] = 0
               /\ n \in r /\ n \notin x => g[n] = 0 /\ b.call[n] = "none"
               /\ b.kind[n] = "queued" =>
                     /\ n \in Range(b.queue) /\ n \notin x /\ g[n] > 0 => b.call[n] = "ok"
                     /\ n \notin Range(b.queue) /\ n \notin r => g[n] > 0
    <3>1. CASE n = m
      BY <3>1, <2>2, <2>3, <2>4, <1>1 DEF KeptIn, Counted
    <3>2. CASE n # m
      BY <3>2, <2>1, <1>1 DEF KeptIn, Counted
    <3> QED
      BY <3>1, <3>2
  <2> QED
    BY <2>5 DEF Counted
<1>9. Passed(b, e, g)
  <2> SUFFICES ASSUME NEW i \in DOMAIN e, NEW j \in DOMAIN e, i < j, g[e[j]] > 0,
                      e[i] \in Range(c.queue)
               PROVE  g[e[i]] > 0
    BY <1>1 DEF Passed
  <2>1. e[i] \in Msg /\ e[j] \in Msg
    BY <1>2, LenProperties, ElementOfSeq
  <2>2. CASE d[e[j]] > 0
    <3>1. d[e[i]] > 0 /\ d[e[i]] \in Nat
      BY <2>2, <2>1, <1>2 DEF KeptIn, Passed
    <3> QED
      BY <2>1, <3>1, <1>4
  <2>3. CASE ~(d[e[j]] > 0)
    <3>1. e[j] = m
      BY <2>1, <2>3, <1>4
    <3>2. c.kind[m] = "queued"
      BY <3>1, InRange DEF KeptIn, Lined
    <3>3. c.draining = m /\ c.draining # None
      BY <3>2, NoneAssumption DEF KeptIn, Called
    <3>4. c.queue[1] = m /\ 1 \in DOMAIN c.queue
      BY <3>3, HeadOfQueue DEF KeptIn, Called
    <3>5. PICK k \in DOMAIN c.queue : c.queue[k] = e[i]
      BY InRange
    <3>6. e[i] # e[j]
      <4>1. i \in Int /\ j \in Int /\ i # j
        BY <1>2, LenProperties, SMTT(30)
      <4> QED
        BY <4>1 DEF KeptIn, Lined, Distinct
    <3>7. k > 1
      BY <3>1, <3>4, <3>5, <3>6, <1>2, LenProperties
    <3>8. j < i
      BY <3>1, <3>4, <3>5, <3>7 DEF KeptIn, Lined, Ordered
    <3> QED
      BY <3>8, <1>2, LenProperties
  <2> QED
    BY <2>2, <2>3
<1> QED
  BY <1>5, <1>6, <1>7, <1>8, <1>9 DEF KeptIn

\* The sends that waited for the session go on.
LEMMA StartedKept ==
    ASSUME NEW c \in Chat, NEW b \in Chat, NEW e, NEW r, NEW d, NEW x,
           KeptIn(c, e, r, d, x),
           b.queue = c.queue, b.draining = c.draining, b.kind = c.kind,
           b.stale = c.stale, b.startup = "none", b.startupStale = FALSE,
           b.call = [m \in Msg |-> IF c.call[m] = "starting" THEN "asked" ELSE c.call[m]]
    PROVE  KeptIn(b, e, r, d, x)
<1>1. \A m \in Msg : b.call[m] = IF c.call[m] = "starting" THEN "asked" ELSE c.call[m]
  OBVIOUS
<1>2. c.stale \subseteq Msg /\ c.draining \in Msg \union {None}
  BY DEF Chat
<1>3. Lined(b, e, r)
  BY DEF KeptIn, Lined
<1>4. Called(b)
  <2>1. b.draining # None =>
          b.queue # <<>> /\ b.queue[1] = b.draining /\ b.call[b.draining] # "none"
    BY <1>1, <1>2 DEF KeptIn, Called
  <2>2. b.stale \subseteq InFlight(b)
    BY <1>1, <1>2 DEF KeptIn, Called, InFlight
  <2> QED
    BY <1>1, <2>1, <2>2 DEF KeptIn, Called
<1>5. Awaited(b)
  BY DEF Awaited
<1>6. Counted(b, r, d, x)
  BY <1>1 DEF KeptIn, Counted
<1>7. Passed(b, e, d)
  BY DEF KeptIn, Passed
<1> QED
  BY <1>3, <1>4, <1>5, <1>6, <1>7 DEF KeptIn

-----------------------------------------------------------------------------
(* The actions keep the types, and the queue with its history                *)

Safe == QueueTypeOK /\ Kept

\* The provider of a chat stays the same.
LEMMA KeptAfter ==
    ASSUME provider' = provider,
           KeptIn(chat', entered', removed', delivered', cutOff')
    PROVE  Kept'
<1>1. Lined(chat, entered, removed)'
  BY DEF KeptIn, Lined, Distinct, Ordered, Range
<1>2. Called(chat)'
  BY DEF KeptIn, Called, InFlight
<1>3. Awaited(chat)'
  BY DEF KeptIn, Awaited
<1>4. Counted(chat, removed, delivered, cutOff)'
  BY DEF KeptIn, Counted, Range
<1>5. Passed(chat, entered, delivered)'
  BY DEF KeptIn, Passed, Range
<1> QED
  BY <1>1, <1>2, <1>3, <1>4, <1>5 DEF Kept, KeptIn

\* What the types say of the history and of the entry.
LEMMA SafeFacts ==
    ASSUME Safe
    PROVE  /\ chat \in Chat /\ History(entered, removed, delivered, cutOff)
           /\ KeptIn(chat, entered, removed, delivered, cutOff)
           /\ chat.queue \in Seq(Msg) /\ chat.draining \in Msg \union {None}
           /\ chat.call \in [Msg -> {"none", "starting", "asked", "ok", "err"}]
           /\ chat.stale \subseteq Msg
BY DEF Safe, QueueTypeOK, Kept, History, Chat

\* A step that keeps the queue and its history, and the types of the rest.
LEMMA SafeStep ==
    ASSUME Safe, provider' = provider, chat' \in Chat,
           flips' \in 0..MaxFlips, stops' \in 0..MaxStops,
           interrupting' \in {"none", "asked", "err"},
           turn' \in {"none", "accepted", "started"}, closing' \in Ends \union {None},
           chan' \in Seq(Ends \union {"started"}), givenBack' \in BOOLEAN,
           History(entered', removed', delivered', cutOff'),
           KeptIn(chat', entered', removed', delivered', cutOff')
    PROVE  Safe'
<1>1. Kept'
  BY KeptAfter
<1>2. chat'.draining # None => chat'.call[chat'.draining] # "none"
  BY DEF KeptIn, Called
<1>3. QueueTypeOK'
  BY <1>2 DEF Safe, QueueTypeOK, History
<1> QED
  BY <1>1, <1>3 DEF Safe

\* One of the store that leaves the backend alone.
LEMMA StoreStep ==
    ASSUME Safe, UNCHANGED <<provider, backend, givenBack>>, chat' \in Chat,
           flips' \in 0..MaxFlips, stops' \in 0..MaxStops,
           interrupting' \in {"none", "asked", "err"},
           History(entered', removed', delivered', cutOff'),
           KeptIn(chat', entered', removed', delivered', cutOff')
    PROVE  Safe'
BY SafeStep DEF Safe, QueueTypeOK, backend

\* A message sent by hand was never queued.
LEMMA UserSendsSafe == ASSUME Safe, NEW m \in Msg, UserSends(m) PROVE Safe'
<1> DEFINE s == Sends(chat, m)
           b == [s EXCEPT !.kind[m] = "send"]
<1>1. chat \in Chat /\ History(entered, removed, delivered, cutOff)
      /\ KeptIn(chat, entered, removed, delivered, cutOff)
  BY SafeFacts
<1>2. /\ s \in Chat /\ s.queue = chat.queue /\ s.draining = chat.draining
      /\ s.kind = chat.kind /\ s.stale = chat.stale
      /\ s.call = [chat.call EXCEPT ![m] = IF chat.session THEN "asked" ELSE "starting"]
      /\ s.startup = IF chat.session \/ chat.startup # "none" THEN chat.startup ELSE "asked"
      /\ s.startupStale = chat.startupStale
  BY <1>1, SendsFields
<1> HIDE DEF s
<1>3. /\ b \in Chat /\ b.queue = s.queue /\ b.draining = s.draining
      /\ b.kind = [s.kind EXCEPT ![m] = "send"] /\ b.stale = s.stale
      /\ b.call = s.call /\ b.startup = s.startup /\ b.startupStale = s.startupStale
  BY <1>2 DEF Chat
<1> HIDE DEF b
<1>4. KeptIn(b, entered, removed, delivered, cutOff)
  <2> DEFINE t == IF chat.session THEN "asked" ELSE "starting"
  <2>1. t \in {"asked", "starting"}
    OBVIOUS
  <2>2. b.startup # "none" => chat.startup # "none" \/ t = "starting"
    BY <1>2, <1>3
  <2>3. b.call = [chat.call EXCEPT ![m] = t]
    BY <1>2, <1>3
  <2>4. chat.kind[m] = "new"
    BY DEF UserSends
  <2>5. b.kind = [chat.kind EXCEPT ![m] = "send"]
    BY <1>2, <1>3
  <2> HIDE DEF t
  <2>6. Asks(b, chat, m, "send", t)
    BY <1>2, <1>3, <2>1, <2>2, <2>3, <2>4, <2>5 DEF Asks
  <2> QED
    BY <1>1, <2>6, AskedKept
<1>5. chat' = b
  BY DEF UserSends, b, s
<1> QED
  BY <1>1, <1>3, <1>4, <1>5, StoreStep
     DEF UserSends, Safe, QueueTypeOK, budget, backend, history

\* A message that joins the queue is the last of the history too.
LEMMA UserQueuesSafe == ASSUME Safe, NEW m \in Msg, UserQueues(m) PROVE Safe'
<1>1. chat \in Chat /\ History(entered, removed, delivered, cutOff)
      /\ KeptIn(chat, entered, removed, delivered, cutOff)
  BY SafeFacts
<1>2. chat.kind[m] = "new" /\ chat.call[m] = "none" /\ delivered[m] = 0
  BY <1>1 DEF UserQueues, KeptIn, Called, Counted
<1>3. chat' \in Chat /\ KeptIn(chat', entered', removed, delivered, cutOff)
  BY <1>1, <1>2, QueuedKept DEF UserQueues
<1>4. entered' \in Seq(Msg)
  BY <1>1, AppendFacts DEF UserQueues, History
<1> QED
  BY <1>1, <1>3, <1>4, StoreStep
     DEF UserQueues, Safe, QueueTypeOK, History, budget, backend

\* A follow-up is offered by hand.
LEMMA UserFollowsUpSafe == ASSUME Safe, NEW m \in Msg, UserFollowsUp(m) PROVE Safe'
<1>1. chat \in Chat /\ History(entered, removed, delivered, cutOff)
      /\ KeptIn(chat, entered, removed, delivered, cutOff)
  BY SafeFacts
<1> DEFINE b == [chat EXCEPT !.error = "none", !.call[m] = "asked", !.kind[m] = "followUp"]
<1>2. /\ b \in Chat /\ b.queue = chat.queue /\ b.draining = chat.draining
      /\ b.kind = [chat.kind EXCEPT ![m] = "followUp"] /\ b.stale = chat.stale
      /\ b.call = [chat.call EXCEPT ![m] = "asked"] /\ b.startup = chat.startup
      /\ b.startupStale = chat.startupStale
  BY <1>1 DEF Chat
<1>3. chat' = b /\ chat.kind[m] = "new" /\ provider = "pi"
  BY DEF UserFollowsUp
<1> HIDE DEF b
<1>4. KeptIn(b, entered, removed, delivered, cutOff)
  <2>1. Asks(b, chat, m, "followUp", "asked")
    BY <1>2, <1>3 DEF Asks
  <2> QED
    BY <1>1, <2>1, AskedKept
<1> QED
  BY <1>1, <1>2, <1>3, <1>4, StoreStep
     DEF UserFollowsUp, Safe, QueueTypeOK, budget, backend, history

\* What is taken out of the queue is not on its way.
LEMMA UserRemovesSafe == ASSUME Safe, NEW m \in Msg, UserRemoves(m) PROVE Safe'
<1>1. /\ chat \in Chat /\ History(entered, removed, delivered, cutOff)
      /\ KeptIn(chat, entered, removed, delivered, cutOff) /\ chat.queue \in Seq(Msg)
  BY SafeFacts
<1>2. /\ Ordered(chat.queue, entered) /\ Range(chat.queue) \subseteq Range(entered)
      /\ entered \in Seq(Msg) /\ m \in Range(chat.queue) /\ m # chat.draining
  BY <1>1 DEF KeptIn, Lined, History, UserRemoves
<1>3. Distinct(chat.queue)
  BY <1>1, <1>2, OrderedIsDistinct
<1> DEFINE w == Without(chat.queue, m)
           b == [chat EXCEPT !.queue = w, !.queueHeld = @ /\ w # <<>>]
<1>4. /\ w \in Seq(Msg) /\ Range(w) = Range(chat.queue) \ {m}
      /\ chat.queue # <<>> /\ chat.queue[1] # m => w # <<>> /\ w[1] = chat.queue[1]
      /\ Ordered(w, entered)
  BY <1>1, <1>2, <1>3, WithoutFacts, WithoutOrdered
<1>5. chat' = b /\ removed' = removed \union {m}
  BY DEF UserRemoves
<1> HIDE DEF w
<1>6. /\ b \in Chat /\ b.queue = w /\ b.draining = chat.draining
      /\ b.kind = chat.kind /\ b.stale = chat.stale
      /\ b.call = chat.call /\ b.startup = chat.startup
      /\ b.startupStale = chat.startupStale
  BY <1>1, <1>4 DEF Chat
<1> HIDE DEF b
<1>7. chat.draining # None => w # <<>> /\ w[1] = chat.queue[1]
  BY <1>1, <1>2, <1>4 DEF KeptIn, Called
<1>8. KeptIn(b, entered, removed \union {m}, delivered, cutOff)
  BY <1>1, <1>2, <1>4, <1>6, <1>7, TakenKept
<1>9. History(entered, removed \union {m}, delivered, cutOff)
  BY <1>1 DEF History
<1> QED
  BY <1>5, <1>6, <1>8, <1>9, StoreStep
     DEF UserRemoves, Safe, QueueTypeOK, budget, backend

\* Clearing leaves the entry on its way.
LEMMA UserClearsSafe == ASSUME Safe, UserClears PROVE Safe'
<1>1. /\ chat \in Chat /\ History(entered, removed, delivered, cutOff)
      /\ KeptIn(chat, entered, removed, delivered, cutOff)
      /\ chat.queue \in Seq(Msg) /\ chat.draining \in Msg \union {None}
  BY SafeFacts
<1> DEFINE d == chat.draining
           w == IF d \in Range(chat.queue) THEN <<d>> ELSE <<>>
           gone == Range(chat.queue) \ {d}
           b == [chat EXCEPT !.queueHeld = FALSE, !.queue = w]
<1>2. chat' = b /\ removed' = removed \union gone
  BY DEF UserClears
<1>3. Range(chat.queue) \subseteq Msg
  BY <1>1, InRange, ElementOfSeq, LenProperties
<1>4. /\ w \in Seq(Msg) /\ Range(w) = Range(chat.queue) \ gone
      /\ \A i, j \in DOMAIN w : ~(i < j)
  <2>1. CASE d \in Range(chat.queue)
    <3>1. w = <<d>> /\ d \in Msg
      BY <2>1, <1>3
    <3>2. <<d>> \in Seq(Msg) /\ DOMAIN <<d>> = {1} /\ <<d>>[1] = d
      BY <3>1
    <3> QED
      BY <2>1, <3>1, <3>2 DEF Range
  <2>2. CASE d \notin Range(chat.queue)
    <3>1. w = <<>> /\ <<>> \in Seq(Msg) /\ DOMAIN <<>> = {}
      BY <2>2, EmptySeq, LenProperties
    <3> QED
      BY <2>2, <3>1 DEF Range
  <2> QED
    BY <2>1, <2>2
<1>5. d # None => w # <<>> /\ w[1] = chat.queue[1]
  <2> SUFFICES ASSUME d # None PROVE w # <<>> /\ w[1] = chat.queue[1]
    OBVIOUS
  <2>1. chat.queue # <<>> /\ chat.queue[1] = d /\ d \in Range(chat.queue)
    BY <1>1, HeadOfQueue DEF KeptIn, Called
  <2>2. w = <<d>>
    BY <2>1
  <2> QED
    BY <2>1, <2>2
<1>6. Ordered(w, entered)
  BY <1>4 DEF Ordered
<1> HIDE DEF w
<1>7. /\ b \in Chat /\ b.queue = w /\ b.draining = chat.draining
      /\ b.kind = chat.kind /\ b.stale = chat.stale
      /\ b.call = chat.call /\ b.startup = chat.startup
      /\ b.startupStale = chat.startupStale
  BY <1>1, <1>4 DEF Chat
<1> HIDE DEF b
<1>8. gone \in SUBSET Range(chat.queue) /\ chat.draining \notin gone
  OBVIOUS
<1> HIDE DEF gone
<1>9. KeptIn(b, entered, removed \union gone, delivered, cutOff)
  BY <1>1, <1>4, <1>5, <1>6, <1>7, <1>8, TakenKept
<1>10. History(entered, removed \union gone, delivered, cutOff)
  BY <1>1, <1>3, <1>8 DEF History
<1> QED
  BY <1>2, <1>7, <1>9, <1>10, StoreStep
     DEF UserClears, Safe, QueueTypeOK, budget, backend

\* Sending a held queue is a drain.
LEMMA UserSendsHeldSafe == ASSUME Safe, UserSendsHeld PROVE Safe'
<1>1. /\ chat \in Chat /\ History(entered, removed, delivered, cutOff)
      /\ KeptIn(chat, entered, removed, delivered, cutOff)
  BY SafeFacts
<1> DEFINE b == [chat EXCEPT !.queueHeld = FALSE]
<1>2. b \in Chat /\ SameCore(b, chat)
  BY <1>1 DEF Chat, SameCore
<1>3. chat' = Drains(b)
  BY DEF UserSendsHeld
<1> HIDE DEF b
<1>4. chat' \in Chat /\ KeptIn(chat', entered, removed, delivered, cutOff)
  BY <1>1, <1>2, <1>3, CoreKept, DrainsKept
<1> QED
  BY <1>1, <1>4, StoreStep DEF UserSendsHeld, Safe, QueueTypeOK, budget, backend, history

\* An interrupt touches no message.
LEMMA UserInterruptsSafe == ASSUME Safe, UserInterrupts PROVE Safe'
<1>1. /\ chat \in Chat /\ History(entered, removed, delivered, cutOff)
      /\ KeptIn(chat, entered, removed, delivered, cutOff)
  BY SafeFacts
<1>2. chat' \in Chat /\ SameCore(chat', chat)
  BY <1>1 DEF UserInterrupts, Chat, SameCore
<1>3. KeptIn(chat', entered, removed, delivered, cutOff)
  BY <1>1, <1>2, CoreKept
<1>4. stops' \in 0..MaxStops
  BY BoundsAssumption DEF UserInterrupts, Safe, QueueTypeOK
<1> QED
  BY <1>1, <1>2, <1>3, <1>4, StoreStep
     DEF UserInterrupts, Safe, QueueTypeOK, backend, history

\* A flip of the flag re-folds or leaves word to.
LEMMA FlagFlipsSafe == ASSUME Safe, FlagFlips PROVE Safe'
<1>1. /\ chat \in Chat /\ History(entered, removed, delivered, cutOff)
      /\ KeptIn(chat, entered, removed, delivered, cutOff)
  BY SafeFacts
<1>2. chat' \in Chat /\ KeptIn(chat', entered, removed, delivered, cutOff)
  <2>1. CASE chat.turnActive
    <3>1. chat' = [chat EXCEPT !.refold = TRUE]
      BY <2>1 DEF FlagFlips
    <3>2. chat' \in Chat /\ SameCore(chat', chat)
      BY <1>1, <3>1 DEF Chat, SameCore
    <3> QED
      BY <1>1, <3>2, CoreKept
  <2>2. CASE ~chat.turnActive
    BY <1>1, <2>2, RefoldsKept DEF FlagFlips
  <2> QED
    BY <2>1, <2>2
<1>3. flips' \in 0..MaxFlips
  BY BoundsAssumption DEF FlagFlips, Safe, QueueTypeOK
<1> QED
  BY <1>1, <1>2, <1>3, StoreStep DEF FlagFlips, Safe, QueueTypeOK, backend, history

\* The head of the queue is the only queued message with a call.
LEMMA DrainingIsHead ==
    ASSUME NEW c \in Chat, NEW e, NEW r, NEW d, NEW x, KeptIn(c, e, r, d, x),
           c.draining # None
    PROVE  /\ c.draining \in Msg /\ c.kind[c.draining] = "queued"
           /\ c.draining \in Range(c.queue)
<1>1. c.draining \in Msg /\ c.draining \in Range(c.queue)
  BY HeadOfQueue DEF KeptIn, Called
<1> QED
  BY <1>1 DEF KeptIn, Lined

\* The answer to a send by hand settles no queued message.
LEMMA SendAnsweredSafe == ASSUME Safe, NEW m \in Msg, SendAnswered(m) PROVE Safe'
<1>1. /\ chat \in Chat /\ History(entered, removed, delivered, cutOff)
      /\ KeptIn(chat, entered, removed, delivered, cutOff) /\ chat.stale \subseteq Msg
  BY SafeFacts
<1>2. chat.kind[m] = "send" /\ chat.call[m] \in {"ok", "err"}
  BY DEF SendAnswered
<1>3. chat.draining # m
  BY <1>1, <1>2, DrainingIsHead, NoneAssumption
<1>4. /\ chat' \in Chat /\ IsOver(chat', chat, {m})
      /\ chat'.startup = chat.startup /\ chat'.startupStale = chat.startupStale
  <2>1. CASE chat.call[m] = "ok"
    BY <1>1, <1>3, <2>1, SettlesFields DEF SendAnswered, IsOver
  <2>2. CASE chat.call[m] = "err"
    <3>1. chat' = SendsFail(chat, {m}) /\ {m} \in SUBSET Msg
      BY <2>2 DEF SendAnswered
    <3> QED
      BY <1>1, <3>1, SendsFailFields
  <2> QED
    BY <1>2, <2>1, <2>2
<1>5. Awaited(chat')
  BY <1>1, <1>2, <1>4 DEF IsOver, KeptIn, Awaited
<1>6. cutOff \subseteq cutOff' /\ cutOff' \subseteq cutOff \union {m}
  BY DEF SendAnswered
<1>7. KeptIn(chat', entered, removed, delivered, cutOff')
  BY <1>1, <1>2, <1>4, <1>5, <1>6, SettledKept
<1>8. History(entered, removed, delivered, cutOff')
  BY <1>1, <1>6 DEF History
<1> QED
  BY <1>4, <1>7, <1>8, StoreStep
     DEF SendAnswered, Safe, QueueTypeOK, budget, backend

\* The answer to a drain retires its entry, or leaves it to be sent again: then
\* the backend does not have it, or the drain was stale and the entry is cut off.
LEMMA DrainAnsweredSafe == ASSUME Safe, NEW m \in Msg, DrainAnswered(m) PROVE Safe'
<1>1. /\ chat \in Chat /\ History(entered, removed, delivered, cutOff)
      /\ KeptIn(chat, entered, removed, delivered, cutOff)
      /\ chat.stale \subseteq Msg /\ chat.queue \in Seq(Msg)
  BY SafeFacts
<1>2. /\ chat.draining = m /\ chat.call[m] \in {"ok", "err"}
      /\ cutOff' = cutOff \union (chat.stale \intersect {m})
  BY DEF DrainAnswered
<1>3. chat.kind[m] = "queued"
  BY <1>1, <1>2, DrainingIsHead, NoneAssumption
<1> DEFINE over == Settles(chat, {m})
           free == Releases(over)
           w == Without(chat.queue, m)
           retired == [free EXCEPT !.queue = w]
<1>4. /\ free \in Chat /\ free.queue = chat.queue /\ free.kind = chat.kind
      /\ free.stale = chat.stale \ {m} /\ free.draining = None
      /\ free.call = [n \in Msg |-> IF n = m THEN "none" ELSE chat.call[n]]
      /\ free.startup = chat.startup /\ free.startupStale = chat.startupStale
  <2>1. /\ over \in Chat /\ over.queue = chat.queue /\ over.kind = chat.kind
        /\ over.stale = chat.stale \ {m}
        /\ over.call = [n \in Msg |-> IF n \in {m} THEN "none" ELSE chat.call[n]]
        /\ over.startup = chat.startup /\ over.startupStale = chat.startupStale
    BY <1>1, SettlesFields
  <2> HIDE DEF over
  <2> QED
    BY <2>1, ReleasesFields
<1>5. /\ retired \in Chat /\ retired.queue = w /\ retired.kind = free.kind
      /\ retired.stale = free.stale /\ retired.draining = free.draining
      /\ retired.call = free.call
      /\ retired.startup = free.startup /\ retired.startupStale = free.startupStale
  <2>1. w \in Seq(Msg)
    <3>1. Distinct(chat.queue)
      BY <1>1, OrderedIsDistinct DEF KeptIn, Lined, History
    <3> QED
      BY <1>1, <3>1, WithoutFacts
  <2> HIDE DEF free, w
  <2> QED
    BY <1>4, <2>1 DEF Chat
<1>6. chat' = IF chat.call[m] = "ok" THEN DrainLands(chat, m) ELSE SendsFail(chat, {m})
  BY DEF DrainAnswered
<1>7. /\ m \in chat.stale => DrainLands(chat, m) = free
      /\ m \notin chat.stale /\ ~chat.missed => DrainLands(chat, m) = retired
      /\ m \notin chat.stale /\ chat.missed => DrainLands(chat, m) = Drains(retired)
  <2>1. free.queue = chat.queue
    BY <1>4
  <2>2. retired = [free EXCEPT !.queue = Without(@, m)]
    BY <2>1
  <2> QED
    BY <2>2 DEF DrainLands
<1> HIDE DEF free, w, retired
<1>8. Awaited(free)
  BY <1>1, <1>2, <1>4 DEF KeptIn, Awaited
<1>9. chat' \in Chat /\ KeptIn(chat', entered, removed, delivered, cutOff')
  <2>1. CASE chat.call[m] = "ok" /\ m \in chat.stale
    <3>1. chat' = free /\ m \in cutOff'
      BY <1>2, <1>6, <1>7, <2>1
    <3>2. IsOver(free, chat, {m})
      BY <1>2, <1>4 DEF IsOver
    <3>3. /\ cutOff \subseteq cutOff'
          /\ \A n \in cutOff' \ cutOff : chat.kind[n] \in {"send", "queued"}
      BY <1>2, <1>3
    <3> QED
      BY <1>1, <1>4, <1>8, <3>1, <3>2, <3>3, SettledKept
  <2>2. CASE chat.call[m] = "ok" /\ m \notin chat.stale
    <3>1. retired.stale = chat.stale /\ cutOff' = cutOff
      BY <1>2, <1>4, <1>5, <2>2
    <3>2. KeptIn(retired, entered, removed, delivered, cutOff)
      BY <1>1, <1>2, <1>4, <1>5, <2>2, <3>1, RetiredKept DEF w
    <3>3. Drains(retired) \in Chat /\ KeptIn(Drains(retired), entered, removed, delivered, cutOff)
      BY <1>1, <1>5, <3>2, DrainsKept
    <3>4. chat' = retired \/ chat' = Drains(retired)
      BY <1>6, <1>7, <2>2
    <3> QED
      BY <1>5, <3>1, <3>2, <3>3, <3>4
  <2>3. CASE chat.call[m] = "err"
    <3>1. chat' = SendsFail(chat, {m}) /\ {m} \in SUBSET Msg
      BY <1>6, <2>3
    <3>2. /\ chat' \in Chat /\ IsOver(chat', chat, {m})
          /\ chat'.startup = chat.startup /\ chat'.startupStale = chat.startupStale
      BY <1>1, <3>1, SendsFailFields
    <3>3. Awaited(chat')
      BY <1>1, <1>2, <3>2 DEF IsOver, KeptIn, Awaited
    <3>4. /\ cutOff \subseteq cutOff'
          /\ \A n \in cutOff' \ cutOff : chat.kind[n] \in {"send", "queued"}
      BY <1>2, <1>3
    <3>5. m \in cutOff \/ delivered[m] = 0
      BY <1>1, <2>3 DEF KeptIn, Counted
    <3> QED
      BY <1>1, <3>2, <3>3, <3>4, <3>5, SettledKept
  <2> QED
    BY <1>2, <2>1, <2>2, <2>3
<1>10. History(entered, removed, delivered, cutOff')
  BY <1>1, <1>2 DEF History
<1> QED
  BY <1>9, <1>10, StoreStep DEF DrainAnswered, Safe, QueueTypeOK, budget, backend

\* A follow-up refused joins the queue, undelivered.
LEMMA FollowUpAnsweredSafe == ASSUME Safe, NEW m \in Msg, FollowUpAnswered(m) PROVE Safe'
<1>1. /\ chat \in Chat /\ History(entered, removed, delivered, cutOff)
      /\ KeptIn(chat, entered, removed, delivered, cutOff) /\ chat.stale \subseteq Msg
  BY SafeFacts
<1>2. chat.kind[m] = "followUp" /\ chat.call[m] \in {"ok", "err"}
  BY DEF FollowUpAnswered
<1>3. chat.draining # m
  BY <1>1, <1>2, DrainingIsHead, NoneAssumption
<1> DEFINE over == Settles(chat, {m})
           b == [over EXCEPT !.error = IF m \in chat.stale THEN @ ELSE "followUp"]
<1>4. /\ over \in Chat /\ IsOver(over, chat, {m})
      /\ over.startup = chat.startup /\ over.startupStale = chat.startupStale
      /\ over.call[m] = "none" /\ over.kind = chat.kind
  BY <1>1, <1>3, SettlesFields DEF IsOver
<1>5. Awaited(over)
  BY <1>1, <1>2, <1>4 DEF IsOver, KeptIn, Awaited
<1>6. KeptIn(over, entered, removed, delivered, cutOff)
  BY <1>1, <1>2, <1>4, <1>5, SettledKept
<1>7. \/ chat.call[m] = "ok" /\ chat' = over /\ entered' = entered
      \/ chat.call[m] = "err" /\ chat' = Queues(b, m) /\ entered' = Append(entered, m)
  BY DEF FollowUpAnswered
<1> HIDE DEF over
<1>8. chat' \in Chat /\ KeptIn(chat', entered', removed, delivered, cutOff)
      /\ entered' \in Seq(Msg)
  <2>1. CASE chat' = over /\ entered' = entered
    BY <1>1, <1>4, <1>6, <2>1 DEF History
  <2>2. CASE chat.call[m] = "err" /\ chat' = Queues(b, m) /\ entered' = Append(entered, m)
    <3>1. b \in Chat /\ SameCore(b, over)
      BY <1>4 DEF Chat, SameCore
    <3> HIDE DEF b
    <3>2. KeptIn(b, entered, removed, delivered, cutOff)
      BY <1>6, <3>1, CoreKept
    <3>3. b.kind[m] # "queued" /\ b.call[m] = "none" /\ delivered[m] = 0
      BY <1>1, <1>2, <1>4, <2>2, <3>1 DEF SameCore, KeptIn, Counted
    <3>4. Append(entered, m) \in Seq(Msg)
      BY <1>1, AppendFacts DEF History
    <3> QED
      BY <1>1, <2>2, <3>1, <3>2, <3>3, <3>4, QueuedKept
  <2> QED
    BY <1>7, <2>1, <2>2
<1> QED
  BY <1>1, <1>8, StoreStep
     DEF FollowUpAnswered, Safe, QueueTypeOK, History, budget, backend

\* A session that starts, or fails to, moves the sends that waited for it.
LEMMA SessionStartedSafe == ASSUME Safe, SessionStarted PROVE Safe'
<1>1. /\ chat \in Chat /\ History(entered, removed, delivered, cutOff)
      /\ KeptIn(chat, entered, removed, delivered, cutOff)
      /\ chat.stale \subseteq Msg /\ chat.draining \in Msg \union {None}
      /\ chat.call \in [Msg -> {"none", "starting", "asked", "ok", "err"}]
  BY SafeFacts
<1> DEFINE waiting == {m \in Msg : chat.call[m] = "starting"}
           idle == [chat EXCEPT !.startup = "none", !.startupStale = FALSE]
           on == [idle EXCEPT !.session = TRUE, !.error = "none",
                    !.call = [m \in Msg |-> IF m \in waiting THEN "asked" ELSE @[m]]]
<1>2. /\ idle \in Chat /\ idle.queue = chat.queue /\ idle.draining = chat.draining
      /\ idle.kind = chat.kind /\ idle.stale = chat.stale /\ idle.call = chat.call
      /\ idle.startup = "none" /\ idle.startupStale = FALSE
  BY <1>1 DEF Chat
<1>3. \/ chat' = on /\ UNCHANGED <<backend, cutOff, givenBack>>
      \/ /\ chat' = SendsFail(idle, waiting)
         /\ cutOff' = cutOff \union (waiting \intersect chat.stale)
         /\ turn' \in {"none", turn} /\ UNCHANGED <<closing, chan, delivered>>
         /\ givenBack' = (givenBack \/ turn' # turn)
  BY DEF SessionStarted
<1>4. UNCHANGED <<provider, interrupting, budget, entered, removed>>
  BY DEF SessionStarted
<1>5. \A m \in waiting : chat.kind[m] \in {"send", "queued"} /\ (m \in cutOff \/ delivered[m] = 0)
  BY <1>1 DEF KeptIn, Called, Counted
<1>6. chat' \in Chat /\ History(entered, removed, delivered, cutOff')
      /\ KeptIn(chat', entered, removed, delivered, cutOff')
  <2>1. CASE chat' = on /\ UNCHANGED <<backend, cutOff, givenBack>>
    <3> DEFINE f == [m \in Msg |-> IF m \in waiting THEN "asked" ELSE chat.call[m]]
    <3>1. on = [idle EXCEPT !.session = TRUE, !.error = "none", !.call = f]
      BY <1>2
    <3>2. f \in [Msg -> {"none", "starting", "asked", "ok", "err"}]
      BY <1>1
    <3>3. f = [m \in Msg |-> IF chat.call[m] = "starting" THEN "asked" ELSE chat.call[m]]
      OBVIOUS
    <3> HIDE DEF idle, f, waiting
    <3>4. /\ on \in Chat /\ on.queue = idle.queue /\ on.draining = idle.draining
          /\ on.kind = idle.kind /\ on.stale = idle.stale /\ on.call = f
          /\ on.startup = idle.startup /\ on.startupStale = idle.startupStale
      BY <1>2, <3>1, <3>2 DEF Chat
    <3> HIDE DEF on
    <3>5. KeptIn(on, entered, removed, delivered, cutOff)
      BY <1>1, <1>2, <3>3, <3>4, StartedKept
    <3> QED
      BY <1>1, <2>1, <3>4, <3>5
  <2>2. CASE /\ chat' = SendsFail(idle, waiting)
             /\ cutOff' = cutOff \union (waiting \intersect chat.stale)
    <3>1. waiting \in SUBSET Msg
      OBVIOUS
    <3> HIDE DEF idle
    <3>2. /\ chat' \in Chat /\ IsOver(chat', idle, waiting)
          /\ chat'.startup = "none" /\ chat'.startupStale = FALSE
      BY <1>2, <2>2, <3>1, SendsFailFields, ZenonT(40)
    <3>3. IsOver(chat', chat, waiting) /\ Awaited(chat')
      BY <1>2, <3>2 DEF IsOver, Awaited
    <3>4. /\ cutOff \subseteq cutOff' /\ cutOff' \subseteq Msg
          /\ \A m \in cutOff' \ cutOff : chat.kind[m] \in {"send", "queued"}
      BY <1>1, <1>5, <2>2 DEF History
    <3>5. \A m \in waiting : chat.kind[m] = "queued" => m \in cutOff' \/ delivered[m] = 0
      BY <1>5, <3>4
    <3> HIDE DEF waiting
    <3>6. KeptIn(chat', entered, removed, delivered, cutOff')
      BY <1>1, <3>3, <3>4, <3>5, SettledKept
    <3> QED
      BY <1>1, <3>2, <3>4, <3>6 DEF History
  <2> QED
    BY <1>3, <2>1, <2>2
<1>7. /\ turn' \in {"none", "accepted", "started"} /\ givenBack' \in BOOLEAN
      /\ UNCHANGED <<closing, chan, delivered>>
  BY <1>3 DEF Safe, QueueTypeOK, backend
<1> QED
  BY <1>1, <1>4, <1>6, <1>7, SafeStep DEF Safe, QueueTypeOK, budget

\* The history of a re-fold holds no queue.
LEMMA RefoldLoadsSafe == ASSUME Safe, RefoldLoads PROVE Safe'
<1>1. chat \in Chat /\ History(entered, removed, delivered, cutOff)
      /\ KeptIn(chat, entered, removed, delivered, cutOff)
  BY SafeFacts
<1>2. chat' \in Chat /\ SameCore(chat', chat)
  BY <1>1, ZenonT(40) DEF RefoldLoads, Chat, SameCore
<1>3. KeptIn(chat', entered, removed, delivered, cutOff)
  BY <1>1, <1>2, CoreKept
<1> QED
  BY <1>1, <1>2, <1>3, StoreStep DEF RefoldLoads, Safe, QueueTypeOK, budget, backend, history

\* An interrupt that failed touches no message.
LEMMA StopFailedSafe == ASSUME Safe, StopFailed PROVE Safe'
<1>1. chat \in Chat /\ History(entered, removed, delivered, cutOff)
      /\ KeptIn(chat, entered, removed, delivered, cutOff)
  BY SafeFacts
<1>2. chat' \in Chat /\ SameCore(chat', chat)
  BY <1>1 DEF StopFailed, Chat, SameCore
<1>3. KeptIn(chat', entered, removed, delivered, cutOff)
  BY <1>1, <1>2, CoreKept
<1> QED
  BY <1>1, <1>2, <1>3, StoreStep DEF StopFailed, Safe, QueueTypeOK, budget, backend, history

\* The channel without its first event.
LEMMA TailOfChan ==
    ASSUME Safe, chan # <<>>
    PROVE  /\ Tail(chan) \in Seq(Ends \union {"started"}) /\ Head(chan) = chan[1]
           /\ Len(Tail(chan)) = Len(chan) - 1 /\ Len(chan) \in Nat \ {0}
           /\ DOMAIN chan = 1..Len(chan) /\ DOMAIN Tail(chan) = 1..Len(chan)-1
           /\ \A i \in 1..Len(chan)-1 : Tail(chan)[i] = chan[i+1]
<1>1. chan \in Seq(Ends \union {"started"})
  BY DEF Safe, QueueTypeOK
<1>2. /\ Tail(chan) \in Seq(Ends \union {"started"}) /\ Head(chan) = chan[1]
      /\ Len(Tail(chan)) = Len(chan) - 1
      /\ \A i \in 1..Len(Tail(chan)) : Tail(chan)[i] = chan[i+1]
  BY <1>1, HeadTailProperties
<1>3. Len(chan) \in Nat \ {0} /\ DOMAIN chan = 1..Len(chan)
      /\ DOMAIN Tail(chan) = 1..Len(Tail(chan))
  BY <1>1, <1>2, EmptySeq, LenProperties
<1> QED
  BY <1>2, <1>3

\* turnStarted touches no message.
LEMMA StartArrivesSafe == ASSUME Safe, StartArrives PROVE Safe'
<1>1. chat \in Chat /\ History(entered, removed, delivered, cutOff)
      /\ KeptIn(chat, entered, removed, delivered, cutOff)
  BY SafeFacts
<1>2. chat' \in Chat /\ SameCore(chat', chat)
  BY <1>1 DEF StartArrives, Chat, SameCore
<1>3. KeptIn(chat', entered, removed, delivered, cutOff)
  BY <1>1, <1>2, CoreKept
<1>4. chan' \in Seq(Ends \union {"started"})
  BY TailOfChan DEF StartArrives
<1> QED
  BY <1>1, <1>2, <1>3, <1>4, SafeStep
     DEF StartArrives, Safe, QueueTypeOK, budget, history

\* The end of a turn holds the queue or drains it.
LEMMA EndArrivesSafe == ASSUME Safe, EndArrives PROVE Safe'
<1>1. chat \in Chat /\ History(entered, removed, delivered, cutOff)
      /\ KeptIn(chat, entered, removed, delivered, cutOff)
  BY SafeFacts
<1>2. chat' \in Chat /\ KeptIn(chat', entered, removed, delivered, cutOff)
  BY <1>1, EndedKept DEF EndArrives
<1>3. chan' \in Seq(Ends \union {"started"})
  BY TailOfChan DEF EndArrives
<1> QED
  BY <1>1, <1>2, <1>3, SafeStep DEF EndArrives, Safe, QueueTypeOK, budget, history

\* The backend answers a call.
LEMMA AnswersSafe ==
    ASSUME Safe, NEW m \in Msg, NEW answer \in {"ok", "err"}, chat.call[m] = "asked",
           Answers(m, answer), turn' \in {"none", "accepted", "started"},
           delivered' = IF answer = "ok" THEN [delivered EXCEPT ![m] = @ + 1] ELSE delivered
    PROVE  Safe'
<1>1. chat \in Chat /\ History(entered, removed, delivered, cutOff)
      /\ KeptIn(chat, entered, removed, delivered, cutOff)
  BY SafeFacts
<1>2. chat' = [chat EXCEPT !.call[m] = answer]
      /\ UNCHANGED <<provider, interrupting, budget, closing, chan, history>>
  BY DEF Answers
<1>3. chat' \in Chat /\ SameCore(chat', [chat EXCEPT !.call[m] = answer])
  BY <1>1, <1>2 DEF Chat, SameCore
<1>4. KeptIn(chat', entered, removed, delivered', cutOff)
  BY <1>1, <1>3, AnsweredKept
<1>5. History(entered, removed, delivered', cutOff)
  BY <1>1 DEF History
<1> QED
  BY <1>2, <1>3, <1>4, <1>5, SafeStep DEF Safe, QueueTypeOK, budget, history

\* The backend takes what it was sent.
LEMMA TakesSendSafe == ASSUME Safe, NEW m \in Msg, TakesSend(m) PROVE Safe'
BY AnswersSafe DEF TakesSend

\* It takes a follow-up into the turn that runs.
LEMMA TakesFollowUpSafe == ASSUME Safe, NEW m \in Msg, TakesFollowUp(m) PROVE Safe'
BY AnswersSafe DEF TakesFollowUp, Safe, QueueTypeOK

\* It refuses, and has no more of the message than before.
LEMMA RefusesSafe == ASSUME Safe, NEW m \in Msg, Refuses(m) PROVE Safe'
BY AnswersSafe DEF Refuses, Safe, QueueTypeOK

\* The answer of a start waits for the store.
LEMMA SessionStartsSafe == ASSUME Safe, SessionStarts PROVE Safe'
<1>1. chat \in Chat /\ History(entered, removed, delivered, cutOff)
      /\ KeptIn(chat, entered, removed, delivered, cutOff)
  BY SafeFacts
<1>2. PICK answer \in {"ok", "err"} :
         /\ chat' = [chat EXCEPT !.startup = answer]
         /\ chan' = IF answer = "ok" /\ turn # "none" THEN Append(chan, "started") ELSE chan
  BY DEF SessionStarts
<1>3. /\ chat' \in Chat /\ chat'.queue = chat.queue /\ chat'.draining = chat.draining
      /\ chat'.kind = chat.kind /\ chat'.call = chat.call /\ chat'.stale = chat.stale
      /\ chat'.startupStale = chat.startupStale
  BY <1>1, <1>2 DEF Chat
<1>4. chat.startup # "none"
  BY DEF SessionStarts
<1>5. KeptIn(chat', entered, removed, delivered, cutOff)
  <2>1. Lined(chat', entered, removed)
    BY <1>1, <1>3 DEF KeptIn, Lined
  <2>2. Called(chat')
    BY <1>1, <1>3 DEF KeptIn, Called, InFlight
  <2>3. Awaited(chat')
    BY <1>1, <1>3, <1>4 DEF KeptIn, Awaited
  <2>4. Counted(chat', removed, delivered, cutOff)
    BY <1>1, <1>3 DEF KeptIn, Counted
  <2>5. Passed(chat', entered, delivered)
    BY <1>1, <1>3 DEF KeptIn, Passed
  <2> QED
    BY <2>1, <2>2, <2>3, <2>4, <2>5 DEF KeptIn
<1>6. chan' \in Seq(Ends \union {"started"})
  BY <1>2, AppendFacts DEF Safe, QueueTypeOK
<1> QED
  BY <1>1, <1>3, <1>5, <1>6, SafeStep DEF SessionStarts, Safe, QueueTypeOK, budget, history

\* A step of the backend that does not touch the entry.
LEMMA BackendStep ==
    ASSUME Safe, UNCHANGED <<provider, chat, budget, delivered, history>>,
           interrupting' \in {"none", "asked", "err"},
           turn' \in {"none", "accepted", "started"}, closing' \in Ends \union {None},
           chan' \in Seq(Ends \union {"started"})
    PROVE  Safe'
<1>1. chat \in Chat /\ History(entered, removed, delivered, cutOff)
      /\ KeptIn(chat, entered, removed, delivered, cutOff)
  BY SafeFacts
<1> QED
  BY <1>1, SafeStep DEF Safe, QueueTypeOK, budget, history

\* Turns begin and end without the store.
LEMMA BackendSafe ==
    ASSUME Safe, \/ TurnBegins \/ EndReported \/ TakesStop
                 \/ \E end \in {"done", "failed"} : TurnEnds(end)
    PROVE  Safe'
<1>1. CASE TurnBegins
  BY <1>1, BackendStep, AppendFacts DEF TurnBegins, Safe, QueueTypeOK
<1>2. CASE EndReported
  BY <1>2, BackendStep, AppendFacts DEF EndReported, Safe, QueueTypeOK
<1>3. CASE TakesStop
  BY <1>3, BackendStep DEF TakesStop, Clears, Ends, Safe, QueueTypeOK
<1>4. ASSUME NEW end \in {"done", "failed"}, TurnEnds(end) PROVE Safe'
  BY <1>4, BackendStep DEF TurnEnds, Clears, Ends, Safe, QueueTypeOK
<1> QED
  BY <1>1, <1>2, <1>3, <1>4

\* A chat starts with an empty queue and no history.
LEMMA SafeInit == QueueInit => Safe
<1> SUFFICES ASSUME QueueInit PROVE Safe
  OBVIOUS
<1>1. <<>> \in Seq(Msg) /\ <<>> \in Seq(Ends \union {"started"})
      /\ DOMAIN <<>> = {} /\ Range(<<>>) = {}
  BY EmptySeq, LenProperties DEF Range
<1>2. QueueTypeOK
  <2>1. chat \in Chat
    BY <1>1 DEF QueueInit, Chat
  <2>2. delivered \in [Msg -> Nat] /\ closing \in Ends \union {None}
    BY DEF QueueInit
  <2>3. flips \in 0..MaxFlips /\ stops \in 0..MaxStops
    BY BoundsAssumption DEF QueueInit
  <2>4. chat.draining = None
    BY DEF QueueInit
  <2>5. /\ provider \in Providers /\ interrupting \in {"none", "asked", "err"}
        /\ turn \in {"none", "accepted", "started"}
        /\ chan \in Seq(Ends \union {"started"}) /\ entered \in Seq(Msg)
        /\ removed \subseteq Msg /\ cutOff \subseteq Msg /\ givenBack \in BOOLEAN
    BY <1>1 DEF QueueInit
  <2> QED
    BY <2>1, <2>2, <2>3, <2>4, <2>5 DEF QueueTypeOK
<1>3. Lined(chat, entered, removed)
  BY <1>1 DEF QueueInit, Lined, Distinct, Ordered
<1>4. Called(chat)
  BY DEF QueueInit, Called
<1>5. Awaited(chat)
  BY DEF QueueInit, Awaited
<1>6. Counted(chat, removed, delivered, cutOff)
  BY <1>1 DEF QueueInit, Counted
<1>7. Passed(chat, entered, delivered)
  BY <1>1 DEF QueueInit, Passed
<1> QED
  BY <1>2, <1>3, <1>4, <1>5, <1>6, <1>7 DEF Safe, Kept, KeptIn

\* Every step keeps the queue and its history.
LEMMA SafeNext == Safe /\ [QueueNext]_queueVars => Safe'
<1> SUFFICES ASSUME Safe, [QueueNext]_queueVars PROVE Safe'
  OBVIOUS
<1>1. CASE UNCHANGED queueVars
  BY <1>1, BackendStep DEF queueVars, backend, Safe, QueueTypeOK
<1>2. CASE UserClears \/ UserSendsHeld \/ UserInterrupts \/ FlagFlips
  BY <1>2, UserClearsSafe, UserSendsHeldSafe, UserInterruptsSafe, FlagFlipsSafe
<1>3. ASSUME NEW m \in Msg,
             UserSends(m) \/ UserQueues(m) \/ UserFollowsUp(m) \/ UserRemoves(m)
      PROVE  Safe'
  BY <1>3, UserSendsSafe, UserQueuesSafe, UserFollowsUpSafe, UserRemovesSafe
<1>4. ASSUME NEW m \in Msg,
             \/ SendAnswered(m) \/ DrainAnswered(m) \/ FollowUpAnswered(m)
             \/ TakesSend(m) \/ TakesFollowUp(m) \/ Refuses(m)
      PROVE  Safe'
  BY <1>4, SendAnsweredSafe, DrainAnsweredSafe, FollowUpAnsweredSafe,
     TakesSendSafe, TakesFollowUpSafe, RefusesSafe
<1>5. CASE SessionStarted \/ RefoldLoads \/ StopFailed \/ StartArrives \/ EndArrives
           \/ SessionStarts
  BY <1>5, SessionStartedSafe, RefoldLoadsSafe, StopFailedSafe, StartArrivesSafe,
     EndArrivesSafe, SessionStartsSafe
<1>6. CASE \/ TurnBegins \/ EndReported \/ TakesStop
           \/ \E end \in {"done", "failed"} : TurnEnds(end)
  BY <1>6, BackendSafe
<1> QED
  BY <1>1, <1>2, <1>3, <1>4, <1>5, <1>6 DEF QueueNext

-----------------------------------------------------------------------------
(* The actions leave no chat stranded                                        *)

\* A step of the store that leaves the backend alone.
LEMMA StoreLive ==
    ASSUME Lively, UNCHANGED <<provider, backend, givenBack>>,
           chat'.turnActive =>
              Asking(chat') \/ (chat.turnActive /\ (Asking(chat) => Asking(chat'))),
           Idle(chat') /\ cutOff' = {} /\ provider # "pi" =>
              Stirs(chat') \/ (Idle(chat) /\ cutOff = {} /\ (Stirs(chat) => Stirs(chat')))
    PROVE  Lively'
<1>1. EndComes' <=> EndComes
  BY DEF backend, EndComes
<1>2. Busy'
  <2>1. Asking(chat)' <=> Asking(chat')
    BY DEF Asking, Pending
  <2> QED
    BY <1>1, <2>1 DEF Lively, Busy
<1>3. Announced'
  BY DEF backend, Lively, Announced
<1>4. Moving'
  <2>1. (Idle(chat)' <=> Idle(chat')) /\ (Stirs(chat)' <=> Stirs(chat'))
    BY DEF Idle, Stirs, Pending
  <2> QED
    BY <1>1, <2>1 DEF Lively, Moving
<1> QED
  BY <1>2, <1>3, <1>4 DEF Lively

\* One after which the end of a turn is to come.
LEMMA EndToCome ==
    ASSUME EndComes', Announced' PROVE Lively'
BY DEF Lively, Busy, Moving

\* A stale call is in flight.
LEMMA FreshIsNotStale ==
    ASSUME Safe, NEW m \in Msg, chat.call[m] = "none"
    PROVE  m \notin chat.stale
BY DEF Safe, Kept, KeptIn, Called, InFlight

\* A drain leaves the entry busy with a fresh send, or remembers that it came.
LEMMA DrainsLive ==
    ASSUME NEW c \in Chat, NEW e, NEW r, NEW d, NEW x, KeptIn(c, e, r, d, x)
    PROVE  /\ Drains(c).turnActive => Asking(Drains(c)) \/ (c.turnActive /\ Drains(c) = c)
           /\ Idle(Drains(c)) => Stirs(Drains(c))
<1>1. CASE ~Drainable(c)
  <2>1. Drains(c) = c
    BY <1>1, DrainsIs
  <2> QED
    BY <1>1, <2>1 DEF Drainable, Idle
<1>2. CASE Drainable(c) /\ c.draining # None
  <2> DEFINE b == [c EXCEPT !.missed = TRUE]
  <2>1. b.missed = TRUE /\ b.turnActive = c.turnActive /\ b.draining = c.draining
    BY MissedFields
  <2>2. Drains(c) = b
    BY <1>2, DrainsIs
  <2> HIDE DEF b
  <2> QED
    BY <1>2, <2>1, <2>2 DEF Drainable, Stirs
<1>3. CASE Drainable(c) /\ c.draining = None
  <2> DEFINE b == HeadSent(c)
             h == c.queue[1]
  <2>1. c.queue # <<>>
    BY <1>3 DEF Drainable
  <2>2. /\ b.turnActive = TRUE /\ b.kind = c.kind /\ b.stale = c.stale
        /\ b.call = [c.call EXCEPT ![h] = IF c.session THEN "asked" ELSE "starting"]
    BY <2>1, HeadSentFields
  <2>3. h \in Msg /\ h \in Range(c.queue)
    BY <2>1, HeadOfQueue
  <2>4. c.kind[h] = "queued" /\ c.call[h] = "none" /\ h \notin c.stale
    BY <1>3, <2>3, NoneAssumption DEF KeptIn, Lined, Called, InFlight
  <2>5. c.call \in [Msg -> {"none", "starting", "asked", "ok", "err"}]
    BY DEF Chat
  <2>6. Drains(c) = b
    BY <1>3, DrainsIs
  <2> HIDE DEF b, h
  <2>7. Pending(b, h) /\ h \notin b.stale
    BY <2>2, <2>3, <2>4, <2>5 DEF Pending
  <2>8. Asking(b)
    BY <2>3, <2>7 DEF Asking
  <2>9. ~Idle(b)
    BY <2>2 DEF Idle
  <2> QED
    BY <2>6, <2>8, <2>9
<1> QED
  BY <1>1, <1>2, <1>3

\* A send is a fresh call of a busy chat.
LEMMA UserSendsLive == ASSUME Safe, Lively, NEW m \in Msg, UserSends(m) PROVE Lively'
<1> DEFINE s == Sends(chat, m)
           b == [s EXCEPT !.kind[m] = "send"]
<1>1. chat \in Chat /\ KeptIn(chat, entered, removed, delivered, cutOff)
      /\ chat.call \in [Msg -> {"none", "starting", "asked", "ok", "err"}]
  BY SafeFacts
<1>2. /\ s \in Chat /\ s.turnActive = TRUE /\ s.kind = chat.kind /\ s.stale = chat.stale
      /\ s.call = [chat.call EXCEPT ![m] = IF chat.session THEN "asked" ELSE "starting"]
  BY <1>1, SendsFields
<1>3. chat' = b
  BY DEF UserSends
<1> HIDE DEF s
<1>4. /\ b.turnActive = s.turnActive /\ b.kind = [s.kind EXCEPT ![m] = "send"]
      /\ b.stale = s.stale /\ b.call = s.call
      /\ s.kind \in [Msg -> {"new", "send", "followUp", "queued"}]
  BY <1>2 DEF Chat
<1> HIDE DEF b
<1>5. m \notin chat.stale
  BY <1>1, FreshIsNotStale DEF UserSends, KeptIn, Called
<1>6. Pending(b, m) /\ m \notin b.stale
  BY <1>1, <1>2, <1>4, <1>5 DEF Pending
<1>7. Asking(chat') /\ chat'.turnActive = TRUE
  BY <1>2, <1>3, <1>4, <1>6 DEF Asking
<1> QED
  BY <1>7, StoreLive DEF UserSends, history, Idle

\* A queue grows only while a turn runs.
LEMMA UserQueuesLive == ASSUME Safe, Lively, NEW m \in Msg, UserQueues(m) PROVE Lively'
<1>1. chat \in Chat /\ KeptIn(chat, entered, removed, delivered, cutOff)
      /\ chat.kind \in [Msg -> {"new", "send", "followUp", "queued"}]
  BY SafeFacts DEF Chat
<1>2. /\ chat'.turnActive = chat.turnActive /\ chat'.call = chat.call
      /\ chat'.kind = [chat.kind EXCEPT ![m] = "queued"] /\ chat'.stale = chat.stale
  BY <1>1, QueuesFields DEF UserQueues
<1>3. chat.call[m] = "none"
  BY <1>1 DEF UserQueues, KeptIn, Called
<1>4. Asking(chat) => Asking(chat')
  BY <1>1, <1>2, <1>3 DEF Asking, Pending
<1> QED
  BY <1>2, <1>4, StoreLive DEF UserQueues, Idle

\* So do follow-ups.
LEMMA UserFollowsUpLive ==
    ASSUME Safe, Lively, NEW m \in Msg, UserFollowsUp(m) PROVE Lively'
<1>1. chat \in Chat /\ KeptIn(chat, entered, removed, delivered, cutOff)
      /\ chat.kind \in [Msg -> {"new", "send", "followUp", "queued"}]
      /\ chat.call \in [Msg -> {"none", "starting", "asked", "ok", "err"}]
  BY SafeFacts DEF Chat
<1>2. /\ chat'.turnActive = chat.turnActive /\ chat'.call = [chat.call EXCEPT ![m] = "asked"]
      /\ chat'.kind = [chat.kind EXCEPT ![m] = "followUp"] /\ chat'.stale = chat.stale
  BY <1>1 DEF UserFollowsUp, Chat
<1>3. chat.call[m] = "none"
  BY <1>1 DEF UserFollowsUp, KeptIn, Called
<1>4. Asking(chat) => Asking(chat')
  BY <1>1, <1>2, <1>3 DEF Asking, Pending
<1> QED
  BY <1>2, <1>4, StoreLive DEF UserFollowsUp, Idle, history

\* Taking out an entry leaves the one on its way, so a queue of one stays as it is.
LEMMA UserRemovesLive == ASSUME Safe, Lively, NEW m \in Msg, UserRemoves(m) PROVE Lively'
<1>1. chat \in Chat /\ KeptIn(chat, entered, removed, delivered, cutOff)
      /\ chat.queue \in Seq(Msg)
  BY SafeFacts
<1> DEFINE w == Without(chat.queue, m)
<1>2. chat' = [chat EXCEPT !.queue = w, !.queueHeld = @ /\ w # <<>>]
  BY DEF UserRemoves
<1> HIDE DEF w
<1>3. /\ chat'.turnActive = chat.turnActive /\ chat'.call = chat.call
      /\ chat'.kind = chat.kind /\ chat'.stale = chat.stale /\ chat'.error = chat.error
      /\ chat'.draining = chat.draining /\ chat'.missed = chat.missed
      /\ chat'.queue = w /\ (chat'.queueHeld <=> chat.queueHeld /\ w # <<>>)
  BY <1>1, <1>2 DEF Chat
<1>4. Asking(chat) => Asking(chat')
  BY <1>3 DEF Asking, Pending
<1>5. chat.queue # <<>>
  BY <1>1, EmptySeq, LenProperties, InRange DEF UserRemoves
<1>6. chat.draining # None => Len(chat.queue) # 1
  <2> SUFFICES ASSUME chat.draining # None, Len(chat.queue) = 1 PROVE FALSE
    OBVIOUS
  <2>1. chat.queue[1] = chat.draining
    BY <1>1 DEF KeptIn, Called
  <2>2. \A n \in Range(chat.queue) : n = chat.queue[1]
    BY <1>1, LenProperties, InRange
  <2> QED
    BY <2>1, <2>2 DEF UserRemoves
<1>7. Idle(chat') => Idle(chat)
  BY <1>3, <1>5 DEF Idle
<1>8. Stirs(chat) => Stirs(chat')
  BY <1>3, <1>6 DEF Stirs, Pending
<1> QED
  BY <1>3, <1>4, <1>7, <1>8, StoreLive DEF UserRemoves

\* What is left is on its way.
LEMMA UserClearsLive == ASSUME Safe, Lively, UserClears PROVE Lively'
<1>1. chat \in Chat /\ chat.queue \in Seq(Msg) /\ chat.draining \in Msg \union {None}
  BY SafeFacts
<1> DEFINE left == IF chat.draining \in Range(chat.queue) THEN <<chat.draining>> ELSE <<>>
<1>2. chat' = [chat EXCEPT !.queueHeld = FALSE, !.queue = left]
  BY DEF UserClears
<1> HIDE DEF left
<1>3. /\ chat'.turnActive = chat.turnActive /\ chat'.call = chat.call
      /\ chat'.kind = chat.kind /\ chat'.stale = chat.stale
      /\ chat'.draining = chat.draining /\ chat'.queue = left
  BY <1>1, <1>2 DEF Chat
<1>4. Asking(chat) => Asking(chat')
  BY <1>3 DEF Asking, Pending
<1>5. Idle(chat') => Stirs(chat')
  <2>1. CASE chat.draining \in Range(chat.queue)
    <3>1. chat.draining # None
      BY <1>1, <2>1, NoneAssumption, InRange, ElementOfSeq, LenProperties
    <3>2. Len(left) = 1
      BY <2>1 DEF left
    <3> QED
      BY <1>3, <3>1, <3>2 DEF Stirs
  <2>2. CASE chat.draining \notin Range(chat.queue)
    BY <1>3, <2>2 DEF left, Idle
  <2> QED
    BY <2>1, <2>2
<1> QED
  BY <1>3, <1>4, <1>5, StoreLive DEF UserClears

\* A queue no longer held is drained.
LEMMA UserSendsHeldLive == ASSUME Safe, Lively, UserSendsHeld PROVE Lively'
<1> DEFINE c == [chat EXCEPT !.queueHeld = FALSE]
<1>1. chat \in Chat /\ KeptIn(chat, entered, removed, delivered, cutOff)
  BY SafeFacts
<1>2. /\ c \in Chat /\ SameCore(c, chat) /\ c.turnActive = chat.turnActive
  BY <1>1 DEF Chat, SameCore
<1>3. chat' = Drains(c)
  BY DEF UserSendsHeld
<1> HIDE DEF c
<1>4. KeptIn(c, entered, removed, delivered, cutOff)
  BY <1>1, <1>2, CoreKept
<1>5. /\ chat'.turnActive => Asking(chat') \/ (c.turnActive /\ chat' = c)
      /\ Idle(chat') => Stirs(chat')
  BY <1>2, <1>3, <1>4, DrainsLive
<1>6. Asking(chat) => Asking(c)
  BY <1>2 DEF SameCore, Asking, Pending
<1> QED
  BY <1>2, <1>5, <1>6, StoreLive DEF UserSendsHeld, history

\* A step that changes nothing the liveliness of an entry depends on.
SameStir(b, c) ==
    /\ b.turnActive = c.turnActive /\ b.queue = c.queue /\ b.queueHeld = c.queueHeld
    /\ b.error = c.error /\ b.draining = c.draining /\ b.missed = c.missed
    /\ b.kind = c.kind /\ b.call = c.call

\* Entries that agree on what stirs a queue.
LEMMA StirsOn ==
    ASSUME NEW b, NEW c, SameStir(b, c)
    PROVE  /\ Idle(b) <=> Idle(c)
           /\ Stirs(c) => Stirs(b)
           /\ b.stale \subseteq c.stale /\ Asking(c) => Asking(b)
BY DEF SameStir, Idle, Stirs, Asking, Pending

\* An interrupt neither ends a turn nor sends anything.
LEMMA UserInterruptsLive == ASSUME Safe, Lively, UserInterrupts PROVE Lively'
<1>1. chat \in Chat
  BY SafeFacts
<1>2. SameStir(chat', chat) /\ chat'.stale = chat.stale
  BY <1>1 DEF UserInterrupts, Chat, SameStir
<1> QED
  BY <1>2, StirsOn, StoreLive DEF UserInterrupts, history, budget, SameStir

\* A re-fold of an idle chat makes calls stale, but an idle chat needs none.
LEMMA FlagFlipsLive == ASSUME Safe, Lively, FlagFlips PROVE Lively'
<1>1. chat \in Chat
  BY SafeFacts
<1>2. CASE chat.turnActive
  <2>1. SameStir(chat', chat) /\ chat'.stale = chat.stale
    BY <1>1, <1>2 DEF FlagFlips, Chat, SameStir
  <2> QED
    BY <2>1, StirsOn, StoreLive DEF FlagFlips, history, SameStir
<1>3. CASE ~chat.turnActive
  <2>1. SameStir(chat', chat) /\ chat'.turnActive = chat.turnActive
    BY <1>1, <1>3, RefoldsFields DEF FlagFlips, SameStir
  <2> QED
    BY <1>3, <2>1, StirsOn, StoreLive DEF FlagFlips, history
<1> QED
  BY <1>2, <1>3

\* Sends that fail roll the entry back, unless they all are stale.
LEMMA SendsFailLive ==
    ASSUME NEW c \in Chat, NEW ms \in SUBSET Msg
    PROVE  /\ ms \subseteq c.stale =>
                 /\ SendsFail(c, ms).turnActive = c.turnActive
                 /\ Asking(c) => Asking(SendsFail(c, ms))
           /\ ~(ms \subseteq c.stale) =>
                 ~SendsFail(c, ms).turnActive /\ Stirs(SendsFail(c, ms))
<1> DEFINE b == SendsFail(c, ms)
<1>1. /\ b.kind = c.kind /\ b.stale = c.stale \ ms
      /\ b.call = [m \in Msg |-> IF m \in ms THEN "none" ELSE c.call[m]]
      /\ ms \subseteq c.stale => b.turnActive = c.turnActive
      /\ ~(ms \subseteq c.stale) => b.turnActive = FALSE /\ b.error = "send"
  <2>1. IsOver(b, c, ms)
    BY SendsFailFields
  <2>2. /\ ms \subseteq c.stale => b.turnActive = c.turnActive
        /\ ~(ms \subseteq c.stale) => b.turnActive = FALSE /\ b.error = "send"
    BY SendsFailFields
  <2> HIDE DEF b
  <2> QED
    BY <2>1, <2>2 DEF IsOver
<1> HIDE DEF b
<1>2. CASE ms \subseteq c.stale
  <2>1. ASSUME NEW n \in Msg \ c.stale, Pending(c, n)
        PROVE  n \in Msg \ b.stale /\ Pending(b, n)
    BY <1>1, <1>2, <2>1 DEF Pending
  <2>2. Asking(c) => Asking(b)
    BY <2>1 DEF Asking
  <2> QED
    BY <1>1, <1>2, <2>2 DEF b
<1>3. CASE ~(ms \subseteq c.stale)
  BY <1>1, <1>3 DEF Stirs, b
<1> QED
  BY <1>2, <1>3

\* A send by hand is answered: the turn it began, or the failure shown, stands
\* in for the call.
LEMMA SendAnsweredLive == ASSUME Safe, Lively, NEW m \in Msg, SendAnswered(m) PROVE Lively'
<1>1. chat \in Chat /\ KeptIn(chat, entered, removed, delivered, cutOff)
  BY SafeFacts
<1>2. CASE chat.call[m] = "ok"
  <2> DEFINE b == Settles(chat, {m})
  <2>1. /\ b.turnActive = chat.turnActive /\ b.error = chat.error /\ b.queue = chat.queue
        /\ b.queueHeld = chat.queueHeld /\ b.draining = chat.draining
        /\ b.missed = chat.missed /\ b.kind = chat.kind /\ b.stale = chat.stale \ {m}
        /\ b.call = [n \in Msg |-> IF n \in {m} THEN "none" ELSE chat.call[n]]
    BY <1>1, SettlesFields
  <2>2. chat' = b /\ cutOff' = cutOff
    BY <1>2 DEF SendAnswered
  <2> HIDE DEF b
  <2>3. \A n \in Msg : Pending(chat, n) => Pending(b, n)
    BY <1>2, <2>1 DEF Pending
  <2>4. Asking(chat) => Asking(b)
    BY <2>1, <2>3 DEF Asking
  <2>5. (Idle(b) => Idle(chat)) /\ (Stirs(chat) => Stirs(b))
    BY <2>1, <2>3 DEF Idle, Stirs
  <2> QED
    BY <2>1, <2>2, <2>4, <2>5, StoreLive DEF SendAnswered
<1>3. CASE chat.call[m] = "err"
  <2>1. /\ chat' = SendsFail(chat, {m}) /\ {m} \in SUBSET Msg
        /\ cutOff' = cutOff \union (chat.stale \intersect {m})
    BY <1>3 DEF SendAnswered
  <2>2. CASE m \in chat.stale
    <3>1. chat'.turnActive = chat.turnActive /\ (Asking(chat) => Asking(chat'))
      BY <1>1, <2>1, <2>2, SendsFailLive
    <3>2. cutOff' # {}
      BY <2>1, <2>2
    <3> QED
      BY <3>1, <3>2, StoreLive DEF SendAnswered
  <2>3. CASE m \notin chat.stale
    <3>1. ~chat'.turnActive /\ Stirs(chat')
      BY <1>1, <2>1, <2>3, SendsFailLive
    <3> QED
      BY <3>1, StoreLive DEF SendAnswered
  <2> QED
    BY <2>2, <2>3
<1> QED
  BY <1>2, <1>3 DEF SendAnswered

\* A drain that landed leaves the rest of the queue to a turn that runs or to a
\* drain of its own.
LEMMA DrainLandsLive ==
    ASSUME Safe, Lively, NEW m \in Msg, chat.draining = m, chat.call[m] = "ok",
           m \notin chat.stale, chat' = DrainLands(chat, m), cutOff' = cutOff,
           UNCHANGED <<provider, backend, givenBack>>
    PROVE  Lively'
<1>1. /\ chat \in Chat /\ History(entered, removed, delivered, cutOff)
      /\ KeptIn(chat, entered, removed, delivered, cutOff) /\ chat.queue \in Seq(Msg)
      /\ entered \in Seq(Msg)
  BY SafeFacts DEF History
<1> DEFINE over == Settles(chat, {m})
           free == Releases(over)
           w == Without(chat.queue, m)
           retired == [free EXCEPT !.queue = Without(@, m)]
<1>2. /\ over \in Chat
      /\ over.turnActive = chat.turnActive /\ over.error = chat.error
      /\ over.queue = chat.queue /\ over.queueHeld = chat.queueHeld
      /\ over.kind = chat.kind /\ over.stale = chat.stale \ {m}
      /\ over.call = [n \in Msg |-> IF n \in {m} THEN "none" ELSE chat.call[n]]
      /\ over.startup = chat.startup /\ over.startupStale = chat.startupStale
  BY <1>1, SettlesFields
<1> HIDE DEF over
<1>3. /\ free \in Chat
      /\ free.turnActive = chat.turnActive /\ free.error = chat.error
      /\ free.queue = chat.queue /\ free.queueHeld = chat.queueHeld /\ free.draining = None
      /\ free.kind = chat.kind /\ free.stale = over.stale /\ free.call = over.call
      /\ free.startup = chat.startup /\ free.startupStale = chat.startupStale
  BY <1>2, ReleasesFields
<1>4. /\ retired = [free EXCEPT !.queue = w]
      /\ chat' = IF chat.missed THEN Drains(retired) ELSE retired
  <2>1. chat.missed \in BOOLEAN
    BY <1>1 DEF Chat
  <2> QED
    BY <1>3, <2>1 DEF DrainLands, over
<1>5. Distinct(chat.queue)
  BY <1>1, OrderedIsDistinct DEF KeptIn, Lined
<1>6. w \in Seq(Msg) /\ (m \in Range(chat.queue) => Len(w) = Len(chat.queue) - 1)
  BY <1>1, <1>5, WithoutFacts
<1> HIDE DEF free, w
<1>7. /\ [free EXCEPT !.queue = w] \in Chat
      /\ [free EXCEPT !.queue = w].turnActive = free.turnActive
      /\ [free EXCEPT !.queue = w].error = free.error
      /\ [free EXCEPT !.queue = w].queue = w
      /\ [free EXCEPT !.queue = w].queueHeld = free.queueHeld
      /\ [free EXCEPT !.queue = w].draining = free.draining
      /\ [free EXCEPT !.queue = w].kind = free.kind
      /\ [free EXCEPT !.queue = w].stale = free.stale
      /\ [free EXCEPT !.queue = w].call = free.call
      /\ [free EXCEPT !.queue = w].startup = free.startup
      /\ [free EXCEPT !.queue = w].startupStale = free.startupStale
  BY <1>3, <1>6 DEF Chat
<1>8. retired \in Chat /\ retired.turnActive = chat.turnActive /\ retired.error = chat.error
      /\ retired.queue = w /\ retired.queueHeld = chat.queueHeld /\ retired.draining = None
      /\ retired.kind = chat.kind /\ retired.stale = chat.stale \ {m}
      /\ retired.call = [n \in Msg |-> IF n \in {m} THEN "none" ELSE chat.call[n]]
      /\ retired.startup = chat.startup /\ retired.startupStale = chat.startupStale
  BY <1>2, <1>3, <1>4, <1>7
<1> HIDE DEF retired
<1>9. \A n \in Msg : Pending(chat, n) => Pending(retired, n)
  BY <1>8 DEF Pending
<1>10. Asking(chat) => Asking(retired)
  BY <1>8, <1>9 DEF Asking
<1>11. m \in Range(chat.queue) /\ m # None
  BY <1>1, DrainingIsHead, NoneAssumption
<1>12. CASE ~chat.missed
  <2>1. Idle(retired) => Idle(chat) /\ Len(chat.queue) # 1
    <3> SUFFICES ASSUME Idle(retired) PROVE Idle(chat) /\ Len(chat.queue) # 1
      OBVIOUS
    <3>1. w # <<>> /\ ~chat.turnActive /\ ~chat.queueHeld
      BY <1>8 DEF Idle
    <3>2. Len(w) # 0
      BY <1>6, <3>1, EmptySeq
    <3>3. Len(chat.queue) # 1 /\ Len(chat.queue) # 0
      BY <1>1, <1>6, <1>11, <3>2, LenProperties
    <3> QED
      BY <3>1, <3>3, EmptySeq DEF Idle
  <2>2. Idle(retired) /\ Stirs(chat) => Stirs(retired)
    BY <1>8, <1>9, <1>12, <2>1 DEF Stirs
  <2> QED
    BY <1>4, <1>8, <1>10, <1>12, <2>1, <2>2, StoreLive
<1>13. CASE chat.missed
  <2>1. KeptIn(retired, entered, removed, delivered, cutOff)
    <3>1. retired.stale = chat.stale
      BY <1>8
    <3>2. retired.call = [n \in Msg |-> IF n = m THEN "none" ELSE chat.call[n]]
      BY <1>8
    <3> QED
      BY <1>1, <1>8, <3>1, <3>2, RetiredKept DEF w
  <2>2. /\ chat'.turnActive => Asking(chat') \/ (retired.turnActive /\ chat' = retired)
        /\ Idle(chat') => Stirs(chat')
    BY <1>4, <1>8, <1>13, <2>1, DrainsLive
  <2> QED
    BY <1>8, <1>10, <2>2, StoreLive
<1> QED
  BY <1>12, <1>13

\* A drain is answered likewise, unless it has gone stale.
LEMMA DrainAnsweredLive == ASSUME Safe, Lively, NEW m \in Msg, DrainAnswered(m) PROVE Lively'
<1>1. chat \in Chat /\ chat.draining = m /\ {m} \in SUBSET Msg
      /\ UNCHANGED <<provider, backend, givenBack>>
      /\ cutOff' = cutOff \union (chat.stale \intersect {m})
  BY SafeFacts DEF DrainAnswered
<1>2. CASE chat.call[m] = "ok" /\ m \notin chat.stale
  <2>1. chat' = DrainLands(chat, m) /\ cutOff' = cutOff
    BY <1>1, <1>2 DEF DrainAnswered
  <2> QED
    BY <1>1, <1>2, <2>1, DrainLandsLive
<1>3. CASE chat.call[m] = "ok" /\ m \in chat.stale
  <2> DEFINE over == Settles(chat, {m})
             b == Releases(over)
  <2>1. /\ over \in Chat /\ over.turnActive = chat.turnActive
        /\ over.kind = chat.kind /\ over.stale = chat.stale \ {m}
        /\ over.call = [n \in Msg |-> IF n \in {m} THEN "none" ELSE chat.call[n]]
    BY <1>1, SettlesFields
  <2>2. chat' = b
    BY <1>3 DEF DrainAnswered, DrainLands
  <2> HIDE DEF over
  <2>3. /\ b.turnActive = chat.turnActive /\ b.kind = over.kind /\ b.stale = over.stale
        /\ b.call = over.call
    BY <2>1, ReleasesFields
  <2> HIDE DEF b
  <2>4. \A n \in Msg : Pending(chat, n) => Pending(b, n)
    BY <1>3, <2>1, <2>3 DEF Pending
  <2>5. Asking(chat) => Asking(b)
    BY <2>1, <2>3, <2>4 DEF Asking
  <2>6. cutOff' # {}
    BY <1>1, <1>3
  <2> QED
    BY <1>1, <2>2, <2>3, <2>5, <2>6, StoreLive
<1>4. CASE chat.call[m] = "err"
  <2>1. chat' = SendsFail(chat, {m})
    BY <1>4 DEF DrainAnswered
  <2>2. CASE m \in chat.stale
    <3>1. chat'.turnActive = chat.turnActive /\ (Asking(chat) => Asking(chat'))
      BY <1>1, <2>1, <2>2, SendsFailLive
    <3>2. cutOff' # {}
      BY <1>1, <2>2
    <3> QED
      BY <1>1, <3>1, <3>2, StoreLive
  <2>3. CASE m \notin chat.stale
    <3>1. ~chat'.turnActive /\ Stirs(chat')
      BY <1>1, <2>1, <2>3, SendsFailLive
    <3> QED
      BY <1>1, <3>1, StoreLive
  <2> QED
    BY <2>2, <2>3
<1> QED
  BY <1>2, <1>3, <1>4 DEF DrainAnswered

\* Follow-ups are offered on Pi alone.
LEMMA FollowUpAnsweredLive ==
    ASSUME Safe, Lively, NEW m \in Msg, FollowUpAnswered(m) PROVE Lively'
<1>1. /\ chat \in Chat /\ KeptIn(chat, entered, removed, delivered, cutOff)
  BY SafeFacts
<1>2. chat.kind[m] = "followUp" /\ provider = "pi"
  BY <1>1 DEF FollowUpAnswered, KeptIn, Called
<1> DEFINE over == Settles(chat, {m})
           b == [over EXCEPT !.error = IF m \in chat.stale THEN @ ELSE "followUp"]
<1>3. /\ over \in Chat /\ over.turnActive = chat.turnActive
      /\ over.kind = chat.kind /\ over.stale = chat.stale \ {m}
      /\ over.call = [n \in Msg |-> IF n \in {m} THEN "none" ELSE chat.call[n]]
  BY <1>1, SettlesFields
<1>4. \A n \in Msg : Pending(chat, n) => n # m /\ over.kind[n] # "followUp"
                        /\ over.call[n] \in {"starting", "asked", "err"}
  BY <1>2, <1>3 DEF Pending
<1>5. \/ chat' = over
      \/ chat' = Queues(b, m)
  BY DEF FollowUpAnswered
<1> HIDE DEF over
<1>6. /\ b \in Chat /\ b.turnActive = over.turnActive /\ b.kind = over.kind
      /\ b.stale = over.stale /\ b.call = over.call
      /\ b.kind \in [Msg -> {"new", "send", "followUp", "queued"}]
  BY <1>3 DEF Chat
<1> HIDE DEF b
<1>7. /\ chat'.turnActive = chat.turnActive /\ chat'.stale = over.stale
      /\ \A n \in Msg : Pending(chat, n) => Pending(chat', n)
  <2>1. CASE chat' = over
    BY <1>3, <1>4, <2>1 DEF Pending
  <2>2. CASE chat' = Queues(b, m)
    <3>1. /\ chat'.turnActive = b.turnActive /\ chat'.stale = b.stale
          /\ chat'.call = b.call /\ chat'.kind = [b.kind EXCEPT ![m] = "queued"]
      BY <1>6, <2>2, QueuesFields
    <3> QED
      BY <1>3, <1>4, <1>6, <3>1 DEF Pending
  <2> QED
    BY <1>5, <2>1, <2>2
<1>8. Asking(chat) => Asking(chat')
  BY <1>3, <1>7 DEF Asking
<1> QED
  BY <1>2, <1>7, <1>8, StoreLive DEF FollowUpAnswered

\* A session that starts sends on what waits for it, and one that does not fails
\* it, or has gone stale and gives back what it has.
LEMMA SessionStartedLive == ASSUME Safe, Lively, SessionStarted PROVE Lively'
<1>1. /\ chat \in Chat /\ KeptIn(chat, entered, removed, delivered, cutOff)
      /\ chat.call \in [Msg -> {"none", "starting", "asked", "ok", "err"}]
  BY SafeFacts
<1> DEFINE waiting == {m \in Msg : chat.call[m] = "starting"}
           idle == [chat EXCEPT !.startup = "none", !.startupStale = FALSE]
           on == [idle EXCEPT !.session = TRUE, !.error = "none",
                    !.call = [m \in Msg |-> IF m \in waiting THEN "asked" ELSE @[m]]]
<1>2. PICK p \in Msg : chat.call[p] = "starting" /\ chat.kind[p] # "followUp"
  BY <1>1 DEF SessionStarted, KeptIn, Called, Awaited
<1>3. /\ idle \in Chat /\ SameStir(idle, chat) /\ idle.stale = chat.stale
  BY <1>1 DEF Chat, SameStir
<1>4. UNCHANGED provider
  BY DEF SessionStarted
<1>5. CASE chat' = on /\ UNCHANGED <<backend, cutOff, givenBack>>
  <2> DEFINE f == [m \in Msg |-> IF chat.call[m] = "starting" THEN "asked" ELSE chat.call[m]]
  <2>1. on = [idle EXCEPT !.session = TRUE, !.error = "none", !.call = f]
    BY <1>3 DEF SameStir
  <2>2. /\ f \in [Msg -> {"none", "starting", "asked", "ok", "err"}]
        /\ \A m \in Msg : f[m] = IF chat.call[m] = "starting" THEN "asked" ELSE chat.call[m]
    BY <1>1
  <2> HIDE DEF idle, f
  <2>3. /\ on.turnActive = idle.turnActive /\ on.kind = idle.kind /\ on.stale = idle.stale
        /\ on.call = f
    BY <1>3, <2>1, <2>2 DEF Chat
  <2> HIDE DEF on
  <2>4. \A n \in Msg : Pending(chat, n) => Pending(on, n)
    BY <1>3, <2>2, <2>3 DEF Pending, SameStir
  <2>5. Asking(chat) => Asking(on)
    BY <1>3, <2>3, <2>4 DEF Asking
  <2>6. Stirs(on)
    BY <1>2, <2>4 DEF Stirs, Pending
  <2>7. on.turnActive = chat.turnActive
    BY <1>3, <2>3 DEF SameStir
  <2> QED
    BY <1>4, <1>5, <2>5, <2>6, <2>7, StoreLive
<1>6. CASE /\ chat' = SendsFail(idle, waiting)
           /\ cutOff' = cutOff \union (waiting \intersect chat.stale)
           /\ turn' \in {"none", turn} /\ UNCHANGED <<closing, chan, delivered>>
           /\ givenBack' = (givenBack \/ turn' # turn)
  <2>1. waiting \in SUBSET Msg /\ p \in waiting
    BY <1>2
  <2> HIDE DEF idle, waiting
  <2>2. /\ waiting \subseteq chat.stale =>
              chat'.turnActive = chat.turnActive /\ (Asking(chat) => Asking(chat'))
        /\ ~(waiting \subseteq chat.stale) => ~chat'.turnActive /\ Stirs(chat')
    <3>1. Asking(chat) => Asking(idle)
      BY <1>3, StirsOn
    <3> QED
      BY <1>3, <1>6, <2>1, <3>1, SendsFailLive DEF SameStir
  <2>3. waiting \subseteq chat.stale => cutOff' # {}
    BY <1>6, <2>1
  <2>4. CASE turn' = turn
    <3>1. givenBack' <=> givenBack
      BY <1>6, <2>4
    <3>2. EndComes' <=> EndComes
      BY <1>6, <2>4 DEF EndComes
    <3>3. Announced'
      BY <1>6, <2>4, <3>1 DEF Lively, Announced
    <3>4. Busy'
      <4>1. Asking(chat)' <=> Asking(chat')
        BY DEF Asking, Pending
      <4> QED
        BY <2>2, <3>1, <3>2, <4>1 DEF Lively, Busy
    <3>5. Moving'
      <4>1. Stirs(chat)' <=> Stirs(chat')
        BY DEF Stirs, Pending
      <4> QED
        BY <2>2, <2>3, <4>1 DEF Moving
    <3> QED
      BY <3>3, <3>4, <3>5 DEF Lively
  <2>5. CASE turn' # turn
    <3>1. givenBack'
      BY <1>6, <2>5
    <3>2. Busy' /\ Announced'
      BY <3>1 DEF Busy, Announced
    <3>3. Moving'
      <4>1. Stirs(chat)' <=> Stirs(chat')
        BY DEF Stirs, Pending
      <4> QED
        BY <2>2, <2>3, <4>1 DEF Moving
    <3> QED
      BY <3>2, <3>3 DEF Lively
  <2> QED
    BY <2>4, <2>5
<1>7. \/ chat' = on /\ UNCHANGED <<backend, cutOff, givenBack>>
      \/ /\ chat' = SendsFail(idle, waiting)
         /\ cutOff' = cutOff \union (waiting \intersect chat.stale)
         /\ turn' \in {"none", turn} /\ UNCHANGED <<closing, chan, delivered>>
         /\ givenBack' = (givenBack \/ turn' # turn)
  BY DEF SessionStarted
<1> QED
  BY <1>5, <1>6, <1>7

\* The history of a re-fold stirs nothing.
LEMMA RefoldLoadsLive == ASSUME Safe, Lively, RefoldLoads PROVE Lively'
<1>1. chat \in Chat
  BY SafeFacts
<1>2. SameStir(chat', chat) /\ chat'.stale = chat.stale
  BY <1>1 DEF RefoldLoads, Chat, SameStir
<1> QED
  BY <1>2, StirsOn, StoreLive DEF RefoldLoads, history, SameStir

\* An interrupt that failed stirs nothing.
LEMMA StopFailedLive == ASSUME Safe, Lively, StopFailed PROVE Lively'
<1>1. chat \in Chat
  BY SafeFacts
<1>2. SameStir(chat', chat) /\ chat'.stale = chat.stale
  BY <1>1 DEF StopFailed, Chat, SameStir
<1> QED
  BY <1>2, StirsOn, StoreLive DEF StopFailed, history, SameStir

\* Taking the first event off the channel announces nothing new.
LEMMA TailAnnounced ==
    ASSUME Safe, Lively, chan # <<>>, chan' = Tail(chan),
           UNCHANGED <<turn, closing, givenBack>>
    PROVE  Announced'
<1>1. /\ Len(Tail(chan)) = Len(chan) - 1 /\ Len(chan) \in Nat \ {0}
      /\ \A i \in 1..Len(chan)-1 : Tail(chan)[i] = chan[i+1]
  BY TailOfChan
<1>2. Tail(chan) # <<>> => Tail(chan)[Len(Tail(chan))] = chan[Len(chan)]
  <2> SUFFICES ASSUME Tail(chan) # <<>>
               PROVE  Tail(chan)[Len(Tail(chan))] = chan[Len(chan)]
    OBVIOUS
  <2>1. Len(Tail(chan)) # 0
    BY TailOfChan, EmptySeq
  <2> QED
    BY <1>1, <2>1
<1> QED
  BY <1>2 DEF Lively, Announced

\* turnStarted makes a chat busy whose turn has not ended, or whose end follows.
LEMMA StartArrivesLive == ASSUME Safe, Lively, StartArrives PROVE Lively'
<1>1. /\ chan # <<>> /\ chan' = Tail(chan) /\ chan[1] = "started"
      /\ UNCHANGED <<provider, turn, closing, givenBack, cutOff>>
      /\ DOMAIN chan = 1..Len(chan) /\ DOMAIN Tail(chan) = 1..Len(chan)-1
      /\ Len(chan) \in Nat \ {0}
      /\ \A i \in 1..Len(chan)-1 : Tail(chan)[i] = chan[i+1]
  BY TailOfChan DEF StartArrives, history
<1>2. Announced'
  BY <1>1, TailAnnounced
<1>3. ~givenBack => EndComes'
  <2> SUFFICES ASSUME ~givenBack PROVE EndComes'
    OBVIOUS
  <2>1. CASE chan[Len(chan)] = "started"
    BY <1>1, <2>1 DEF Lively, Announced, EndComes
  <2>2. CASE chan[Len(chan)] # "started"
    <3>1. chan[Len(chan)] \in Ends
      BY <1>1, <2>2, ElementOfSeq DEF Safe, QueueTypeOK
    <3>2. Len(chan) - 1 \in 1..Len(chan)-1 /\ Tail(chan)[Len(chan)-1] = chan[Len(chan)]
      BY <1>1, <2>2
    <3> QED
      BY <1>1, <3>1, <3>2 DEF EndComes
  <2> QED
    BY <2>1, <2>2
<1>4. Busy'
  BY <1>1, <1>3 DEF Busy
<1>5. chat'.turnActive
  BY SafeFacts DEF StartArrives, Chat
<1>6. Moving'
  BY <1>5 DEF Moving, Idle
<1> QED
  BY <1>2, <1>4, <1>6 DEF Lively

\* The end of a turn drains the queue or leaves it held.
LEMMA EndedLive ==
    ASSUME NEW c \in Chat, NEW e, NEW r, NEW d, NEW x, History(e, r, d, x),
           KeptIn(c, e, r, d, x), NEW end
    PROVE  /\ Ended(c, end).turnActive => Asking(Ended(c, end))
           /\ Idle(Ended(c, end)) => Stirs(Ended(c, end))
<1> DEFINE over == [c EXCEPT !.turnActive = FALSE, !.interrupted = FALSE,
                               !.error = IF end = "failed" THEN "turn" ELSE @]
           folded == IF c.refold THEN Refolds(over) ELSE over
<1>1. over \in Chat /\ SameCore(over, c) /\ ~over.turnActive
  BY DEF Chat, SameCore
<1>2. KeptIn(over, e, r, d, x)
  BY <1>1, CoreKept
<1>3. Ended(c, end) = IF c.interrupted \/ end = "interrupted" THEN Holds(folded)
                      ELSE Drains(folded)
  BY DEF Ended
<1> HIDE DEF over
<1>4. folded \in Chat /\ KeptIn(folded, e, r, d, x) /\ ~folded.turnActive
  BY <1>1, <1>2, RefoldsKept, RefoldsFields
<1> HIDE DEF folded
<1>5. ~Holds(folded).turnActive /\ (Idle(Holds(folded)) => Stirs(Holds(folded)))
  <2>1. /\ Holds(folded).turnActive = folded.turnActive
        /\ Holds(folded).queue = folded.queue
        /\ Holds(folded).draining = folded.draining
        /\ Holds(folded).queueHeld =
              (folded.queueHeld \/ \E m \in Range(folded.queue) : m # folded.draining)
    BY <1>4, HoldsFields
  <2> SUFFICES ASSUME Idle(Holds(folded)) PROVE Stirs(Holds(folded))
    BY <1>4, <2>1
  <2>2. folded.queue # <<>> /\ \A m \in Range(folded.queue) : m = folded.draining
    BY <2>1 DEF Idle
  <2>3. folded.queue \in Seq(Msg) /\ Distinct(folded.queue)
    BY <1>4, OrderedIsDistinct DEF Chat, KeptIn, Lined, History
  <2>4. folded.queue[1] \in Msg /\ folded.draining # None
    BY <1>4, <2>2, HeadOfQueue, NoneAssumption
  <2>5. Len(folded.queue) = 1
    <3>1. DOMAIN folded.queue = 1..Len(folded.queue) /\ Len(folded.queue) \in Nat
          /\ Len(folded.queue) # 0
      BY <2>2, <2>3, LenProperties, EmptySeq
    <3>2. 1 \in DOMAIN folded.queue
      BY <3>1
    <3>3. \A i \in DOMAIN folded.queue : folded.queue[i] = folded.draining
      BY <2>2, InRange
    <3>4. \A i \in DOMAIN folded.queue : i = 1
      BY <2>3, <3>2, <3>3 DEF Distinct
    <3>5. Len(folded.queue) \in DOMAIN folded.queue
      BY <3>1
    <3> QED
      BY <3>4, <3>5
  <2> QED
    BY <2>1, <2>4, <2>5 DEF Stirs
<1>6. /\ Drains(folded).turnActive => Asking(Drains(folded))
      /\ Idle(Drains(folded)) => Stirs(Drains(folded))
  BY <1>4, DrainsLive
<1> QED
  BY <1>3, <1>5, <1>6

\* After the end of a turn the queue is empty, held or drained.
LEMMA EndArrivesLive == ASSUME Safe, Lively, EndArrives PROVE Lively'
<1>1. chat \in Chat /\ History(entered, removed, delivered, cutOff)
      /\ KeptIn(chat, entered, removed, delivered, cutOff)
  BY SafeFacts
<1>2. /\ chan # <<>> /\ chan' = Tail(chan) /\ chat' = Ended(chat, Head(chan))
      /\ UNCHANGED <<turn, closing, givenBack>>
  BY DEF EndArrives, history
<1>3. Announced'
  BY <1>2, TailAnnounced
<1>4. (chat'.turnActive => Asking(chat')) /\ (Idle(chat') => Stirs(chat'))
  BY <1>1, <1>2, EndedLive
<1>5. Busy' /\ Moving'
  <2>1. /\ Asking(chat)' <=> Asking(chat')
        /\ Stirs(chat)' <=> Stirs(chat')
        /\ Idle(chat)' <=> Idle(chat')
    BY DEF Asking, Stirs, Pending, Idle
  <2> QED
    BY <1>4, <2>1 DEF Busy, Moving
<1> QED
  BY <1>3, <1>5 DEF Lively

\* The turn of a send that was taken has its end to come.
LEMMA TakesSendLive == ASSUME Safe, Lively, NEW m \in Msg, TakesSend(m) PROVE Lively'
<1>1. turn' = "accepted"
  BY DEF TakesSend
<1> QED
  BY <1>1, EndToCome DEF EndComes, Announced

\* A follow-up is taken into a turn.
LEMMA TakesFollowUpLive ==
    ASSUME Safe, Lively, NEW m \in Msg, TakesFollowUp(m) PROVE Lively'
<1>1. turn' = turn /\ turn # "none"
  BY DEF TakesFollowUp
<1> QED
  BY <1>1, EndToCome DEF EndComes, Announced

\* A refusal is an answer to come.
LEMMA RefusesLive == ASSUME Safe, Lively, NEW m \in Msg, Refuses(m) PROVE Lively'
<1>1. chat \in Chat /\ chat.call \in [Msg -> {"none", "starting", "asked", "ok", "err"}]
  BY SafeFacts
<1>2. /\ chat' = [chat EXCEPT !.call[m] = "err"] /\ chat.call[m] = "asked"
      /\ UNCHANGED <<provider, backend, givenBack, cutOff>>
  BY DEF Refuses, Answers, backend, history
<1>3. /\ chat'.turnActive = chat.turnActive /\ chat'.error = chat.error
      /\ chat'.queue = chat.queue /\ chat'.queueHeld = chat.queueHeld
      /\ chat'.draining = chat.draining /\ chat'.missed = chat.missed
      /\ chat'.kind = chat.kind /\ chat'.stale = chat.stale
      /\ chat'.call = [chat.call EXCEPT ![m] = "err"]
  BY <1>1, <1>2 DEF Chat
<1>4. \A n \in Msg : Pending(chat, n) => Pending(chat', n)
  BY <1>1, <1>3 DEF Pending
<1>5. Asking(chat) => Asking(chat')
  BY <1>3, <1>4 DEF Asking
<1>6. (Idle(chat') => Idle(chat)) /\ (Stirs(chat) => Stirs(chat'))
  BY <1>3, <1>4 DEF Idle, Stirs
<1> QED
  BY <1>2, <1>3, <1>5, <1>6, StoreLive

\* The channel with an event added.
LEMMA AppendedChan ==
    ASSUME Safe, NEW ev \in Ends \union {"started"}, chan' = Append(chan, ev)
    PROVE  /\ chan'[Len(chan')] = ev
           /\ \A i \in DOMAIN chan : i \in DOMAIN chan' /\ chan'[i] = chan[i]
           /\ Len(chan') \in DOMAIN chan'
<1>1. chan \in Seq(Ends \union {"started"})
  BY DEF Safe, QueueTypeOK
<1>2. /\ DOMAIN Append(chan, ev) = 1..Len(chan)+1 /\ DOMAIN chan = 1..Len(chan)
      /\ \A i \in DOMAIN chan : Append(chan, ev)[i] = chan[i]
      /\ Append(chan, ev)[Len(chan)+1] = ev
      /\ Len(Append(chan, ev)) = Len(chan) + 1
  BY <1>1, AppendFacts
<1> QED
  BY <1>1, <1>2, LenProperties

\* A start announces only a turn that the session has.
LEMMA SessionStartsLive == ASSUME Safe, Lively, SessionStarts PROVE Lively'
<1>1. chat \in Chat
  BY SafeFacts
<1>2. PICK answer \in {"ok", "err"} :
         /\ chat' = [chat EXCEPT !.startup = answer]
         /\ chan' = IF answer = "ok" /\ turn # "none" THEN Append(chan, "started") ELSE chan
  BY DEF SessionStarts
<1>3. SameStir(chat', chat) /\ chat'.stale = chat.stale
  BY <1>1, <1>2 DEF Chat, SameStir
<1>4. UNCHANGED <<provider, turn, closing, givenBack, cutOff, delivered>>
  BY DEF SessionStarts, history
<1>5. CASE turn # "none"
  BY <1>4, <1>5, EndToCome DEF EndComes, Announced
<1>6. CASE turn = "none"
  <2>1. UNCHANGED backend
    BY <1>2, <1>4, <1>6 DEF backend
  <2> QED
    BY <1>3, <1>4, <2>1, StirsOn, StoreLive DEF SameStir
<1> QED
  BY <1>5, <1>6

\* A turn that is cleared has its end to report.
LEMMA BackendLive ==
    ASSUME Safe, Lively, \/ TurnBegins \/ EndReported \/ TakesStop
                         \/ \E end \in {"done", "failed"} : TurnEnds(end)
    PROVE  Lively'
<1>1. CASE TurnBegins
  <2>1. turn' = "started"
    BY <1>1 DEF TurnBegins
  <2> QED
    BY <2>1, EndToCome DEF EndComes, Announced
<1>2. CASE EndReported
  <2>1. closing \in Ends /\ chan' = Append(chan, closing)
    BY <1>2 DEF EndReported, Safe, QueueTypeOK
  <2>2. chan'[Len(chan')] = closing /\ Len(chan') \in DOMAIN chan'
    BY <2>1, AppendedChan
  <2>3. EndComes'
    BY <2>1, <2>2 DEF EndComes
  <2>4. Announced'
    BY <2>1, <2>2 DEF Announced, Ends
  <2> QED
    BY <2>3, <2>4, EndToCome
<1>3. ASSUME NEW end \in Ends, Clears(end) PROVE Lively'
  <2>1. closing' # None
    BY <1>3, NoneAssumption DEF Clears
  <2> QED
    BY <2>1, EndToCome DEF EndComes, Announced
<1>4. CASE TakesStop
  <2>1. CASE \E end \in {"interrupted", "failed"} : Clears(end)
    BY <2>1, <1>3 DEF Ends
  <2>2. CASE UNCHANGED <<turn, closing>>
    <3>1. UNCHANGED <<provider, chat, backend, givenBack, cutOff>>
      BY <1>4, <2>2 DEF TakesStop, backend, history
    <3> QED
      BY <3>1, StoreLive
  <2> QED
    BY <1>4, <2>1, <2>2 DEF TakesStop
<1>5. ASSUME NEW end \in {"done", "failed"}, TurnEnds(end) PROVE Lively'
  BY <1>3, <1>5 DEF TurnEnds, Ends
<1> QED
  BY <1>1, <1>2, <1>4, <1>5

\* A chat starts idle with nothing to send.
LEMMA LivelyInit == QueueInit => Lively
BY DEF QueueInit, Lively, Busy, Announced, Moving, Idle

\* No step strands a chat.
LEMMA LivelyNext == Safe /\ Lively /\ [QueueNext]_queueVars => Lively'
<1> SUFFICES ASSUME Safe, Lively, [QueueNext]_queueVars PROVE Lively'
  OBVIOUS
<1>1. CASE UNCHANGED queueVars
  <2>1. UNCHANGED <<provider, chat, backend, givenBack, cutOff>>
    BY <1>1 DEF queueVars, history
  <2> QED
    BY <2>1, StoreLive
<1>2. CASE UserClears \/ UserSendsHeld \/ UserInterrupts \/ FlagFlips
  BY <1>2, UserClearsLive, UserSendsHeldLive, UserInterruptsLive, FlagFlipsLive
<1>3. ASSUME NEW m \in Msg,
             UserSends(m) \/ UserQueues(m) \/ UserFollowsUp(m) \/ UserRemoves(m)
      PROVE  Lively'
  BY <1>3, UserSendsLive, UserQueuesLive, UserFollowsUpLive, UserRemovesLive
<1>4. ASSUME NEW m \in Msg,
             \/ SendAnswered(m) \/ DrainAnswered(m) \/ FollowUpAnswered(m)
             \/ TakesSend(m) \/ TakesFollowUp(m) \/ Refuses(m)
      PROVE  Lively'
  BY <1>4, SendAnsweredLive, DrainAnsweredLive, FollowUpAnsweredLive,
     TakesSendLive, TakesFollowUpLive, RefusesLive
<1>5. CASE SessionStarted \/ RefoldLoads \/ StopFailed \/ StartArrives \/ EndArrives
           \/ SessionStarts
  BY <1>5, SessionStartedLive, RefoldLoadsLive, StopFailedLive, StartArrivesLive,
     EndArrivesLive, SessionStartsLive
<1>6. CASE \/ TurnBegins \/ EndReported \/ TakesStop
           \/ \E end \in {"done", "failed"} : TurnEnds(end)
  BY <1>6, BackendLive
<1> QED
  BY <1>1, <1>2, <1>3, <1>4, <1>5, <1>6 DEF QueueNext

\* Only a start gone stale gives a session back, and a send is stale with it.
LEMMA GivesUpNext == Safe /\ GivesUp /\ [QueueNext]_queueVars => GivesUp'
<1> SUFFICES ASSUME Safe, GivesUp, [QueueNext]_queueVars PROVE GivesUp'
  OBVIOUS
<1>1. CASE SessionStarted
  <2> DEFINE waiting == {m \in Msg : chat.call[m] = "starting"}
  <2>1. CASE UNCHANGED <<cutOff, givenBack>>
    BY <2>1 DEF GivesUp
  <2>2. CASE /\ chat.startup = "ok" => chat.startupStale
             /\ cutOff' = cutOff \union (waiting \intersect chat.stale)
             /\ turn' # turn => chat.startup = "ok"
             /\ givenBack' = (givenBack \/ turn' # turn)
    <3>1. chat.startupStale => \E m \in waiting : m \in chat.stale
      BY SafeFacts DEF KeptIn, Awaited
    <3>2. cutOff \subseteq cutOff' /\ (chat.startupStale => cutOff' # {})
      BY <2>2, <3>1
    <3> QED
      BY <2>2, <3>2 DEF GivesUp
  <2> QED
    BY <1>1, <2>1, <2>2 DEF SessionStarted
<1>2. CASE ~SessionStarted
  <2>1. givenBack' = givenBack
    BY <1>2 DEF QueueNext, queueVars, history, Answers, UserSends, UserQueues,
       UserFollowsUp, UserRemoves, UserClears, UserSendsHeld, UserInterrupts, FlagFlips,
       SendAnswered, DrainAnswered, FollowUpAnswered, RefoldLoads, StopFailed,
       StartArrives, EndArrives, TakesSend, TakesFollowUp, Refuses, SessionStarts,
       TurnBegins, TurnEnds, EndReported, TakesStop
  <2>2. cutOff \subseteq cutOff'
    BY <1>2 DEF QueueNext, queueVars, history, Answers, UserSends, UserQueues,
       UserFollowsUp, UserRemoves, UserClears, UserSendsHeld, UserInterrupts, FlagFlips,
       SendAnswered, DrainAnswered, FollowUpAnswered, RefoldLoads, StopFailed,
       StartArrives, EndArrives, TakesSend, TakesFollowUp, Refuses, SessionStarts,
       TurnBegins, TurnEnds, EndReported, TakesStop
  <2> QED
    BY <2>1, <2>2 DEF GivesUp
<1> QED
  BY <1>1, <1>2

-----------------------------------------------------------------------------
\* The store's entry, its history and the backend stay as the invariant says,
\* for any number of messages, flips of the flag and interrupts.
THEOREM QueueInvariant == QueueSpec => []QueueInv
<1>1. QueueInit => QueueInv
  BY SafeInit, LivelyInit DEF Safe, QueueInv, GivesUp, QueueInit
<1>2. QueueInv /\ [QueueNext]_queueVars => QueueInv'
  BY SafeNext, LivelyNext, GivesUpNext DEF Safe, QueueInv
<1> QED
  BY <1>1, <1>2, PTL DEF QueueSpec

\* A queued message is lost by no outcome of its sends, reaches the agent at most
\* once, and not after the user took it out (drainAgentQueue, removeQueuedMessage).
THEOREM QueueConserved == QueueSpec => []Conserved
<1>1. QueueInv => Conserved
  <2> SUFFICES ASSUME QueueInv PROVE Conserved
    OBVIOUS
  <2>1. /\ History(entered, removed, delivered, cutOff)
        /\ KeptIn(chat, entered, removed, delivered, cutOff)
    BY SafeFacts DEF QueueInv, Safe
  <2>2. ASSUME NEW m \in Range(entered)
        PROVE  m \in Range(chat.queue) \/ m \in removed \/ delivered[m] > 0
    <3>1. m \in Msg
      BY <2>1, InRange, ElementOfSeq, LenProperties DEF History
    <3> QED
      BY <2>1, <3>1 DEF KeptIn, Lined, Counted
  <2>3. \A m \in Msg \ cutOff : delivered[m] <= 1
    BY <2>1 DEF KeptIn, Counted
  <2>4. RemovedNotSent
    BY <2>1 DEF KeptIn, Counted, History, RemovedNotSent
  <2> QED
    BY <2>2, <2>3, <2>4 DEF QueueInv, Conserved
<1> QED
  BY <1>1, QueueInvariant, PTL

\* Messages reach the agent in the order they were queued (nextDrainEntry).
THEOREM QueueKeepsOrder == QueueSpec => []QueueOrder
<1>1. QueueInv => QueueOrder
  <2> SUFFICES ASSUME QueueInv PROVE QueueOrder
    OBVIOUS
  <2>1. Passed(chat, entered, delivered) /\ DOMAIN entered = 1..Len(entered)
    BY LenProperties DEF QueueInv, QueueTypeOK, Kept, KeptIn
  <2> QED
    BY <2>1 DEF Passed, QueueOrder
<1> QED
  BY <1>1, QueueInvariant, PTL

\* When nothing is under way no chat is shown busy and no queue waits unexplained.
THEOREM QueueNoStranding == QueueSpec => []NoStranding
<1>1. QueueInv => NoStranding
  <2> SUFFICES ASSUME QueueInv, Settled PROVE NoStranding
    BY DEF NoStranding
  <2>1. ~EndComes
    BY LenProperties DEF Settled, EndComes
  <2>2. \A m \in Msg : chat.call[m] = "none"
    BY DEF Settled, InFlight
  <2>3. \A m \in Msg : ~Pending(chat, m)
    BY <2>2 DEF Pending
  <2>4. chat.draining = None
    BY <2>2 DEF QueueInv, QueueTypeOK, Chat
  <2>5. chat.turnActive => givenBack
    BY <2>1, <2>3 DEF QueueInv, Lively, Busy, Asking
  <2>6. ASSUME chat.queue # <<>>, ~chat.queueHeld, cutOff = {}, provider # "pi"
        PROVE  chat.error = "send"
    <3>1. ~chat.turnActive
      BY <2>5, <2>6 DEF QueueInv, GivesUp
    <3> QED
      BY <2>1, <2>3, <2>4, <2>6, <3>1 DEF QueueInv, Lively, Moving, Idle, Stirs
  <2> QED
    BY <2>5, <2>6 DEF NoStranding
<1> QED
  BY <1>1, QueueInvariant, PTL

-----------------------------------------------------------------------------
(* The turns: the types                                                      *)

\* kill() of a runner leaves a runner.
LEMMA KilledType == ASSUME NEW p \in Runner PROVE Killed(p) \in Runner
BY DEF Runner, Killed

LEMMA KillType ==
    ASSUME TypeOK, NEW s \in Send \union {NoTurn}, Kill(s)
    PROVE  proc' \in [Send -> Runner]
<1>1. CASE s # NoTurn /\ hand[s] = "held"
  <2>1. s \in Send /\ Killed(proc[s]) \in Runner
    BY <1>1, KilledType DEF TypeOK
  <2> QED
    BY <1>1, <2>1 DEF Kill, TypeOK
<1>2. CASE ~(s # NoTurn /\ hand[s] = "held")
  BY <1>2 DEF Kill, TypeOK
<1> QED
  BY <1>1, <1>2

\* The reader's own flags.
LEMMA FlagType ==
    ASSUME NEW p \in Runner
    PROVE  /\ [p EXCEPT !.term = TRUE] \in Runner
           /\ [p EXCEPT !.term = TRUE, !.killed = FALSE] \in Runner
           /\ [p EXCEPT !.taken = TRUE] \in Runner
BY DEF Runner

\* What the helpers of the model give, one action at a time.
LEMMA TypeStart ==
    ASSUME TypeOK, NEW t \in Start,
           StartBegin(t) \/ StartFails(t) \/ StartRegister(t)
    PROVE  TypeOK'
<1>1. CASE StartBegin(t)
  BY <1>1 DEF TypeOK, StartBegin, startOnly, gateVars, sessionVars, dbVars, turnVars
<1>2. CASE StartFails(t)
  BY <1>2 DEF TypeOK, StartFails, startOnly, gateVars, sessionVars, dbVars, turnVars
<1>3. CASE StartRegister(t)
  BY <1>3 DEF TypeOK, StartRegister, startOnly, gateVars, dbVars, turnVars
<1> QED
  BY <1>1, <1>2, <1>3

LEMMA TypeSend ==
    ASSUME TypeOK, NEW s \in Send, SendNext(s)
    PROVE  TypeOK'
<1> USE NoTurnAssumption DEF NoTurnAssumption, TypeOK, SendTo, Provisional, Returned,
        gateVars, sessionVars, dbVars, turnVars, otherCalls
<1>1. CASE SendBegin(s)
  BY <1>1 DEF SendBegin
<1>2. CASE SendSnapshot(s)
  BY <1>2 DEF SendSnapshot
<1>3. CASE SendMarks(s)
  BY <1>3 DEF SendMarks
<1>4. CASE SendPersists(s)
  BY <1>4 DEF SendPersists
<1>5. CASE SendPersistFails(s)
  BY <1>5 DEF SendPersistFails, ClearAndReap, Reap
<1>6. CASE SendSpawns(s)
  BY <1>6 DEF SendSpawns, Runner
<1>7. CASE SendSpawnFails(s)
  BY <1>7, ZenonT(40) DEF SendSpawnFails
<1>8. CASE SendClaims(s)
  BY <1>8 DEF SendClaims
<1>9. CASE SendUnwinds(s)
  BY <1>9, KillType, SMTT(30) DEF SendUnwinds, Reap
<1> QED
  BY <1>1, <1>2, <1>3, <1>4, <1>5, <1>6, <1>7, <1>8, <1>9 DEF SendNext

LEMMA TypeRunner ==
    ASSUME TypeOK, NEW s \in Send, ProcNext(s) \/ ReaderNext(s) \/ DropTurn(s)
    PROVE  TypeOK'
<1> USE DEF gateVars, sessionVars, dbVars, callVars, readerOnly, ReaderTo
<1>1. CASE \E c \in {"ok", "bad"} : ProcExits(s, c)
  BY <1>1, SMTT(30) DEF TypeOK, ProcExits, Runner
<1>2. CASE ReadsTerminal(s)
  <2>1. proc' \in [Send -> Runner]
    BY <1>2, FlagType DEF TypeOK, ReadsTerminal
  <2> QED
    BY <1>2, <2>1 DEF TypeOK, ReadsTerminal
<1>3. CASE TakesChild(s)
  <2>1. proc' \in [Send -> Runner]
    BY <1>3, FlagType DEF TypeOK, TakesChild
  <2> QED
    BY <1>3, <2>1 DEF TypeOK, TakesChild
<1>4. CASE Waits(s)
  <2> DEFINE told == [proc[s] EXCEPT !.term = TRUE, !.killed = FALSE]
  <2>0. told \in Runner
    BY FlagType DEF TypeOK
  <2>1. proc' \in [Send -> Runner]
    <3>1. proc' = proc \/ proc' = [proc EXCEPT ![s] = told]
      BY <1>4 DEF Waits
    <3> HIDE DEF told
    <3> QED
      BY <3>1, <2>0 DEF TypeOK
  <2>2. reader' \in [Send -> {"none", "reading", "waiting", "event", "store",
                             "clear", "finished"}]
    BY <1>4 DEF TypeOK, Waits
  <2>3. UNCHANGED <<readerOnly, sessionVars, running, hand>>
    BY <1>4 DEF Waits
  <2> QED
    BY <2>1, <2>2, <2>3 DEF TypeOK
<1>5. CASE EventChecked(s)
  BY <1>5 DEF TypeOK, EventChecked, Resume
<1>6. CASE EventStored(s)
  BY <1>6, ZenonT(40) DEF TypeOK, EventStored
<1>7. CASE EventClears(s)
  BY <1>7 DEF TypeOK, EventClears, Resume, ClearAndReap, Reap
<1>8. CASE DropTurn(s)
  <2>1. Killed(proc[s]) \in Runner
    BY KilledType DEF TypeOK
  <2> QED
    BY <1>8, <2>1 DEF TypeOK, DropTurn
<1> QED
  BY <1>1, <1>2, <1>3, <1>4, <1>5, <1>6, <1>7, <1>8
  DEF ProcNext, ReaderNext, ReadsEof, ReadsClosed

LEMMA TypeStop ==
    ASSUME TypeOK, NEW i \in Stop, StopReads(i) \/ StopKills(i)
    PROVE  TypeOK'
<1> USE DEF gateVars, sessionVars, dbVars, turnVars
<1>1. CASE StopReads(i)
  BY <1>1 DEF TypeOK, StopReads, stopOnly
<1>2. CASE StopKills(i)
  <2>1. proc' \in [Send -> Runner]
    BY <1>2, KillType DEF StopKills, stopOnly, TypeOK
  <2> QED
    BY <1>2, <2>1 DEF TypeOK, StopKills, stopOnly
<1> QED
  BY <1>1, <1>2

LEMMA TypeDispose ==
    ASSUME TypeOK, NEW d \in Dispose, DisposeNext(d)
    PROVE  TypeOK'
<1> USE DEF gateVars, sessionVars, dbVars, turnVars
<1>1. CASE DisposeRemoves(d)
  BY <1>1 DEF TypeOK, DisposeRemoves, disposeOnly
<1>2. CASE DisposeKills(d)
  <2>1. proc' \in [Send -> Runner]
    BY <1>2, KillType DEF DisposeKills, disposeOnly, TypeOK
  <2> QED
    BY <1>2, <2>1 DEF TypeOK, DisposeKills, disposeOnly, Reap
<1>3. CASE DisposeMarks(d)
  BY <1>3, ZenonT(40) DEF TypeOK, DisposeMarks, disposeOnly
<1> QED
  BY <1>1, <1>2, <1>3 DEF DisposeNext

LEMMA TypeDown ==
    ASSUME TypeOK, DownNext
    PROVE  TypeOK'
<1> USE DEF gateVars, sessionVars, dbVars, turnVars, downOnly, DownTo
<1>1. CASE DownCloses
  BY <1>1 DEF TypeOK, DownCloses
<1>2. CASE DownMarks
  BY <1>2 DEF TypeOK, DownMarks
<1>3. CASE DownDrains
  BY <1>3 DEF TypeOK, DownDrains
<1>4. CASE DownStops
  <2>1. proc' \in [Send -> Runner]
    BY <1>4, KillType DEF DownStops, TypeOK
  <2> QED
    BY <1>4, <2>1 DEF TypeOK, DownStops
<1>5. CASE DownJoins
  BY <1>5 DEF TypeOK, DownJoins
<1> QED
  BY <1>1, <1>2, <1>3, <1>4, <1>5 DEF DownNext

LEMMA TypeStep == TypeOK /\ [Next]_vars => TypeOK'
<1> SUFFICES ASSUME TypeOK, [Next]_vars PROVE TypeOK'
  OBVIOUS
<1>1. CASE Next
  BY <1>1, TypeStart, TypeSend, TypeRunner, TypeStop, TypeDispose, TypeDown DEF Next
<1>2. CASE UNCHANGED vars
  BY <1>2 DEF TypeOK, vars, gateVars, sessionVars, dbVars, callVars, turnVars
<1> QED
  BY <1>1, <1>2

LEMMA InitTypeOK == Init => TypeOK
<1>1. [life |-> "none", killed |-> FALSE, term |-> FALSE, taken |-> FALSE] \in Runner
  BY DEF Runner
<1>2. Init => /\ stop \in [Stop -> [pc : {"new", "killing", "done"},
                                     turn : Send \union {NoTurn}]]
                /\ dispose \in [Dispose -> [pc : {"new", "killing", "marking", "done"},
                                           turn : Send \union {NoTurn}]]
                /\ down \in [pc : {"new", "closed", "waiting", "stopping", "joining",
                                  "done"}, turn : Send \union {NoTurn}]
  BY DEF Init
<1>3. Init => /\ proc \in [Send -> Runner] /\ hand \in [Send -> {"none", "held", "dropping"}]
                /\ start \in [Start -> {"new", "begun", "failed", "done"}]
                /\ send \in [Send -> {"new"} \union Provisional \union Returned]
                /\ reader \in [Send -> {"none", "reading", "waiting", "event", "store",
                                        "clear", "finished"}]
  BY <1>1 DEF Init
<1>4. Init => /\ closed = FALSE /\ shuttingDown = FALSE /\ present = FALSE
                /\ active = NoTurn /\ terminalPending = FALSE /\ running = FALSE
                /\ prompts = {} /\ hasty = FALSE
  BY DEF Init
<1> QED
  BY <1>2, <1>3, <1>4 DEF TypeOK

\* TypeOK: every variable keeps its type, and a turn is only installed in a
\* session that is there, for a send that was told so.
THEOREM TurnsTypeOK == Spec => []TypeOK
<1> QED
  BY InitTypeOK, TypeStep, PTL DEF Spec

-----------------------------------------------------------------------------
(* The other parts of the inductive invariant.                              *)

\* Whoever takes a handle out of its slot kills the runner first, or finds
\* its process gone or its Child taken.
HandsKill ==
    \A s \in Send : hand[s] = "none" /\ proc[s].life = "running" => proc[s].taken

\* shutdown() closes the gate, then sets the flag; what it stops is a turn.
Closing ==
    /\ down.pc # "new" => closed
    /\ down.pc \notin {"new", "closed"} => shuttingDown
    /\ down.pc = "stopping" => down.turn \in Send

\* The drained map stays empty and no call comes back to fill it.
Drained ==
    down.pc \in {"stopping", "joining", "done"} => ~present /\ active = NoTurn /\ Quiet

\* The runner of s is spawned, killed or forgotten in no other way.
LEMMA KillEffect ==
    ASSUME TypeOK, NEW s \in Send \union {NoTurn}, Kill(s), NEW r \in Send
    PROVE  /\ proc'[r].life = "running" => proc[r].life = "running"
           /\ proc'[r].taken = proc[r].taken
           /\ r = s /\ hand[r] = "held" /\ ~proc[r].taken => proc'[r].life # "running"
<1>1. proc[r] \in Runner /\ proc \in [Send -> Runner]
  BY DEF TypeOK
<1>2. /\ Killed(proc[r]).life = "running" => proc[r].life = "running"
      /\ Killed(proc[r]).taken = proc[r].taken
      /\ ~proc[r].taken => Killed(proc[r]).life # "running"
  BY <1>1 DEF Killed, Runner
<1>3. proc'[r] = IF r = s /\ hand[r] = "held" THEN Killed(proc[r]) ELSE proc[r]
  BY <1>1, NoTurnAssumption DEF Kill, NoTurnAssumption
<1> QED
  BY <1>2, <1>3

\* Steps that leave a runner and its handle as they are.
LEMMA RunnerFrame ==
    ASSUME TypeOK, HandsKill,
           \A r \in Send : /\ hand[r] # "none" => hand'[r] # "none"
                           /\ proc'[r].life = "running" => proc[r].life = "running"
                           /\ proc[r].taken => proc'[r].taken
    PROVE  HandsKill'
<1> SUFFICES ASSUME NEW r \in Send, hand'[r] = "none", proc'[r].life = "running"
             PROVE  proc'[r].taken
  BY DEF HandsKill
<1>1. hand[r] = "none" /\ proc[r].life = "running"
  OBVIOUS
<1> QED
  BY <1>1 DEF HandsKill

LEMMA HandsSend ==
    ASSUME TypeOK, HandsKill, NEW s \in Send, SendNext(s)
    PROVE  HandsKill'
<1>1. CASE SendSpawns(s)
  BY <1>1 DEF SendSpawns, HandsKill, TypeOK
<1>2. CASE SendUnwinds(s)
  <2>1. \A r \in Send : hand[r] # "none" => hand'[r] # "none"
    BY <1>2 DEF SendUnwinds, Reap, TypeOK
  <2> QED
    BY <1>2, <2>1, KillEffect, RunnerFrame DEF SendUnwinds
<1>3. CASE SendPersistFails(s)
  BY <1>3, RunnerFrame DEF SendPersistFails, ClearAndReap, Reap, TypeOK
<1>4. CASE UNCHANGED <<proc, hand>>
  BY <1>4 DEF HandsKill
<1> QED
  BY <1>1, <1>2, <1>3, <1>4
  DEF SendNext, SendBegin, SendSnapshot, SendMarks, SendPersists, SendSpawnFails,
      SendClaims, turnVars

LEMMA HandsRunner ==
    ASSUME TypeOK, HandsKill, NEW s \in Send,
           ProcNext(s) \/ ReaderNext(s) \/ DropTurn(s)
    PROVE  HandsKill'
<1>0. proc[s] \in Runner /\ proc \in [Send -> Runner]
  BY DEF TypeOK
<1>1. CASE \E c \in {"ok", "bad"} : ProcExits(s, c)
  BY <1>0, <1>1, RunnerFrame DEF ProcExits, Runner
<1>2. CASE ReadsTerminal(s)
  BY <1>0, <1>2, RunnerFrame DEF ReadsTerminal, Runner
<1>3. CASE TakesChild(s)
  BY <1>0, <1>3, RunnerFrame DEF TakesChild, Runner
<1>4. CASE Waits(s)
  BY <1>0, <1>4, RunnerFrame DEF Waits, Runner
<1>5. CASE EventChecked(s) \/ EventStored(s)
  BY <1>5 DEF EventChecked, EventStored, HandsKill
<1>6. CASE EventClears(s)
  BY <1>6, RunnerFrame DEF EventClears, ClearAndReap, Reap, TypeOK
<1>7. CASE DropTurn(s)
  <2>1. Killed(proc[s]).life = "running" => Killed(proc[s]).taken
    BY <1>0 DEF Killed, Runner
  <2> QED
    BY <1>0, <1>7, <2>1 DEF DropTurn, HandsKill, TypeOK
<1> QED
  BY <1>1, <1>2, <1>3, <1>4, <1>5, <1>6, <1>7
  DEF ProcNext, ReaderNext, ReadsEof, ReadsClosed

LEMMA HandsCalls ==
    ASSUME TypeOK, Closing, HandsKill,
           \/ \E i \in Stop : StopReads(i) \/ StopKills(i)
           \/ \E d \in Dispose : DisposeNext(d)
           \/ DownNext
    PROVE  HandsKill'
<1>1. CASE \E i \in Stop : StopKills(i)
  <2>1. PICK i \in Stop : StopKills(i)
    BY <1>1
  <2>2. Kill(stop[i].turn) /\ stop[i].turn \in Send \union {NoTurn} /\ hand' = hand
    BY <2>1 DEF StopKills, stopOnly, TypeOK
  <2> QED
    BY <2>2, KillEffect, RunnerFrame
<1>2. CASE \E d \in Dispose : DisposeKills(d)
  <2>1. PICK d \in Dispose : DisposeKills(d)
    BY <1>2
  <2>2. Kill(dispose[d].turn) /\ dispose[d].turn \in Send \union {NoTurn}
    BY <2>1 DEF DisposeKills, disposeOnly, TypeOK
  <2>3. \A r \in Send : hand[r] # "none" => hand'[r] # "none"
    BY <2>1 DEF DisposeKills, disposeOnly, Reap, TypeOK
  <2> QED
    BY <2>2, <2>3, KillEffect, RunnerFrame
<1>3. CASE DownStops
  <2>1. Kill(down.turn) /\ down.turn \in Send
    BY <1>3 DEF DownStops, DownTo, Closing
  <2>2. \A r \in Send : hand'[r] = IF r = down.turn /\ hand[r] = "held" THEN "none" ELSE hand[r]
    BY <1>3, <2>1 DEF DownStops, TypeOK
  <2>3. \A r \in Send : proc[r] \in Runner
    BY DEF TypeOK
  <2> QED
    BY <2>1, <2>2, <2>3, KillEffect DEF HandsKill, Runner
<1>4. CASE UNCHANGED <<proc, hand>>
  BY <1>4 DEF HandsKill
<1> QED
  BY <1>1, <1>2, <1>3, <1>4
  DEF StopReads, stopOnly, DisposeNext, DisposeRemoves, DisposeMarks, disposeOnly, DownNext, DownCloses,
      DownMarks, DownDrains, DownJoins, turnVars

LEMMA HandsStep == TypeOK /\ Closing /\ HandsKill /\ [Next]_vars => HandsKill'
<1> SUFFICES ASSUME TypeOK, Closing, HandsKill, [Next]_vars PROVE HandsKill'
  OBVIOUS
<1>1. CASE \E t \in Start : StartBegin(t) \/ StartRegister(t) \/ StartFails(t)
  BY <1>1 DEF StartBegin, StartRegister, StartFails, startOnly, turnVars, HandsKill
<1>2. CASE UNCHANGED vars
  BY <1>2 DEF vars, turnVars, HandsKill
<1> QED
  BY <1>1, <1>2, HandsSend, HandsRunner, HandsCalls DEF Next

-----------------------------------------------------------------------------
(* Ownership.  A step that kills the runners it lets go of keeps Owned.      *)

LEMMA OwnedSend ==
    ASSUME TypeOK, HandsKill, Owned, NEW s \in Send, SendNext(s)
    PROVE  Owned'
<1> SUFFICES ASSUME NEW r \in Send, proc'[r].life = "running", ~proc'[r].taken
             PROVE  Owner(r)'
  BY DEF Owned
<1> USE DEF SendTo, otherCalls, turnVars
<1>1. CASE SendSpawns(s)
  <2>1. CASE r = s
    BY <1>1, <2>1 DEF SendSpawns, Owner, TypeOK
  <2>2. CASE r # s
    <3>1. Owner(r)
      BY <1>1, <2>2 DEF SendSpawns, Owned, TypeOK
    <3> QED
      BY <1>1, <2>2, <3>1 DEF SendSpawns, Owner, TypeOK, sessionVars
  <2> QED
    BY <2>1, <2>2
<1>2. CASE SendUnwinds(s)
  <2>1. Kill(s)
    BY <1>2 DEF SendUnwinds
  <2>2. Owner(r) /\ proc[r].life = "running" /\ ~proc[r].taken /\ hand[r] # "none"
    BY <2>1, KillEffect DEF Owned, HandsKill
  <2>3. r = s => hand[s] = "dropping"
    BY <2>1, <2>2, KillEffect DEF TypeOK
  <2>4. /\ send'[r] = IF r = s THEN send'[s] ELSE send[r]
        /\ hand'[r] = IF r = s /\ hand[r] = "held" THEN "dropping" ELSE hand[r]
    BY <1>2, NoTurnAssumption DEF SendUnwinds, Reap, TypeOK, NoTurnAssumption
  <2>5. UNCHANGED <<active, dispose, down>>
    BY <1>2 DEF SendUnwinds, sessionVars
  <2> QED
    BY <2>2, <2>3, <2>4, <2>5 DEF Owner
<1>3. CASE SendPersistFails(s)
  <2>1. Owner(r) /\ hand[r] # "none"
    BY <1>3 DEF SendPersistFails, Owned, HandsKill
  <2>2. /\ hand'[r] = IF r = active /\ hand[r] = "held" THEN "dropping" ELSE hand[r]
        /\ send[s] = "marked" /\ send'[r] = IF r = s THEN "failed" ELSE send[r]
        /\ UNCHANGED <<dispose, down>>
    BY <1>3, NoTurnAssumption
    DEF SendPersistFails, ClearAndReap, Reap, TypeOK, NoTurnAssumption
  <2> QED
    BY <2>1, <2>2 DEF Owner
<1>4. CASE SendClaims(s)
  <2>1. Owner(r) /\ hand[r] \in {"held", "dropping"}
    BY <1>4 DEF SendClaims, Owned, HandsKill, TypeOK
  <2>2. /\ send[s] = "spawned"
        /\ send'[s] \in {"ok", "ended", "gone", "busy"}
        /\ r # s => send'[r] = send[r]
        /\ IF send'[s] = "ok" THEN active = NoTurn /\ active' = s ELSE active' = active
        /\ UNCHANGED <<dispose, down, hand>>
    BY <1>4 DEF SendClaims, TypeOK
  <2> QED
    BY <2>1, <2>2, NoTurnAssumption DEF Owner, NoTurnAssumption
<1>5. CASE /\ UNCHANGED <<active, hand, proc, dispose, down>>
          /\ send[s] \notin {"spawned", "ended", "gone", "busy"}
          /\ \A q \in Send : q # s => send'[q] = send[q]
  BY <1>5 DEF Owned, Owner
<1>6. SendBegin(s) \/ SendSnapshot(s) \/ SendMarks(s) \/ SendPersists(s) \/ SendSpawnFails(s)
      => /\ UNCHANGED <<active, hand, proc, dispose, down>>
         /\ send[s] \notin {"spawned", "ended", "gone", "busy"}
         /\ \A q \in Send : q # s => send'[q] = send[q]
  BY DEF SendBegin, SendSnapshot, SendMarks, SendPersists, SendSpawnFails, sessionVars, TypeOK
<1> QED
  BY <1>1, <1>2, <1>3, <1>4, <1>5, <1>6 DEF SendNext

LEMMA OwnedRunner ==
    ASSUME TypeOK, HandsKill, Owned, NEW s \in Send,
           ProcNext(s) \/ ReaderNext(s) \/ DropTurn(s)
    PROVE  Owned'
<1> SUFFICES ASSUME NEW r \in Send, proc'[r].life = "running", ~proc'[r].taken
             PROVE  Owner(r)'
  BY DEF Owned
<1>0. \A q \in Send : proc[q] \in Runner
  BY DEF TypeOK
<1> USE DEF callVars, readerOnly, sessionVars
<1>1. CASE \/ \E c \in {"ok", "bad"} : ProcExits(s, c)
          \/ ReadsTerminal(s) \/ TakesChild(s) \/ Waits(s)
          \/ EventChecked(s) \/ EventStored(s)
  <2>1. UNCHANGED <<active, send, hand, dispose, down>>
    BY <1>1 DEF ProcExits, ReadsTerminal, TakesChild, Waits, EventChecked, EventStored
  <2>2. proc[r].life = "running" /\ ~proc[r].taken
    <3>0. proc \in [Send -> Runner] /\ proc[s] \in Runner
      BY DEF TypeOK
    <3>1. CASE \E c \in {"ok", "bad"} : ProcExits(s, c)
      BY <3>0, <3>1 DEF ProcExits, Runner
    <3>2. CASE ReadsTerminal(s) \/ TakesChild(s)
      BY <3>0, <3>2 DEF ReadsTerminal, TakesChild, Runner
    <3>3. CASE Waits(s)
      BY <3>0, <3>3 DEF Waits, Runner
    <3>4. CASE EventChecked(s) \/ EventStored(s)
      BY <3>4 DEF EventChecked, EventStored
    <3> QED
      BY <1>1, <3>1, <3>2, <3>3, <3>4
  <2> QED
    BY <2>1, <2>2 DEF Owned, Owner
<1>2. CASE EventClears(s)
  <2>1. Owner(r) /\ hand[r] # "none"
    BY <1>2 DEF EventClears, Owned, HandsKill
  <2>2. /\ hand'[r] = IF r = active /\ hand[r] = "held" THEN "dropping" ELSE hand[r]
        /\ UNCHANGED <<send, dispose, down>>
    BY <1>2, NoTurnAssumption
    DEF EventClears, ClearAndReap, Reap, TypeOK, NoTurnAssumption
  <2> QED
    BY <2>1, <2>2 DEF Owner
<1>3. CASE DropTurn(s)
  <2>1. Killed(proc[s]).life = "running" => Killed(proc[s]).taken
    BY <1>0 DEF Killed, Runner
  <2>2. r # s /\ proc' = [proc EXCEPT ![s] = Killed(proc[s])]
    BY <1>3, <2>1 DEF DropTurn, TypeOK
  <2>3. Owner(r)
    BY <2>2 DEF Owned, TypeOK
  <2>4. hand'[r] = hand[r] /\ UNCHANGED <<active, send, dispose, down>>
    BY <1>3, <2>2 DEF DropTurn, TypeOK
  <2> QED
    BY <2>3, <2>4 DEF Owner
<1> QED
  BY <1>1, <1>2, <1>3 DEF ProcNext, ReaderNext, ReadsEof, ReadsClosed

LEMMA OwnedDispose ==
    ASSUME TypeOK, HandsKill, Owned, NEW d \in Dispose, DisposeNext(d)
    PROVE  Owned'
<1> SUFFICES ASSUME NEW r \in Send, proc'[r].life = "running", ~proc'[r].taken
             PROVE  Owner(r)'
  BY DEF Owned
<1> USE DEF turnVars, sessionVars
<1>1. CASE DisposeRemoves(d)
  <2>1. Owner(r)
    BY <1>1 DEF DisposeRemoves, disposeOnly, Owned
  <2>2. /\ dispose[d].pc = "new" /\ dispose'[d] = [pc |-> "killing", turn |-> active]
        /\ \A c \in Dispose : c # d => dispose'[c] = dispose[c]
        /\ UNCHANGED <<send, hand, down>>
    BY <1>1 DEF DisposeRemoves, disposeOnly, TypeOK
  <2> QED
    BY <2>1, <2>2 DEF Owner
<1>2. CASE DisposeKills(d)
  <2>1. Kill(dispose[d].turn) /\ dispose[d].turn \in Send \union {NoTurn}
    BY <1>2 DEF DisposeKills, disposeOnly, TypeOK
  <2>2. Owner(r) /\ hand[r] \in {"held", "dropping"}
    BY <2>1, KillEffect DEF Owned, HandsKill, TypeOK
  <2>3. r = dispose[d].turn => hand[r] = "dropping"
    BY <2>1, <2>2, KillEffect
  <2>4. /\ hand[r] = "dropping" => hand'[r] = "dropping"
        /\ r # dispose[d].turn => hand'[r] = hand[r]
        /\ \A c \in Dispose : c # d => dispose'[c] = dispose[c]
        /\ UNCHANGED <<active, send, down>>
    BY <1>2, <2>1 DEF DisposeKills, disposeOnly, Reap, TypeOK
  <2> QED
    BY <2>2, <2>3, <2>4 DEF Owner
<1>3. CASE DisposeMarks(d)
  <2>1. Owner(r) /\ dispose[d].pc = "marking"
    BY <1>3 DEF DisposeMarks, disposeOnly, Owned
  <2>2. /\ \A c \in Dispose : c # d => dispose'[c] = dispose[c]
        /\ UNCHANGED <<active, send, hand, down>>
    BY <1>3 DEF DisposeMarks, disposeOnly, TypeOK
  <2> QED
    BY <2>1, <2>2 DEF Owner
<1> QED
  BY <1>1, <1>2, <1>3 DEF DisposeNext

LEMMA OwnedDown ==
    ASSUME TypeOK, HandsKill, Closing, Owned, DownNext
    PROVE  Owned'
<1> SUFFICES ASSUME NEW r \in Send, proc'[r].life = "running", ~proc'[r].taken
             PROVE  Owner(r)'
  BY DEF Owned
<1> USE DEF turnVars, sessionVars, downOnly, DownTo
<1>1. CASE DownDrains
  <2>1. Owner(r) /\ down.pc = "waiting"
    BY <1>1 DEF DownDrains, Owned
  <2>2. /\ active = r => down' = [pc |-> "stopping", turn |-> r]
        /\ UNCHANGED <<send, hand, dispose>>
    BY <1>1, NoTurnAssumption DEF DownDrains, NoTurnAssumption
  <2> QED
    BY <2>1, <2>2 DEF Owner
<1>2. CASE DownStops
  <2>1. Kill(down.turn) /\ down.turn \in Send
    BY <1>2 DEF DownStops, Closing
  <2>2. Owner(r) /\ hand[r] \in {"held", "dropping"}
    BY <2>1, KillEffect DEF Owned, HandsKill, TypeOK
  <2>3. r = down.turn => hand[r] = "dropping"
    BY <2>1, <2>2, KillEffect
  <2>4. hand'[r] = hand[r] /\ UNCHANGED <<active, send, dispose>>
    BY <1>2, <2>1, <2>2, <2>3 DEF DownStops, TypeOK
  <2> QED
    BY <2>2, <2>3, <2>4 DEF Owner
<1>3. CASE DownCloses \/ DownMarks \/ DownJoins
  <2>1. Owner(r) /\ down.pc # "stopping"
    BY <1>3 DEF DownCloses, DownMarks, DownJoins, Owned
  <2>2. UNCHANGED <<active, send, hand, dispose>>
    BY <1>3 DEF DownCloses, DownMarks, DownJoins
  <2> QED
    BY <2>1, <2>2 DEF Owner
<1> QED
  BY <1>1, <1>2, <1>3 DEF DownNext

LEMMA OwnedStep == TypeOK /\ HandsKill /\ Closing /\ Owned /\ [Next]_vars => Owned'
<1> SUFFICES ASSUME TypeOK, HandsKill, Closing, Owned, [Next]_vars PROVE Owned'
  OBVIOUS
<1>1. CASE \/ \E t \in Start : StartBegin(t) \/ StartRegister(t) \/ StartFails(t)
          \/ \E i \in Stop : StopReads(i)
  <2>1. UNCHANGED <<active, send, proc, hand, dispose, down>>
    BY <1>1 DEF StartBegin, StartRegister, StartFails, startOnly, StopReads, stopOnly, sessionVars, turnVars
  <2> QED
    BY <2>1 DEF Owned, Owner
<1>2. CASE \E i \in Stop : StopKills(i)
  <2>1. PICK i \in Stop : StopKills(i)
    BY <1>2
  <2>2. Kill(stop[i].turn) /\ stop[i].turn \in Send \union {NoTurn}
    BY <2>1 DEF StopKills, stopOnly, TypeOK
  <2>3. UNCHANGED <<active, send, hand, dispose, down>>
    BY <2>1 DEF StopKills, stopOnly, sessionVars
  <2> QED
    BY <2>2, <2>3, KillEffect DEF Owned, Owner
<1>3. CASE UNCHANGED vars
  BY <1>3 DEF vars, sessionVars, callVars, turnVars, Owned, Owner
<1> QED
  BY <1>1, <1>2, <1>3, OwnedSend, OwnedRunner, OwnedDispose, OwnedDown DEF Next

-----------------------------------------------------------------------------
(* Shutdown.                                                                 *)

\* Only shutdown() moves what Closing speaks of.
LEMMA ClosingStep == TypeOK /\ Closing /\ [Next]_vars => Closing'
<1> SUFFICES ASSUME TypeOK, Closing, [Next]_vars PROVE Closing'
  OBVIOUS
<1>1. CASE UNCHANGED <<closed, shuttingDown, down>>
  BY <1>1 DEF Closing
<1>2. CASE DownNext
  BY <1>2, NoTurnAssumption
  DEF DownNext, DownCloses, DownMarks, DownDrains, DownStops, DownJoins, DownTo, Closing,
      TypeOK, gateVars, NoTurnAssumption
<1>3. CASE \E t \in Start : StartBegin(t) \/ StartRegister(t) \/ StartFails(t)
  BY <1>1, <1>3 DEF StartBegin, StartRegister, StartFails, startOnly, gateVars
<1>4. CASE \E s \in Send : SendNext(s)
  BY <1>1, <1>4 DEF SendNext, SendBegin, SendSnapshot, SendMarks, SendPersists,
     SendPersistFails, SendSpawns, SendSpawnFails, SendClaims, SendUnwinds, gateVars,
     otherCalls
<1>5. CASE \E s \in Send : ProcNext(s) \/ ReaderNext(s) \/ DropTurn(s)
  BY <1>1, <1>5 DEF ProcNext, ReaderNext, DropTurn, ProcExits, ReadsTerminal, ReadsClosed,
     ReadsEof, TakesChild, Waits, EventChecked, EventStored, EventClears, gateVars,
     callVars, readerOnly
<1>6. CASE \/ \E i \in Stop : StopReads(i) \/ StopKills(i)
          \/ \E d \in Dispose : DisposeNext(d)
  BY <1>1, <1>6 DEF StopReads, StopKills, stopOnly, DisposeNext, DisposeRemoves, DisposeKills,
     DisposeMarks, disposeOnly, gateVars
<1>7. CASE UNCHANGED vars
  BY <1>1, <1>7 DEF vars, gateVars, callVars
<1> QED
  BY <1>2, <1>3, <1>4, <1>5, <1>6, <1>7 DEF Next

\* With the gate closed and nothing in flight, no session and no send begins.
LEMMA DrainedStep == TypeOK /\ Closing /\ Drained /\ [Next]_vars => Drained'
<1> SUFFICES ASSUME TypeOK, Closing, Drained, [Next]_vars,
                    down'.pc \in {"stopping", "joining", "done"}
             PROVE  ~present' /\ active' = NoTurn /\ Quiet'
  BY DEF Drained
<1>1. CASE DownNext
  <2>1. CASE DownDrains
    BY <2>1 DEF DownDrains, Quiet, downOnly
  <2>2. CASE DownStops \/ DownJoins
    BY <2>2 DEF DownStops, DownJoins, DownTo, Drained, Quiet, downOnly, sessionVars
  <2>3. CASE DownCloses \/ DownMarks
    BY <2>3 DEF DownCloses, DownMarks, DownTo, TypeOK
  <2> QED
    BY <1>1, <2>1, <2>2, <2>3 DEF DownNext
<1>2. CASE UNCHANGED down
  <2>0. closed /\ shuttingDown /\ ~present /\ active = NoTurn /\ Quiet
    BY <1>2 DEF Drained, Closing
  <2>1. CASE \E t \in Start : StartBegin(t) \/ StartRegister(t) \/ StartFails(t)
    BY <2>0, <2>1 DEF StartBegin, StartRegister, StartFails, startOnly, Quiet
  <2>2. CASE \E s \in Send : SendNext(s)
    <3>1. PICK s \in Send : SendNext(s)
      BY <2>2
    <3>2. SendBegin(s)
      BY <2>0, <3>1 DEF SendNext, SendSnapshot, SendMarks, SendPersists, SendPersistFails,
         SendSpawns, SendSpawnFails, SendClaims, SendUnwinds, SendTo, Quiet, Provisional
    <3> QED
      BY <2>0, <3>2 DEF SendBegin, SendTo, Quiet, Provisional, sessionVars, otherCalls, TypeOK
  <2>3. CASE \E s \in Send : ProcNext(s) \/ ReaderNext(s) \/ DropTurn(s)
    BY <2>0, <2>3 DEF ProcNext, ReaderNext, DropTurn, ProcExits, ReadsTerminal,
       ReadsClosed, ReadsEof, TakesChild, Waits, EventChecked, EventStored, EventClears,
       ClearAndReap, sessionVars, callVars, readerOnly, Quiet
  <2>4. CASE \/ \E i \in Stop : StopReads(i) \/ StopKills(i)
            \/ \E d \in Dispose : DisposeNext(d)
    BY <2>0, <2>4 DEF StopReads, StopKills, stopOnly, DisposeNext, DisposeRemoves, DisposeKills,
       DisposeMarks, disposeOnly, sessionVars, Quiet
  <2>5. CASE UNCHANGED vars
    BY <2>0, <2>5 DEF vars, sessionVars, callVars, Quiet
  <2> QED
    BY <1>1, <2>1, <2>2, <2>3, <2>4, <2>5 DEF Next
<1>3. DownNext \/ UNCHANGED down
  BY DEF Next, StartBegin, StartRegister, StartFails, startOnly, SendNext, SendBegin, SendSnapshot,
     SendMarks, SendPersists, SendPersistFails, SendSpawns, SendSpawnFails, SendClaims,
     SendUnwinds, otherCalls, ProcNext, ReaderNext, DropTurn, ProcExits, ReadsTerminal,
     ReadsClosed, ReadsEof, TakesChild, Waits, EventChecked, EventStored, EventClears,
     readerOnly, callVars, StopReads, StopKills, stopOnly, DisposeNext, DisposeRemoves,
     DisposeKills, DisposeMarks, disposeOnly, vars
<1> QED
  BY <1>1, <1>2, <1>3

-----------------------------------------------------------------------------
(* Prompts.                                                                  *)

\* A prompt belongs to a send on its way, to a turn that has run, or to a chat
\* that was registered again between the claim and the rollback.
Prompting ==
    /\ present => \E t \in Start : start[t] = "done"
    /\ \A s \in Send : send[s] \notin {"new", "begun", "refused", "rejected"}
          => \E t \in Start : start[t] = "done"
    /\ \A s \in Send : send[s] = "gone" /\ present => Restarted
    /\ \A s \in prompts :
          \/ send[s] \in {"persisted", "spawned", "ended", "gone", "busy", "ok", "endedOk"}
          \/ send[s] = "goneOk" /\ Restarted

\* A step that leaves the starts, the sends and the prompts alone, and brings no
\* session back.
LEMMA PromptFrame ==
    ASSUME Prompting, UNCHANGED <<start, send, prompts>>, present' => present
    PROVE  Prompting'
BY DEF Prompting, Restarted

LEMMA PromptStart ==
    ASSUME TypeOK, Prompting, NEW t \in Start,
           StartBegin(t) \/ StartFails(t) \/ StartRegister(t)
    PROVE  Prompting'
<1>1. CASE StartBegin(t) \/ StartFails(t)
  <2>1. /\ start[t] # "done" /\ \A u \in Start : u # t => start'[u] = start[u]
        /\ start'[t] # "done"
        /\ UNCHANGED <<send, prompts, present>>
    BY <1>1 DEF StartBegin, StartFails, startOnly, sessionVars, dbVars, TypeOK
  <2>2. (\E u \in Start : start[u] = "done") => \E u \in Start : start'[u] = "done"
    BY <2>1
  <2>3. Restarted => Restarted'
    BY <2>1 DEF Restarted
  <2> QED
    BY <2>1, <2>2, <2>3 DEF Prompting
<1>2. CASE StartRegister(t)
  <2>1. /\ start[t] = "begun" /\ start'[t] = "done"
        /\ \A u \in Start : u # t => start'[u] = start[u]
        /\ UNCHANGED <<send, prompts>>
    BY <1>2 DEF StartRegister, startOnly, dbVars, TypeOK
  <2>2. (\E u \in Start : start[u] = "done") => Restarted'
    BY <2>1 DEF Restarted
  <2>3. Restarted => Restarted'
    BY <2>1 DEF Restarted
  <2> QED
    BY <2>1, <2>2, <2>3 DEF Prompting
<1> QED
  BY <1>1, <1>2

LEMMA PromptSend ==
    ASSUME TypeOK, Prompting, NEW s \in Send, SendNext(s)
    PROVE  Prompting'
<1>0. /\ UNCHANGED <<start, present>>
      /\ \A r \in Send : r # s => send'[r] = send[r]
  BY DEF SendNext, SendBegin, SendSnapshot, SendMarks, SendPersists, SendPersistFails,
     SendSpawns, SendSpawnFails, SendClaims, SendUnwinds, SendTo, otherCalls, sessionVars,
     ClearAndReap, TypeOK
<1>1. Restarted' <=> Restarted
  BY <1>0 DEF Restarted
<1> DEFINE Started == \E t \in Start : start[t] = "done"
<1>2. Started' <=> Started
  BY <1>0
<1>3. /\ present => Started
      /\ \A r \in Send : send[r] \notin {"new", "begun", "refused", "rejected"} => Started
      /\ \A r \in Send : send[r] = "gone" /\ present => Restarted
      /\ \A r \in prompts :
            \/ send[r] \in {"persisted", "spawned", "ended", "gone", "busy", "ok", "endedOk"}
            \/ send[r] = "goneOk" /\ Restarted
      /\ prompts \in SUBSET Send
  BY DEF Prompting, TypeOK
<1>4. /\ send'[s] \notin {"new", "begun", "refused", "rejected"} => Started
      /\ send'[s] = "gone" => ~present
      /\ prompts' \subseteq prompts \union {s}
      /\ s \in prompts' =>
            \/ send'[s] \in {"persisted", "spawned", "ended", "gone", "busy", "ok", "endedOk"}
            \/ send'[s] = "goneOk" /\ Restarted
  <2> HIDE DEF Started
  <2>1. CASE SendBegin(s) \/ SendSnapshot(s) \/ SendMarks(s)
    BY <1>3, <2>1 DEF SendBegin, SendSnapshot, SendMarks, SendTo, dbVars, TypeOK
  <2>2. CASE SendPersists(s) \/ SendPersistFails(s)
    BY <1>3, <2>2 DEF SendPersists, SendPersistFails, SendTo, TypeOK
  <2>3. CASE SendSpawns(s) \/ SendSpawnFails(s)
    BY <1>3, <2>3 DEF SendSpawns, SendSpawnFails, SendTo, dbVars, TypeOK
  <2>4. CASE SendClaims(s)
    BY <1>3, <2>4 DEF SendClaims, SendTo, dbVars, TypeOK
  <2>5. CASE SendUnwinds(s)
    BY <1>3, <2>5 DEF SendUnwinds, SendTo, TypeOK
  <2> QED
    BY <2>1, <2>2, <2>3, <2>4, <2>5 DEF SendNext
<1> HIDE DEF Started
<1>5. /\ \A r \in Send : send'[r] \notin {"new", "begun", "refused", "rejected"} => Started
      /\ \A r \in Send : send'[r] = "gone" /\ present => Restarted
      /\ \A r \in prompts' :
            \/ send'[r] \in {"persisted", "spawned", "ended", "gone", "busy", "ok", "endedOk"}
            \/ send'[r] = "goneOk" /\ Restarted
  BY <1>0, <1>3, <1>4
<1> QED
  BY <1>0, <1>1, <1>2, <1>3, <1>5 DEF Prompting, Started

LEMMA PromptStep == TypeOK /\ Prompting /\ [Next]_vars => Prompting'
<1> SUFFICES ASSUME TypeOK, Prompting, [Next]_vars PROVE Prompting'
  OBVIOUS
<1>1. CASE \E s \in Send : ProcNext(s) \/ ReaderNext(s) \/ DropTurn(s)
  BY <1>1, PromptFrame DEF ProcNext, ReaderNext, DropTurn, ProcExits, ReadsTerminal,
     ReadsClosed, ReadsEof, TakesChild, Waits, EventChecked, EventStored, EventClears,
     ClearAndReap, sessionVars, callVars, readerOnly, dbVars
<1>2. CASE \/ \E i \in Stop : StopReads(i) \/ StopKills(i)
          \/ \E d \in Dispose : DisposeNext(d)
  BY <1>2, PromptFrame DEF StopReads, StopKills, stopOnly, DisposeNext, DisposeRemoves,
     DisposeKills, DisposeMarks, disposeOnly, sessionVars, dbVars
<1>3. CASE DownNext
  BY <1>3, PromptFrame DEF DownNext, DownCloses, DownMarks, DownDrains, DownStops,
     DownJoins, downOnly, sessionVars, dbVars
<1>4. CASE UNCHANGED vars
  BY <1>4, PromptFrame DEF vars, sessionVars, callVars, dbVars
<1> QED
  BY <1>1, <1>2, <1>3, <1>4, PromptStart, PromptSend DEF Next

-----------------------------------------------------------------------------
(* A caller that waits for the end of each turn, in a chat that is not        *)
(* registered again.                                                          *)

Patient == ~hasty /\ ~Restarted

\* The runner has ended its turn, and the manager has looked at the event.
Told(s) == proc[s].term /\ reader[s] # "event"

Unspawned == {"new", "refused", "begun", "rejected", "cleared", "marked", "persisted",
              "failed"}
Claiming == {"cleared", "marked", "persisted", "spawned"}

\* While one send is on its way or has its turn, the others are over.
Alone ==
    \A r, q \in Send : r # q /\ (send[r] \in Provisional \/ active = r) => Over(q)

\* What a send on its way finds in the session.
Undisturbed ==
    \A s \in Send :
        /\ send[s] \in Provisional \ {"begun"} => active = NoTurn
        /\ send[s] \notin {"busy", "busyErr"}
        /\ send[s] \in {"gone", "goneOk"} => ~present

\* terminal_pending speaks of the send that is about to claim.
PendingIsOwn ==
    /\ terminalPending =>
          present /\ \E s \in Send : send[s] = "spawned" /\ Told(s)
    /\ \A s \in Send : send[s] \in Claiming /\ present =>
          (terminalPending <=> send[s] = "spawned" /\ Told(s))

\* A turn is installed until the manager has looked at its end, and a turn
\* that was refused has ended.
TurnStands ==
    \A s \in Send :
        /\ send[s] = "ok" /\ present /\ ~Told(s) => active = s
        /\ active = s => ~Heard(s)
        /\ send[s] \in {"ended", "endedOk"} => Told(s)

\* A reader reports once, and only for a process that was spawned.
ReaderFacts ==
    \A s \in Send :
        /\ send[s] \in Unspawned => ~proc[s].term /\ reader[s] = "none"
        /\ reader[s] \in {"event", "store", "clear"} => proc[s].term

Waiting == Alone /\ Undisturbed /\ PendingIsOwn /\ TurnStands /\ ReaderFacts

Waited == Patient => Waiting

\* A send on its way is the only one.
LEMMA OnItsWay ==
    ASSUME TypeOK, Waiting, NEW s \in Send, send[s] \in Provisional
    PROVE  /\ \A r \in Send : r # s =>
                 send[r] \notin Provisional /\ active # r /\ Over(r)
           /\ active = NoTurn
           /\ send[s] # "spawned" => ~terminalPending
<1>1. ~Over(s)
  BY DEF Over, Provisional
<1>2. \A r \in Send : r # s => send[r] \notin Provisional /\ active # r /\ Over(r)
  BY <1>1 DEF Waiting, Alone
<1>3. active # s
  BY NoTurnAssumption DEF TypeOK, Provisional, NoTurnAssumption
<1> QED
  BY <1>2, <1>3 DEF TypeOK, Waiting, PendingIsOwn, Provisional

\* Steps that leave the session, the sends and the readers' reports alone.
LEMMA WaitingFrame ==
    ASSUME Waiting, UNCHANGED <<present, active, terminalPending, send>>,
           \A r \in Send : (Heard(r)' <=> Heard(r)) /\ (Told(r)' <=> Told(r)),
           ReaderFacts'
    PROVE  Waiting'
<1>1. \A r \in Send : Over(r)' <=> Over(r)
  BY DEF Over
<1>2. Alone' /\ Undisturbed'
  BY <1>1 DEF Waiting, Alone, Undisturbed
<1>3. PendingIsOwn' /\ TurnStands'
  BY DEF Waiting, PendingIsOwn, TurnStands
<1> QED
  BY <1>2, <1>3 DEF Waiting

\* kill() leaves what was reported.
LEMMA KillTerm ==
    ASSUME TypeOK, NEW s \in Send \union {NoTurn}, Kill(s), NEW r \in Send
    PROVE  proc'[r].term = proc[r].term
<1>1. proc \in [Send -> Runner] /\ proc[r] \in Runner
  BY DEF TypeOK
<1>2. Killed(proc[r]).term = proc[r].term
  BY <1>1 DEF Killed, Runner
<1>3. proc'[r] = IF r = s /\ hand[r] = "held" THEN Killed(proc[r]) ELSE proc[r]
  BY <1>1, NoTurnAssumption DEF Kill, NoTurnAssumption
<1> QED
  BY <1>2, <1>3

\* A send on its way moves on: what is left to show of each step.
LEMMA SendMoves ==
    ASSUME TypeOK, Waiting, NEW s \in Send, send[s] \in Provisional,
           present' = present,
           \A r \in Send : r # s => /\ send'[r] = send[r] /\ reader'[r] = reader[r]
                                    /\ proc'[r].term = proc[r].term,
           Heard(s)' <=> Heard(s), Told(s)' <=> Told(s),
           active' = IF send'[s] = "ok" THEN s ELSE NoTurn,
           send'[s] \notin {"busy", "busyErr"},
           send'[s] \in {"gone", "goneOk"} => ~present,
           send'[s] \in {"ended", "endedOk"} => Told(s),
           send'[s] = "ok" => ~Heard(s),
           terminalPending' => present /\ send'[s] = "spawned" /\ Told(s),
           send'[s] = "spawned" /\ present /\ Told(s) => terminalPending',
           send'[s] \in Unspawned => ~proc'[s].term /\ reader'[s] = "none",
           reader'[s] \in {"event", "store", "clear"} => proc'[s].term
    PROVE  Waiting'
<1>1. \A r \in Send : r # s => send[r] \notin Provisional /\ active # r /\ Over(r)
  BY OnItsWay
<1>2. \A r \in Send : r # s =>
         (Heard(r)' <=> Heard(r)) /\ (Told(r)' <=> Told(r)) /\ (Over(r)' <=> Over(r))
  BY DEF Heard, Told, Over
<1>3. \A r \in Send : r # s => send'[r] \notin Provisional /\ active' # r /\ Over(r)'
  BY <1>1, <1>2, NoTurnAssumption DEF NoTurnAssumption
<1>4. Alone'
  BY <1>3 DEF Alone
<1>5. Undisturbed'
  <2>1. \A r \in Send : r # s =>
           /\ send'[r] \notin {"busy", "busyErr"}
           /\ send'[r] \in {"gone", "goneOk"} => ~present
    BY DEF Waiting, Undisturbed
  <2> QED
    BY <1>3, <2>1 DEF Undisturbed, Provisional
<1>6. PendingIsOwn'
  <2>1. \A r \in Send : send'[r] \in Claiming => r = s
    BY <1>3 DEF Claiming, Provisional
  <2>2. terminalPending' => \E r \in Send : send'[r] = "spawned" /\ Told(r)'
    OBVIOUS
  <2> QED
    BY <2>1, <2>2 DEF PendingIsOwn
<1>7. TurnStands'
  <2>1. \A r \in Send : r # s /\ send'[r] = "ok" => Told(r)'
    BY <1>1, <1>2 DEF Over, Heard, Told
  <2>2. \A r \in Send : r # s /\ send'[r] \in {"ended", "endedOk"} => Told(r)'
    BY <1>2 DEF Waiting, TurnStands
  <2> QED
    BY <1>3, <2>1, <2>2, NoTurnAssumption DEF TurnStands, NoTurnAssumption
<1>8. ReaderFacts'
  BY DEF ReaderFacts, Waiting
<1> QED
  BY <1>4, <1>5, <1>6, <1>7, <1>8 DEF Waiting

\* A patient caller begins when nothing is on its way and no turn is active.
LEMMA WaitedBegin ==
    ASSUME TypeOK, Waiting, NEW s \in Send, SendBegin(s), ~hasty'
    PROVE  Waiting'
<1>1. \A r \in Send : Over(r)
  BY DEF SendBegin
<1>2. active = NoTurn
  BY <1>1 DEF TypeOK, Waiting, TurnStands, Over
<1>3. /\ UNCHANGED <<present, active, terminalPending, proc, reader>>
      /\ send[s] = "new" /\ send'[s] \in {"begun", "refused"}
      /\ \A r \in Send : r # s => send'[r] = send[r]
  BY DEF SendBegin, SendTo, sessionVars, turnVars, TypeOK
<1>4. \A r \in Send : (Heard(r)' <=> Heard(r)) /\ (Told(r)' <=> Told(r))
  BY <1>3 DEF Heard, Told
<1>5. \A r \in Send : r # s => Over(r)'
  BY <1>1, <1>3, <1>4 DEF Over
<1>6. \A r \in Send : r # s => send'[r] \notin Provisional
  BY <1>1, <1>3 DEF Over, Provisional
<1>7. Alone'
  BY <1>2, <1>3, <1>5, <1>6, NoTurnAssumption DEF Alone, NoTurnAssumption
<1>8. Undisturbed'
  BY <1>2, <1>3 DEF Waiting, Undisturbed, Provisional
<1>9. ~terminalPending /\ \A r \in Send : send'[r] \notin Claiming
  BY <1>1, <1>3, <1>6 DEF Waiting, PendingIsOwn, Over, Claiming, Provisional
<1>10. PendingIsOwn'
  BY <1>3, <1>9 DEF PendingIsOwn
<1>11. TurnStands'
  BY <1>2, <1>3, <1>4, NoTurnAssumption DEF Waiting, TurnStands, NoTurnAssumption
<1>12. ReaderFacts'
  BY <1>3 DEF Waiting, ReaderFacts, Unspawned
<1> QED
  BY <1>7, <1>8, <1>10, <1>11, <1>12 DEF Waiting

LEMMA WaitedSend ==
    ASSUME TypeOK, Waiting, NEW s \in Send, SendNext(s), ~hasty'
    PROVE  Waiting'
<1>1. CASE SendBegin(s)
  BY <1>1, WaitedBegin
<1>2. CASE ~SendBegin(s)
  <2>0. /\ send[s] \in Provisional /\ present' = present
        /\ \A r \in Send : r # s => send'[r] = send[r]
    BY <1>2 DEF SendNext, SendSnapshot, SendMarks, SendPersists, SendPersistFails,
       SendSpawns, SendSpawnFails, SendClaims, SendUnwinds, SendTo, sessionVars,
       ClearAndReap, TypeOK, Provisional
  <2>1. /\ active = NoTurn
        /\ send[s] # "spawned" => ~terminalPending
    BY <2>0, OnItsWay
  <2>2. /\ send[s] = "spawned" /\ present => (terminalPending <=> Told(s))
        /\ terminalPending => present /\ send[s] = "spawned" /\ Told(s)
        /\ send[s] \in {"ended", "endedOk"} => Told(s)
        /\ send[s] \in {"gone", "goneOk"} => ~present
        /\ send[s] # "busy"
        /\ send[s] \in Unspawned => ~proc[s].term /\ reader[s] = "none"
        /\ reader[s] \in {"event", "store", "clear"} => proc[s].term
    <3>1. \A r \in Send : send[r] = "spawned" => r = s
      BY <2>0, OnItsWay DEF Provisional
    <3> QED
      BY <3>1, <2>0 DEF Waiting, PendingIsOwn, TurnStands, Undisturbed, ReaderFacts, Claiming
  <2>3. CASE SendSpawns(s)
    <3>1. /\ send[s] = "persisted" /\ send'[s] = "spawned"
          /\ UNCHANGED <<active, terminalPending>>
          /\ reader' = [reader EXCEPT ![s] = "reading"]
          /\ proc' = [proc EXCEPT ![s].life = "running"]
      BY <2>3 DEF SendSpawns, SendTo, sessionVars, TypeOK
    <3>2. proc \in [Send -> Runner] /\ proc[s] \in Runner /\ DOMAIN reader = Send
      BY DEF TypeOK
    <3>3. /\ \A r \in Send : proc'[r].term = proc[r].term
          /\ \A r \in Send : r # s => reader'[r] = reader[r]
          /\ reader'[s] = "reading" /\ reader[s] = "none" /\ ~proc[s].term
      BY <3>1, <3>2, <2>2 DEF Runner, Unspawned
    <3>4. ~Heard(s) /\ ~Heard(s)' /\ ~Told(s) /\ ~Told(s)'
      BY <3>3 DEF Heard, Told
    <3> QED
      BY <2>0, <2>1, <2>2, <3>1, <3>3, <3>4, SendMoves DEF Unspawned
  <2>4. CASE ~SendSpawns(s)
    <3>1. /\ reader' = reader
          /\ \A r \in Send : proc'[r].term = proc[r].term
      <4>1. CASE SendUnwinds(s)
        BY <4>1, KillTerm DEF SendUnwinds
      <4>2. CASE ~SendUnwinds(s)
        BY <1>2, <2>4, <4>2 DEF SendNext, SendSnapshot, SendMarks, SendPersists,
           SendPersistFails, SendSpawnFails, SendClaims, turnVars
      <4> QED
        BY <4>1, <4>2
    <3>2. /\ Heard(s)' <=> Heard(s)
          /\ Told(s)' <=> Told(s)
      BY <3>1 DEF Heard, Told
    <3>3. CASE SendSnapshot(s) \/ SendMarks(s) \/ SendPersists(s) \/ SendSpawnFails(s)
      <4>1. /\ send[s] \in {"begun", "cleared", "marked", "persisted"}
            /\ send'[s] \in {"cleared", "rejected", "marked", "persisted", "failed"}
            /\ UNCHANGED <<active, terminalPending>>
        BY <3>3 DEF SendSnapshot, SendMarks, SendPersists, SendSpawnFails, SendTo,
           sessionVars, TypeOK
      <4> QED
        BY <2>0, <2>1, <2>2, <3>1, <3>2, <4>1, SendMoves DEF Unspawned
    <3>4. CASE SendPersistFails(s)
      <4>1. /\ send[s] = "marked" /\ send'[s] = "failed"
            /\ active' = NoTurn /\ UNCHANGED terminalPending
        BY <3>4 DEF SendPersistFails, ClearAndReap, SendTo, TypeOK
      <4> QED
        BY <2>0, <2>1, <2>2, <3>1, <3>2, <4>1, SendMoves DEF Unspawned
    <3>5. CASE SendClaims(s)
      <4>1. /\ send[s] = "spawned"
            /\ send'[s] = IF ~present THEN "gone" ELSE IF terminalPending THEN "ended"
                          ELSE "ok"
            /\ active' = IF send'[s] = "ok" THEN s ELSE NoTurn
            /\ terminalPending' <=> terminalPending /\ send'[s] # "ended"
        BY <3>5, <2>1 DEF SendClaims, SendTo, TypeOK
      <4>2. send'[s] = "ok" => ~Heard(s)
        BY <4>1, <2>2 DEF Heard, Told
      <4> QED
        BY <2>0, <2>1, <2>2, <3>1, <3>2, <4>1, <4>2, SendMoves DEF Unspawned
    <3>6. CASE SendUnwinds(s)
      <4>1. /\ \/ send[s] = "ended" /\ send'[s] = "endedOk"
               \/ send[s] = "gone" /\ send'[s] = "goneOk"
            /\ UNCHANGED <<active, terminalPending>>
        BY <3>6, <2>2 DEF SendUnwinds, SendTo, sessionVars, TypeOK
      <4> QED
        BY <2>0, <2>1, <2>2, <3>1, <3>2, <4>1, SendMoves DEF Unspawned
    <3> QED
      BY <1>2, <2>4, <3>3, <3>4, <3>5, <3>6 DEF SendNext
  <2> QED
    BY <2>3, <2>4
<1> QED
  BY <1>1, <1>2

\* Steps of a reader or a process that report nothing yet.
LEMMA WaitedQuiet ==
    ASSUME TypeOK, Waiting, NEW s \in Send,
           ProcNext(s) \/ ReadsEof(s) \/ Waits(s) \/ EventStored(s) \/ DropTurn(s)
    PROVE  Waiting'
<1>0. proc \in [Send -> Runner] /\ proc[s] \in Runner /\ DOMAIN reader = Send
  BY DEF TypeOK
<1>1. UNCHANGED <<present, active, terminalPending, send>>
  BY DEF ProcNext, ProcExits, ReadsTerminal, ReadsClosed, ReadsEof, TakesChild, Waits,
     EventStored, DropTurn, callVars, sessionVars, readerOnly
<1>2. /\ \A r \in Send : r # s => proc'[r] = proc[r] /\ reader'[r] = reader[r]
      /\ \/ proc'[s].term = proc[s].term /\ reader'[s] = reader[s]
         \/ /\ proc'[s].term = proc[s].term
            /\ <<reader[s], reader'[s]>> \in {<<"reading", "waiting">>,
                  <<"waiting", "finished">>, <<"store", "clear">>}
         \/ /\ ~proc[s].term /\ proc'[s].term
            /\ reader[s] \in {"reading", "waiting"} /\ reader'[s] = "event"
  <2>1. CASE \E c \in {"ok", "bad"} : ProcExits(s, c)
    BY <1>0, <2>1 DEF ProcExits, Runner
  <2>2. CASE ReadsTerminal(s)
    BY <1>0, <2>2 DEF ReadsTerminal, ReaderTo, Runner
  <2>3. CASE TakesChild(s)
    BY <1>0, <2>3 DEF TakesChild, ReaderTo, Runner
  <2>4. CASE Waits(s)
    BY <1>0, <2>4 DEF Waits, ReaderTo, Runner
  <2>5. CASE EventStored(s)
    BY <1>0, <2>5 DEF EventStored, ReaderTo
  <2>6. CASE DropTurn(s)
    <3>1. Killed(proc[s]).term = proc[s].term
      BY <1>0 DEF Killed, Runner
    <3> QED
      BY <1>0, <2>6, <3>1 DEF DropTurn
  <2> QED
    BY <2>1, <2>2, <2>3, <2>4, <2>5, <2>6 DEF ProcNext, ReadsClosed, ReadsEof
<1>3. \A r \in Send : (Heard(r)' <=> Heard(r)) /\ (Told(r)' <=> Told(r))
  BY <1>2 DEF Heard, Told
<1>4. ReaderFacts'
  BY <1>1, <1>2 DEF Waiting, ReaderFacts
<1> QED
  BY <1>1, <1>3, <1>4, WaitingFrame

\* Whose reader has a report in hand.
LEMMA Reporter ==
    ASSUME TypeOK, Waiting, NEW s \in Send, reader[s] \in {"event", "store", "clear"}
    PROVE  /\ ~Heard(s) /\ proc[s].term
           /\ \A r \in Send : active = r => r = s
           /\ present /\ send[s] = "spawned" => active = NoTurn
           /\ present => send[s] \in {"spawned", "ok", "ended", "endedOk"}
           /\ present /\ send[s] = "ok" /\ reader[s] = "event" => active = s
           /\ send[s] \in {"ended", "endedOk"} => reader[s] # "event"
<1>1. ~Heard(s) /\ proc[s].term /\ send[s] \notin Unspawned
  BY DEF Heard, Waiting, ReaderFacts
<1>2. /\ send[s] \notin {"busy", "busyErr"}
      /\ send[s] \in {"gone", "goneOk"} => ~present
      /\ send[s] = "spawned" => active = NoTurn
  BY DEF Waiting, Undisturbed, Provisional
<1>3. present => send[s] \in {"spawned", "ok", "ended", "endedOk"}
  BY <1>1, <1>2 DEF TypeOK, Unspawned, Provisional, Returned
<1>4. ASSUME NEW r \in Send, active = r PROVE r = s
  <2>1. present /\ (r # s => Over(s))
    BY <1>4, NoTurnAssumption DEF TypeOK, Waiting, Alone, NoTurnAssumption
  <2> QED
    BY <1>1, <1>3, <2>1 DEF Over
<1>5. /\ present /\ send[s] = "ok" /\ reader[s] = "event" => active = s
      /\ send[s] \in {"ended", "endedOk"} => reader[s] # "event"
  BY DEF Waiting, TurnStands, Told
<1> QED
  BY <1>1, <1>2, <1>3, <1>4, <1>5

LEMMA WaitedChecked ==
    ASSUME TypeOK, Waiting, NEW s \in Send, EventChecked(s)
    PROVE  Waiting'
<1>1. /\ UNCHANGED <<present, active, send, proc>>
      /\ reader[s] = "event"
      /\ reader'[s] \in IF present THEN {"store"} ELSE {"finished", "reading"}
      /\ \A r \in Send : r # s => reader'[r] = reader[r]
      /\ terminalPending' <=> terminalPending \/ (present /\ active = NoTurn)
  BY DEF EventChecked, ReaderTo, Resume, TypeOK, readerOnly, callVars
<1>2. /\ ~Heard(s) /\ proc[s].term
      /\ \A r \in Send : active = r => r = s
      /\ present => send[s] \in {"spawned", "ok"}
      /\ present /\ send[s] = "ok" => active = s
      /\ present /\ send[s] = "spawned" => active = NoTurn
  BY <1>1, Reporter
<1>3. /\ \A r \in Send : r # s => (Heard(r)' <=> Heard(r)) /\ (Told(r)' <=> Told(r))
      /\ Told(s)' /\ ~Told(s)
      /\ Heard(s)' => ~present
  BY <1>1, <1>2 DEF Heard, Told
<1>4. \A r \in Send : Over(r) => Over(r)'
  BY <1>1, <1>2, <1>3 DEF Over
<1>5. Alone'
  BY <1>1, <1>4 DEF Waiting, Alone
<1>6. Undisturbed'
  BY <1>1 DEF Waiting, Undisturbed
<1>7. PendingIsOwn'
  <2>1. CASE present /\ send[s] = "spawned"
    <3>1. \A r \in Send : r # s => send[r] \notin Provisional
      BY <2>1, OnItsWay DEF Provisional
    <3>2. terminalPending' /\ \A r \in Send : send[r] \in Claiming => r = s
      BY <1>1, <1>2, <2>1, <3>1 DEF Claiming, Provisional
    <3> QED
      BY <1>1, <1>3, <2>1, <3>2 DEF PendingIsOwn
  <2>2. CASE present /\ active = s
    <3>1. \A r \in Send : send[r] \notin Claiming
      BY <2>2, NoTurnAssumption
      DEF Waiting, Undisturbed, Claiming, Provisional, NoTurnAssumption
    <3>2. ~terminalPending /\ ~terminalPending'
      BY <1>1, <2>2, <3>1, NoTurnAssumption
      DEF Waiting, PendingIsOwn, Claiming, NoTurnAssumption
    <3> QED
      BY <1>1, <3>1, <3>2 DEF PendingIsOwn
  <2>3. CASE ~present
    <3>1. ~terminalPending /\ ~terminalPending'
      BY <1>1, <2>3 DEF Waiting, PendingIsOwn
    <3> QED
      BY <1>1, <2>3, <3>1 DEF PendingIsOwn
  <2> QED
    BY <1>2, <2>1, <2>2, <2>3
<1>8. TurnStands'
  <2>1. active = s => present
    BY NoTurnAssumption DEF TypeOK, NoTurnAssumption
  <2> QED
    BY <1>1, <1>3, <2>1 DEF Waiting, TurnStands
<1>9. ReaderFacts'
  BY <1>1, <1>2 DEF Waiting, ReaderFacts
<1> QED
  BY <1>5, <1>6, <1>7, <1>8, <1>9 DEF Waiting

\* The end of a turn clears its own turn.
LEMMA WaitedClears ==
    ASSUME TypeOK, Waiting, NEW s \in Send, EventClears(s)
    PROVE  Waiting'
<1>1. /\ UNCHANGED <<present, terminalPending, send, proc>>
      /\ active' = NoTurn
      /\ reader[s] = "clear" /\ reader'[s] \in {"finished", "reading"}
      /\ \A r \in Send : r # s => reader'[r] = reader[r]
  BY DEF EventClears, ClearAndReap, ReaderTo, Resume, TypeOK, readerOnly, callVars
<1>2. proc[s].term /\ \A r \in Send : active = r => r = s
  BY <1>1, Reporter
<1>3. /\ \A r \in Send : r # s => (Heard(r)' <=> Heard(r))
      /\ \A r \in Send : Told(r)' <=> Told(r)
      /\ Heard(s)' /\ Told(s)
  BY <1>1, <1>2 DEF Heard, Told
<1>4. \A r \in Send : Over(r) => Over(r)'
  BY <1>1, <1>3 DEF Over
<1>5. \A r \in Send : active' # r
  BY <1>1, NoTurnAssumption DEF NoTurnAssumption
<1>6. Alone' /\ Undisturbed'
  BY <1>1, <1>4, <1>5 DEF Waiting, Alone, Undisturbed
<1>7. PendingIsOwn'
  BY <1>1, <1>3 DEF Waiting, PendingIsOwn
<1>8. TurnStands'
  BY <1>1, <1>2, <1>3, <1>5 DEF Waiting, TurnStands
<1>9. ReaderFacts'
  BY <1>1, <1>2 DEF Waiting, ReaderFacts
<1> QED
  BY <1>6, <1>7, <1>8, <1>9 DEF Waiting

\* The session is taken out of the map.
LEMMA WaitedRemoved ==
    ASSUME Waiting, ~present', active' = NoTurn, ~terminalPending',
           UNCHANGED <<send, proc, reader>>
    PROVE  Waiting'
<1>1. \A r \in Send : active' # r
  BY NoTurnAssumption DEF NoTurnAssumption
<1>2. \A r \in Send : (Heard(r)' <=> Heard(r)) /\ (Told(r)' <=> Told(r))
  BY DEF Heard, Told
<1>3. \A r \in Send : Over(r)' <=> Over(r)
  BY <1>2 DEF Over
<1>4. Alone' /\ Undisturbed'
  BY <1>1, <1>3 DEF Waiting, Alone, Undisturbed
<1>5. PendingIsOwn' /\ TurnStands' /\ ReaderFacts'
  BY <1>1, <1>2 DEF Waiting, PendingIsOwn, TurnStands, ReaderFacts
<1> QED
  BY <1>4, <1>5 DEF Waiting

\* The session is put into the map for the first time: no send has got far.
LEMMA WaitedStart ==
    ASSUME TypeOK, Prompting, Waiting, NEW t \in Start,
           StartBegin(t) \/ StartFails(t) \/ StartRegister(t), ~Restarted'
    PROVE  Waiting'
<1>1. UNCHANGED <<active, terminalPending, send, proc, reader>>
  BY DEF StartBegin, StartFails, StartRegister, startOnly, sessionVars, turnVars
<1>2. \A r \in Send : (Heard(r)' <=> Heard(r)) /\ (Told(r)' <=> Told(r))
  BY <1>1 DEF Heard, Told
<1>3. \A r \in Send : Over(r)' <=> Over(r)
  BY <1>1, <1>2 DEF Over
<1>4. CASE UNCHANGED present
  BY <1>1, <1>2, <1>4, WaitingFrame DEF Waiting, ReaderFacts
<1>5. CASE ~UNCHANGED present
  <2>1. ~present /\ start[t] = "begun" /\ start'[t] = "done"
        /\ \A u \in Start : u # t => start'[u] = start[u]
    BY <1>5 DEF StartBegin, StartFails, StartRegister, sessionVars, TypeOK
  <2>2. \A u \in Start : start[u] # "done"
    BY <2>1 DEF Restarted
  <2>3. \A r \in Send : send[r] \in {"new", "begun", "refused", "rejected"}
    BY <2>2 DEF Prompting
  <2>4. active = NoTurn /\ ~terminalPending
    BY <2>1 DEF TypeOK, Waiting, PendingIsOwn
  <2>5. Alone' /\ Undisturbed' /\ ReaderFacts'
    BY <1>1, <1>3, <2>3, <2>4
    DEF Waiting, Alone, Undisturbed, ReaderFacts, Provisional
  <2>6. PendingIsOwn' /\ TurnStands'
    BY <1>1, <2>3, <2>4, NoTurnAssumption
    DEF PendingIsOwn, TurnStands, Claiming, NoTurnAssumption
  <2> QED
    BY <2>5, <2>6 DEF Waiting
<1> QED
  BY <1>4, <1>5

LEMMA PatientBefore == TypeOK /\ [Next]_vars /\ Patient' => Patient
<1> SUFFICES ASSUME TypeOK, [Next]_vars, Patient' PROVE Patient
  OBVIOUS
<1>1. CASE UNCHANGED <<start, hasty>>
  BY <1>1 DEF Patient, Restarted
<1>2. CASE \E t \in Start : StartBegin(t) \/ StartRegister(t) \/ StartFails(t)
  <2>1. PICK t \in Start : StartBegin(t) \/ StartRegister(t) \/ StartFails(t)
    BY <1>2
  <2>2. hasty' = hasty /\ start[t] # "done" /\ \A u \in Start : u # t => start'[u] = start[u]
    BY <2>1 DEF StartBegin, StartFails, StartRegister, startOnly, TypeOK
  <2> QED
    BY <2>2 DEF Patient, Restarted
<1>3. CASE \E s \in Send : SendBegin(s)
  BY <1>3 DEF SendBegin, Patient, Restarted
<1>4. \/ UNCHANGED <<start, hasty>>
      \/ \E t \in Start : StartBegin(t) \/ StartRegister(t) \/ StartFails(t)
      \/ \E s \in Send : SendBegin(s)
  BY DEF Next, SendNext, SendSnapshot, SendMarks, SendPersists, SendPersistFails,
     SendSpawns, SendSpawnFails, SendClaims, SendUnwinds, otherCalls, ProcNext, ReaderNext,
     DropTurn, ProcExits, ReadsTerminal, ReadsClosed, ReadsEof, TakesChild, Waits,
     EventChecked, EventStored, EventClears, readerOnly, callVars, StopReads, StopKills,
     stopOnly, DisposeNext, DisposeRemoves, DisposeKills, DisposeMarks, disposeOnly,
     DownNext, DownCloses, DownMarks, DownDrains, DownStops, DownJoins, downOnly, vars
<1> QED
  BY <1>1, <1>2, <1>3, <1>4

\* Kills of interrupt(), dispose() and shutdown().
LEMMA WaitedKill ==
    ASSUME TypeOK, Waiting, NEW s \in Send \union {NoTurn}, Kill(s),
           UNCHANGED <<present, active, terminalPending, send, reader>>
    PROVE  Waiting'
<1>1. \A r \in Send : proc'[r].term = proc[r].term
  BY KillTerm
<1>2. \A r \in Send : (Heard(r)' <=> Heard(r)) /\ (Told(r)' <=> Told(r))
  BY <1>1 DEF Heard, Told
<1>3. ReaderFacts'
  BY <1>1 DEF Waiting, ReaderFacts
<1> QED
  BY <1>2, <1>3, WaitingFrame

LEMMA WaitedCalls ==
    ASSUME TypeOK, Closing, Waiting,
           \/ \E i \in Stop : StopReads(i) \/ StopKills(i)
           \/ \E d \in Dispose : DisposeNext(d)
           \/ DownNext
    PROVE  Waiting'
<1>1. CASE \E i \in Stop : StopKills(i)
  <2>1. PICK i \in Stop : StopKills(i)
    BY <1>1
  <2>2. Kill(stop[i].turn) /\ stop[i].turn \in Send \union {NoTurn}
    BY <2>1 DEF StopKills, TypeOK
  <2>3. UNCHANGED <<present, active, terminalPending, send, reader>>
    BY <2>1 DEF StopKills, stopOnly, sessionVars
  <2> QED
    BY <2>2, <2>3, WaitedKill
<1>2. CASE \E d \in Dispose : DisposeKills(d)
  <2>1. PICK d \in Dispose : DisposeKills(d)
    BY <1>2
  <2>2. Kill(dispose[d].turn) /\ dispose[d].turn \in Send \union {NoTurn}
    BY <2>1 DEF DisposeKills, TypeOK
  <2>3. UNCHANGED <<present, active, terminalPending, send, reader>>
    BY <2>1 DEF DisposeKills, disposeOnly, sessionVars
  <2> QED
    BY <2>2, <2>3, WaitedKill
<1>3. CASE DownStops
  <2>1. Kill(down.turn) /\ down.turn \in Send
    BY <1>3 DEF DownStops, DownTo, Closing
  <2>2. UNCHANGED <<present, active, terminalPending, send, reader>>
    BY <1>3 DEF DownStops, downOnly, sessionVars
  <2> QED
    BY <2>1, <2>2, WaitedKill
<1>4. CASE (\E d \in Dispose : DisposeRemoves(d)) \/ DownDrains
  BY <1>4, WaitedRemoved DEF DisposeRemoves, disposeOnly, DownDrains, downOnly, turnVars
<1>5. CASE UNCHANGED <<present, active, terminalPending, send, proc, reader>>
  BY <1>5, WaitingFrame DEF Heard, Told, Waiting, ReaderFacts
<1> QED
  BY <1>1, <1>2, <1>3, <1>4, <1>5
  DEF StopReads, stopOnly, DisposeNext, DisposeMarks, disposeOnly, DownNext, DownCloses,
      DownMarks, DownJoins, downOnly, sessionVars, turnVars

LEMMA WaitedStep == TypeOK /\ Closing /\ Prompting /\ Waited /\ [Next]_vars => Waited'
<1> SUFFICES ASSUME TypeOK, Closing, Prompting, Waited, [Next]_vars, Patient'
             PROVE  Waiting'
  BY DEF Waited
<1>1. Waiting /\ ~hasty' /\ ~Restarted'
  BY PatientBefore DEF Waited, Patient
<1>2. CASE \E t \in Start : StartBegin(t) \/ StartRegister(t) \/ StartFails(t)
  BY <1>1, <1>2, WaitedStart
<1>3. CASE \E s \in Send : SendNext(s)
  BY <1>1, <1>3, WaitedSend
<1>4. CASE \E s \in Send : ProcNext(s) \/ ReaderNext(s) \/ DropTurn(s)
  BY <1>1, <1>4, WaitedQuiet, WaitedChecked, WaitedClears DEF ReaderNext
<1>5. CASE UNCHANGED vars
  BY <1>1, <1>5, WaitingFrame
  DEF vars, sessionVars, callVars, turnVars, Heard, Told, Waiting, ReaderFacts
<1> QED
  BY <1>1, <1>2, <1>3, <1>4, <1>5, WaitedCalls DEF Next

-----------------------------------------------------------------------------
(* The theorems.                                                             *)

IInv == TypeOK /\ HandsKill /\ Closing /\ Owned /\ Drained /\ Prompting /\ Waited

\* The inductive invariant holds of every behaviour.
THEOREM TurnsInvariant == Spec => []IInv
<1>1. Init => IInv
  <2>1. Init => TypeOK
    BY InitTypeOK
  <2>2. Init => HandsKill /\ Closing /\ Owned /\ Drained /\ Prompting
    BY DEF Init, HandsKill, Closing, Owned, Drained, Prompting
  <2>3. Init => Waiting
    BY NoTurnAssumption
    DEF Init, Waiting, Alone, Undisturbed, PendingIsOwn, TurnStands, ReaderFacts,
        Provisional, Claiming, NoTurnAssumption
  <2> QED
    BY <2>1, <2>2, <2>3 DEF IInv, Waited
<1>2. IInv /\ [Next]_vars => IInv'
  BY TypeStep, HandsStep, ClosingStep, OwnedStep, DrainedStep, PromptStep, WaitedStep
  DEF IInv
<1> QED
  BY <1>1, <1>2, PTL DEF Spec

\* Owned: a runner that can still be signalled always has somebody who will
\* clear it, kill it or keep it as the session's turn (claim_turn, dispose,
\* finish_runner_turn, abort_send, shutdown of manager.rs).
THEOREM TurnsOwned == Spec => []Owned
<1>1. IInv => Owned
  BY DEF IInv
<1> QED
  BY <1>1, TurnsInvariant, PTL

\* ShutdownIsFinal: after shutdown() has drained the map no session, no call
\* and no unowned runner is left, for any number of calls in flight.
THEOREM TurnsShutdownIsFinal == Spec => []ShutdownIsFinal
<1>1. IInv => ShutdownIsFinal
  BY NoTurnAssumption
  DEF IInv, Drained, Owned, Owner, Quiet, Provisional, ShutdownIsFinal, NoTurnAssumption
<1> QED
  BY <1>1, TurnsInvariant, PTL

\* NoPhantomPrompt: a send that has returned without a turn that has run has
\* taken its prompt back, whatever dispose(), shutdown() and the other sends do
\* meanwhile (dispatch_v1_turn and rollback_send_prompt of manager.rs).
THEOREM TurnsNoPhantomPrompt == Spec => []NoPhantomPrompt
<1>1. IInv => NoPhantomPrompt
  BY DEF IInv, TypeOK, Prompting, NoPhantomPrompt, Returned
<1> QED
  BY <1>1, TurnsInvariant, PTL

\* OwnTerminal: to a caller that waits for the end of each turn, no send loses
\* its claim or its turn to another one (claim_turn, terminal_should_skip and
\* finish_runner_turn of manager.rs).
THEOREM TurnsOwnTerminal == Spec => []OwnTerminal
<1>1. IInv => OwnTerminal
  BY DEF IInv, Waited, Patient, Waiting, Undisturbed, TurnStands, Told, OwnTerminal
<1> QED
  BY <1>1, TurnsInvariant, PTL

-----------------------------------------------------------------------------
(* The turns: the start permits.                                            *)

\* A call that gets a permit begins as the gate allows.
LEMMA PermitTaken ==
    ASSUME NEW c \in Call, IsFiniteSet(Permits), c \notin Permits,
           Permits' = Permits \union {c}, ~closed, UNCHANGED <<closed, down>>
    PROVE  Gate!Begin(c) /\ IsFiniteSet(Permits')
<1> DEFINE held == [x \in Call |-> IF x \in Permits THEN "in" ELSE "out"]
<1>1. IsFiniteSet(Permits') /\ Cardinality(Permits') = Cardinality(Permits) + 1
  BY FS_AddElement
<1>2. held[c] = "out" /\ held' = [held EXCEPT ![c] = "in"]
  OBVIOUS
<1> QED
  BY <1>1, <1>2 DEF Gate!Begin

\* One that drops it drops it as the gate allows.
LEMMA PermitDropped ==
    ASSUME NEW c \in Call, IsFiniteSet(Permits), c \in Permits,
           Permits' = Permits \ {c}, UNCHANGED <<closed, down>>
    PROVE  Gate!Drop(c) /\ IsFiniteSet(Permits')
<1> DEFINE held == [x \in Call |-> IF x \in Permits THEN "in" ELSE "out"]
           wait == [d \in {"shutdown"} |->
                      CASE down.pc = "new" -> "idle"
                        [] down.pc \in {"closed", "waiting"} -> "closed"
                        [] OTHER -> "quiet"]
<1>1. IsFiniteSet(Permits') /\ Cardinality(Permits') = Cardinality(Permits) - 1
  BY FS_RemoveElement
<1>2. held[c] = "in" /\ held' = [held EXCEPT ![c] = "out"]
  OBVIOUS
<1>3. Gate!Notified = wait
  BY DEF Gate!Notified
<1>4. wait' = wait
  OBVIOUS
<1> QED
  BY <1>1, <1>2, <1>3, <1>4 DEF Gate!Drop

\* A step that leaves the permits and shutdown's place alone is none of the gate's.
LEMMA PermitsStay ==
    ASSUME IsFiniteSet(Permits), Permits' = Permits, UNCHANGED <<closed, down>>
    PROVE  UNCHANGED Gate!gateVars /\ IsFiniteSet(Permits')
  BY DEF Gate!gateVars

\* A send holds a permit exactly in its provisional interval,
LEMMA SendPermits ==
    ASSUME TypeOK, NEW s \in Send, NEW v, send' = [send EXCEPT ![s] = v], UNCHANGED start
    PROVE  /\ <<"send", s>> \in Call
           /\ <<"send", s>> \in Permits <=> send[s] \in Provisional
           /\ Permits' = IF v \in Provisional THEN Permits \union {<<"send", s>>}
                                              ELSE Permits \ {<<"send", s>>}
<1>1. <<"send", s>> \in Call
  BY DEF Call
<1>2. \A x \in Send : send'[x] = IF x = s THEN v ELSE send[x]
  BY DEF TypeOK
<1>3. ASSUME NEW c \in Call
      PROVE  c \in Permits' <=> IF c = <<"send", s>> THEN v \in Provisional ELSE c \in Permits
  <2>1. CASE c \in {"send"} \X Send
    <3>1. PICK x \in Send : c = <<"send", x>>
      BY <2>1
    <3> QED
      BY <1>2, <3>1 DEF Permits, Call
  <2>2. CASE c \in {"start"} \X Start
    <3>1. PICK t \in Start : c = <<"start", t>>
      BY <2>2
    <3> QED
      BY <3>1 DEF Permits, Call
  <2> QED
    BY <2>1, <2>2 DEF Call
<1> QED
  BY <1>1, <1>3 DEF Permits

\* and a start while it has begun.
LEMMA StartPermits ==
    ASSUME TypeOK, NEW t \in Start, NEW v, start' = [start EXCEPT ![t] = v], UNCHANGED send
    PROVE  /\ <<"start", t>> \in Call
           /\ <<"start", t>> \in Permits <=> start[t] = "begun"
           /\ Permits' = IF v = "begun" THEN Permits \union {<<"start", t>>}
                                        ELSE Permits \ {<<"start", t>>}
<1>1. <<"start", t>> \in Call
  BY DEF Call
<1>2. \A x \in Start : start'[x] = IF x = t THEN v ELSE start[x]
  BY DEF TypeOK
<1>3. ASSUME NEW c \in Call
      PROVE  c \in Permits' <=> IF c = <<"start", t>> THEN v = "begun" ELSE c \in Permits
  <2>1. CASE c \in {"send"} \X Send
    <3>1. PICK s \in Send : c = <<"send", s>>
      BY <2>1
    <3> QED
      BY <3>1 DEF Permits, Call
  <2>2. CASE c \in {"start"} \X Start
    <3>1. PICK x \in Start : c = <<"start", x>>
      BY <2>2
    <3> QED
      BY <1>2, <3>1 DEF Permits, Call
  <2> QED
    BY <2>1, <2>2 DEF Call
<1> QED
  BY <1>1, <1>3 DEF Permits

\* What a step makes of the gate.
GateStep == [Gate!GateNext]_(Gate!gateVars) /\ IsFiniteSet(Permits')

\* A step of a send keeps its permit, or takes it before anything else and drops
\* it after everything else.
LEMMA SendStepsGate ==
    ASSUME TypeOK, IsFiniteSet(Permits), NEW s \in Send, SendNext(s)
    PROVE  GateStep
<1> USE DEF GateStep, Gate!GateNext
<1>0. UNCHANGED <<closed, start, down>>
  BY DEF SendNext, SendBegin, SendSnapshot, SendMarks, SendPersists, SendPersistFails,
     SendSpawns, SendSpawnFails, SendClaims, SendUnwinds, gateVars, otherCalls
<1>1. PICK v : send' = [send EXCEPT ![s] = v]
               /\ \/ send[s] = "new" /\ v = IF closed THEN "refused" ELSE "begun"
                  \/ send[s] \in Provisional
  BY DEF SendNext, SendBegin, SendSnapshot, SendMarks, SendPersists, SendPersistFails,
     SendSpawns, SendSpawnFails, SendClaims, SendUnwinds, SendTo, Provisional
<1>2. /\ <<"send", s>> \in Call
      /\ <<"send", s>> \in Permits <=> send[s] \in Provisional
      /\ Permits' = IF v \in Provisional THEN Permits \union {<<"send", s>>}
                                         ELSE Permits \ {<<"send", s>>}
  BY <1>0, <1>1, SendPermits
<1>3. CASE send[s] \notin Provisional /\ v \in Provisional
  <2>1. ~closed
    BY <1>1, <1>3 DEF Provisional
  <2> QED
    BY <1>0, <1>2, <1>3, <2>1, PermitTaken
<1>4. CASE send[s] \in Provisional /\ v \notin Provisional
  BY <1>0, <1>2, <1>4, PermitDropped
<1>5. CASE send[s] \in Provisional <=> v \in Provisional
  <2>1. Permits' = Permits
    BY <1>2, <1>5
  <2> QED
    BY <1>0, <2>1, PermitsStay
<1> QED
  BY <1>3, <1>4, <1>5

\* A start takes its permit, and drops it when it has registered or failed.
LEMMA StartStepsGate ==
    ASSUME TypeOK, IsFiniteSet(Permits), NEW t \in Start,
           StartBegin(t) \/ StartRegister(t) \/ StartFails(t)
    PROVE  GateStep
<1> USE DEF GateStep, Gate!GateNext
<1>0. UNCHANGED <<closed, send, down>>
  BY DEF StartBegin, StartRegister, StartFails, gateVars, startOnly
<1>1. CASE StartBegin(t)
  <2>1. start[t] = "new" /\ ~closed /\ start' = [start EXCEPT ![t] = "begun"]
    BY <1>1 DEF StartBegin
  <2>2. /\ <<"start", t>> \in Call /\ <<"start", t>> \notin Permits
        /\ Permits' = Permits \union {<<"start", t>>}
    BY <1>0, <2>1, StartPermits
  <2> QED
    BY <1>0, <2>1, <2>2, PermitTaken
<1>2. CASE StartRegister(t) \/ StartFails(t)
  <2>1. PICK v \in {"done", "failed"} :
          start[t] = "begun" /\ start' = [start EXCEPT ![t] = v]
    BY <1>2 DEF StartRegister, StartFails
  <2>2. /\ <<"start", t>> \in Call /\ <<"start", t>> \in Permits
        /\ Permits' = Permits \ {<<"start", t>>}
    BY <1>0, <2>1, StartPermits
  <2> QED
    BY <1>0, <2>2, PermitDropped
<1> QED
  BY <1>1, <1>2

\* shutdown closes the gate, and waits until it is empty.
LEMMA DownStepsGate ==
    ASSUME TypeOK, IsFiniteSet(Permits), DownNext
    PROVE  GateStep
<1> DEFINE held == [x \in Call |-> IF x \in Permits THEN "in" ELSE "out"]
           wait == [d \in {"shutdown"} |->
                      CASE down.pc = "new" -> "idle"
                        [] down.pc \in {"closed", "waiting"} -> "closed"
                        [] OTHER -> "quiet"]
<1> USE DEF GateStep, Gate!GateNext
<1>1. UNCHANGED <<send, start>>
  BY DEF DownNext, DownCloses, DownMarks, DownDrains, DownStops, DownJoins, downOnly
<1>2. Permits' = Permits
  BY <1>1 DEF Permits
<1>3. held' = held /\ IsFiniteSet(Permits') /\ Cardinality(Permits') = Cardinality(Permits)
  BY <1>2
<1>4. CASE DownCloses
  <2>1. down.pc = "new" /\ down'.pc = "closed" /\ closed' = TRUE
    BY <1>4 DEF DownCloses, DownTo, TypeOK
  <2>2. wait["shutdown"] = "idle" /\ wait' = [wait EXCEPT !["shutdown"] = "closed"]
    BY <2>1
  <2>3. Gate!Close("shutdown")
    BY <1>3, <2>1, <2>2 DEF Gate!Close
  <2> QED
    BY <1>3, <2>3
<1>5. CASE DownDrains
  <2>1. /\ down.pc = "waiting" /\ down'.pc \in {"done", "stopping"}
        /\ Quiet /\ UNCHANGED closed
    BY <1>5 DEF DownDrains, gateVars
  <2>2. Permits = {}
    BY <2>1 DEF Quiet, Permits, Call
  <2>3. Cardinality(Permits) = 0
    BY <2>2, FS_EmptySet
  <2>4. wait["shutdown"] = "closed" /\ wait' = [wait EXCEPT !["shutdown"] = "quiet"]
    BY <2>1
  <2>5. Gate!Wait("shutdown")
    BY <1>3, <2>1, <2>3, <2>4 DEF Gate!Wait, Gate!LoopHead
  <2> QED
    BY <1>3, <2>5
<1>6. CASE DownMarks \/ DownStops \/ DownJoins
  <2>1. /\ <<down.pc, down'.pc>> \in {<<"closed", "waiting">>, <<"stopping", "joining">>,
                                      <<"joining", "done">>}
        /\ UNCHANGED closed
    BY <1>6 DEF DownMarks, DownStops, DownJoins, DownTo, TypeOK, gateVars
  <2>2. wait' = wait
    BY <2>1
  <2>3. UNCHANGED Gate!gateVars
    BY <1>3, <2>1, <2>2 DEF Gate!gateVars
  <2> QED
    BY <1>3, <2>3
<1> QED
  BY <1>4, <1>5, <1>6 DEF DownNext

\* Nobody else touches the gate.
LEMMA TurnStepsGate ==
    ASSUME TypeOK, IsFiniteSet(Permits), [Next]_vars
    PROVE  GateStep
<1>1. ASSUME UNCHANGED <<closed, send, start, down>>
      PROVE  GateStep
  <2>1. Permits' = Permits
    BY <1>1 DEF Permits
  <2> QED
    BY <1>1, <2>1, PermitsStay DEF GateStep
<1>2. ASSUME NEW t \in Start, StartBegin(t) \/ StartRegister(t) \/ StartFails(t)
      PROVE  GateStep
  BY <1>2, StartStepsGate
<1>3. ASSUME NEW s \in Send, SendNext(s) \/ ProcNext(s) \/ ReaderNext(s) \/ DropTurn(s)
      PROVE  GateStep
  <2>1. CASE SendNext(s)
    BY <2>1, SendStepsGate
  <2>2. CASE ProcNext(s) \/ ReaderNext(s) \/ DropTurn(s)
    BY <1>1, <2>2
       DEF ProcNext, ReaderNext, ProcExits, ReadsTerminal, ReadsClosed, ReadsEof,
           TakesChild, Waits, EventChecked, EventStored, EventClears, DropTurn,
           readerOnly, gateVars, callVars
  <2> QED
    BY <1>3, <2>1, <2>2
<1>4. ASSUME NEW i \in Stop, StopReads(i) \/ StopKills(i)
      PROVE  GateStep
  BY <1>1, <1>4 DEF StopReads, StopKills, gateVars, stopOnly
<1>5. ASSUME NEW d \in Dispose, DisposeNext(d)
      PROVE  GateStep
  BY <1>1, <1>5
     DEF DisposeNext, DisposeRemoves, DisposeKills, DisposeMarks, gateVars, disposeOnly
<1>6. CASE DownNext
  BY <1>6, DownStepsGate
<1>7. CASE UNCHANGED vars
  BY <1>1, <1>7 DEF vars, gateVars, callVars
<1> QED
  BY <1>2, <1>3, <1>4, <1>5, <1>6, <1>7 DEF Next

\* start, send and shutdown use the gate as its own specification allows: the
\* permits of AgentChatManager implement StartGate, and the wait of shutdown is
\* over when no call is left in its provisional interval.
THEOREM TurnsImplementGate == Spec => GateSpec
<1>1. Init => Permits = {}
  BY DEF Init, Permits, Call, Provisional
<1>2. Init => Gate!GateInit /\ IsFiniteSet(Permits)
  <2> SUFFICES ASSUME Init PROVE Gate!GateInit /\ IsFiniteSet(Permits)
    OBVIOUS
  <2>1. IsFiniteSet(Permits) /\ Cardinality(Permits) = 0
    BY <1>1, FS_EmptySet
  <2>2. closed = FALSE /\ down.pc = "new"
    BY DEF Init
  <2> QED
    BY <1>1, <2>1, <2>2 DEF Gate!GateInit
<1>3. TypeOK /\ IsFiniteSet(Permits) /\ [Next]_vars =>
        [Gate!GateNext]_(Gate!gateVars) /\ IsFiniteSet(Permits)'
  BY TurnStepsGate DEF GateStep
<1>4. Spec => []IsFiniteSet(Permits)
  BY <1>2, <1>3, TurnsTypeOK, PTL DEF Spec
<1> QED
  BY <1>2, <1>3, <1>4, TurnsTypeOK, PTL DEF Spec, GateSpec, Gate!GateSpec
=============================================================================
