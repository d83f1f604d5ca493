------------------------- MODULE CodexTurns_proofs -------------------------
(***************************************************************************)
(* Theorems about CodexTurns for any sends, any finite set of callers of   *)
(* interrupt and dispose, overlapping or not, any bound on the timeouts,   *)
(* sends in series or together.                                            *)
(***************************************************************************)
EXTENDS CodexTurns, FiniteSetTheorems, SequenceTheorems, TLAPS

\* TypeOK in parts: the flags, the sets and places, the channels, the turn the
\* session has; the counts are in Credit.
FlagsOK == present \in BOOLEAN /\ armed \in BOOLEAN /\ starting \in BOOLEAN /\ alive \in BOOLEAN

PlacesOK ==
    /\ active \in Send \union {NoTurn} /\ running \in Send \union {NoTurn}
    /\ expected \in Send \union {NoTurn}
    /\ handle \in [Send -> {"none", "held", "empty"}]
    /\ turnId \subseteq Send /\ pint \subseteq Send /\ prompts \subseteq Send
    /\ deferred \subseteq Send /\ orphans \subseteq Send /\ pending \subseteq Send
    /\ swept \subseteq Send
    /\ taken \in [Send -> SUBSET Send]
    /\ closing \in {"open", "failing", "telling", "closed"}
    /\ timeouts \in 0 .. MaxTimeouts

SendsOK ==
    /\ send \in [Send -> Before \union {"waiting"} \union Finishing \union Ending \union Returned]
    /\ result \in [Send -> {"none", "ok", "error", "timeout"}]

KillsOK == kill \in [Killer -> [pc : {"new", "kill", "read", "swap", "reap", "done"},
                                turn : Send \union {NoTurn}, disposes : BOOLEAN]]

LinesOK ==
    /\ reader \in [pc : {"idle", "armed", "expected", "starting", "defer", "disarm",
                         "sweep", "orphan", "event", "clear"},
                   line : Line \union {NoLine}]
    /\ reader.pc # "idle" => reader.line \in Line
    /\ asked \in Seq(Send) /\ lines \in Seq(Line)

HeldOK == active # NoTurn => present /\ handle[active] = "held"

\* A kill that is not done has a turn, and a dispose has taken the session.
Kills ==
    /\ \A k \in Killer : kill[k].pc \in {"kill", "read", "swap", "reap"} => kill[k].turn \in Send
    /\ \A k \in Killer : kill[k].pc = "new" => kill[k].turn = NoTurn /\ ~kill[k].disposes
    /\ \A k \in Killer : kill[k].pc = "reap" => kill[k].disposes
    /\ \A k \in Killer : kill[k].disposes => ~present

\* A send that waits without an answer has its sender in the map.  The closing
\* client empties it, and who comes later has yet to read the flag.
Answered ==
    /\ \A s \in Send : send[s] \in {"asks", "waiting"} /\ result[s] = "none" => s \in pending
    /\ closing \in {"telling", "closed"} => \A s \in pending : send[s] = "asks"

\* The turn of a chat whose client is closed belongs to a send that has yet to
\* find that out, or has found out and will clear it.
Doomed(s) ==
    \/ send[s] \in {"claimed", "persisted", "armed", "begun", "asks", "fail"}
    \/ send[s] \in {"clear", "take", "disarm", "sweep", "unwind"} /\ result[s] # "ok"

Freed == closing = "closed" /\ active # NoTurn => Doomed(active)

\* A send that may fire has published its id, and only a kill that is past
\* its arming leaves a flag armed behind a send that has returned.
Armed ==
    /\ \A s \in Send : send[s] \in {"swap", "ok"} => s \in turnId
    /\ \A s \in pint : send[s] = "ok" =>
          \E k \in Killer : kill[k].turn = s /\ kill[k].pc \in {"read", "swap"}

\* The kills of a turn that have armed it, or found it gone.
Asking(s) == {k \in Killer : kill[k].turn = s /\ kill[k].pc # "kill"}

\* An armed flag is a request that has been asked for and not been made.
Credit ==
    /\ fired \in [Send -> Nat]
    /\ \A s \in Send : fired[s] + (IF s \in pint THEN 1 ELSE 0) <= Cardinality(Asking(s))

IInv == /\ FlagsOK /\ PlacesOK /\ SendsOK /\ KillsOK /\ LinesOK /\ HeldOK
        /\ Kills /\ Answered /\ Freed /\ Armed /\ Credit

-----------------------------------------------------------------------------
(* Frames                                                                    *)

\* A part that mentions only what a step leaves alone is kept.
LEMMA Frame ==
    /\ UNCHANGED <<present, armed, starting, alive>> /\ FlagsOK => FlagsOK'
    /\ UNCHANGED <<active, running, expected, handle,
                   turnId, pint, prompts, deferred, orphans,
                   pending, swept, taken, closing, timeouts>>
       /\ PlacesOK => PlacesOK'
    /\ UNCHANGED <<send, result>> /\ SendsOK => SendsOK'
    /\ UNCHANGED <<kill>> /\ KillsOK => KillsOK'
    /\ UNCHANGED <<reader, asked, lines>> /\ LinesOK => LinesOK'
    /\ UNCHANGED <<active, present, handle>> /\ HeldOK => HeldOK'
    /\ UNCHANGED <<kill, present>> /\ Kills => Kills'
    /\ UNCHANGED <<send, result, pending, closing>> /\ Answered => Answered'
    /\ UNCHANGED <<closing, active, send, result>> /\ Freed => Freed'
    /\ UNCHANGED <<send, turnId, pint, kill>> /\ Armed => Armed'
    /\ UNCHANGED <<fired, pint, kill>> /\ Credit => Credit'
BY DEF FlagsOK, PlacesOK, SendsOK, KillsOK, LinesOK, HeldOK, Kills, Answered, Freed, Doomed,
   Armed, Credit, Asking

-----------------------------------------------------------------------------
(* The count of interrupts                                                   *)

LEMMA Askers ==
    ASSUME NEW s
    PROVE  IsFiniteSet(Asking(s)) /\ Cardinality(Asking(s)) \in Nat
           /\ Cardinality(Asking(s)) <= Cardinality(Killer)
<1>1. Asking(s) \subseteq Killer
  BY DEF Asking
<1>2. QED
  BY <1>1, KillerAssumption, FS_Subset, FS_CardinalityType

\* A flag taken back pays for the request it makes.
LEMMA Spent ==
    ASSUME IInv, NEW s \in Send, pint' = pint \ {s}, \A t \in Send : Asking(t)' = Asking(t),
           \/ s \in pint /\ Fire(s)
           \/ UNCHANGED fired
    PROVE  Credit'
BY Askers DEF IInv, Credit, Fire

\* A kill that arms a turn may be the second to do so.
LEMMA Asked ==
    ASSUME IInv, NEW k \in Killer, KillArms(k)
    PROVE  Credit'
<1>s. PICK s \in Send : s = kill[k].turn
  BY DEF IInv, Kills, KillArms
<1>0. /\ kill[k].turn = s /\ kill[k].pc = "kill" /\ pint' \in {pint, pint \union {s}} /\ fired' = fired
      /\ kill' \in [Killer -> [pc : {"new", "kill", "read", "swap", "reap", "done"},
                              turn : Send \union {NoTurn}, disposes : BOOLEAN]]
      /\ kill'[k].turn = s /\ kill'[k].pc # "kill"
      /\ \A j \in Killer \ {k} : kill'[j] = kill[j]
  BY <1>s DEF IInv, KillsOK, KillArms, AfterKill, sentVars
<1>1. \A t \in Send \ {s} : Asking(t)' = Asking(t)
  BY <1>0 DEF Asking
<1>2. Asking(s)' = Asking(s) \union {k} /\ k \notin Asking(s)
  BY <1>0 DEF Asking
<1>3. Cardinality(Asking(s)') = Cardinality(Asking(s)) + 1
  BY <1>2, Askers, FS_AddElement
<1>4. \A t \in Send : Cardinality(Asking(t)) \in Nat
  BY Askers
<1>5. ASSUME NEW t \in Send
      PROVE  fired'[t] + (IF t \in pint' THEN 1 ELSE 0) <= Cardinality(Asking(t)')
  <2>1. CASE t = s
    <3>1. fired[s] \in Nat /\ fired[s] <= Cardinality(Asking(s))
      BY <1>0, <1>4 DEF IInv, Credit
    <3>2. fired'[s] + (IF s \in pint' THEN 1 ELSE 0) <= Cardinality(Asking(s)')
      BY <1>0, <1>3, <1>4, <3>1
    <3>3. QED
      BY <2>1, <3>2
  <2>2. CASE t # s
    BY <1>0, <1>1, <1>4, <2>2 DEF IInv, Credit
  <2>3. QED
    BY <2>1, <2>2
<1>6. QED
  BY <1>0, <1>5 DEF IInv, Credit


-----------------------------------------------------------------------------
(* The steps                                                                 *)

\* send(), up to the answer and after it.
LEMMA SendKeeps ==
    ASSUME IInv, NEW s \in Send,
           \/ SendBegins(s) \/ SendMoves(s) \/ SendGetsClient(s) \/ SendClaims(s)
           \/ SendPersists(s) \/ SendPersistFails(s) \/ SendArms(s) \/ SendStarts(s)
           \/ SendPends(s) \/ SendAsks(s) \/ SendAskFails(s) \/ SendHears(s) \/ SendTimesOut(s)
           \/ SendExpects(s) \/ SendClearsStarting(s) \/ SendTakes(s) \/ SendDisarms(s)
           \/ SendSweeps(s) \/ SendLooks(s) \/ SendPublishes(s) \/ SendSwaps(s)
           \/ SendFindsGone(s) \/ SendRollsBack(s) \/ SendFails(s)
    PROVE  IInv'
<1> USE DEF IInv
<1>1. CASE SendBegins(s)
  <2>1. FlagsOK' /\ PlacesOK' /\ KillsOK' /\ LinesOK' /\ HeldOK' /\ Kills' /\ Credit'
    BY <1>1, Frame DEF SendBegins, To, sessionVars, threadVars, clientVars, serverVars,
       sentVars, sendRest
  <2>2. SendsOK'
    BY <1>1 DEF SendBegins, To, sessionVars, threadVars, clientVars, serverVars, sentVars,
       sendRest, SendsOK, LinesOK, Before, Finishing, Ending, Returned
  <2>3. Answered'
    BY <1>1 DEF SendBegins, To, sessionVars, threadVars, clientVars, serverVars, sentVars,
       sendRest, Answered, SendsOK, PlacesOK
  <2>4. Freed'
    BY <1>1, SendAssumption DEF SendBegins, To, sessionVars, threadVars, clientVars,
       serverVars, sentVars, sendRest, Freed, Doomed, SendsOK, PlacesOK, HeldOK, Answered
  <2>5. Armed'
    BY <1>1 DEF SendBegins, To, sessionVars, threadVars, clientVars, serverVars, sentVars,
       sendRest, Armed, SendsOK, PlacesOK, KillsOK
  <2>6. QED
    BY <2>1, <2>2, <2>3, <2>4, <2>5
<1>2. CASE SendMoves(s)
  <2>1. FlagsOK' /\ KillsOK' /\ LinesOK' /\ Kills' /\ Credit'
    BY <1>2, Frame DEF SendMoves, To, ClearAndReap, Open, threadVars, clientVars,
       serverVars, sentVars, sendRest
  <2>2. PlacesOK'
    BY <1>2, SendAssumption DEF SendMoves, To, ClearAndReap, Open, threadVars, clientVars,
       serverVars, sentVars, sendRest, PlacesOK, SendsOK, KillsOK, Kills, HeldOK, LinesOK,
       Line
  <2>3. SendsOK'
    BY <1>2 DEF SendMoves, To, ClearAndReap, Open, threadVars, clientVars, serverVars,
       sentVars, sendRest, SendsOK, LinesOK, Before, Finishing, Ending, Returned
  <2>4. HeldOK'
    BY <1>2, SendAssumption DEF SendMoves, To, ClearAndReap, Open, threadVars, clientVars,
       serverVars, sentVars, sendRest, HeldOK, PlacesOK, SendsOK, Kills, KillsOK
  <2>5. Answered'
    BY <1>2 DEF SendMoves, To, ClearAndReap, Open, threadVars, clientVars, serverVars,
       sentVars, sendRest, Answered, SendsOK, PlacesOK
  <2>6. Freed'
    BY <1>2, SendAssumption DEF SendMoves, To, ClearAndReap, Open, threadVars, clientVars,
       serverVars, sentVars, sendRest, Freed, Doomed, SendsOK, PlacesOK, HeldOK, Answered
  <2>7. Armed'
    BY <1>2 DEF SendMoves, To, ClearAndReap, Open, threadVars, clientVars, serverVars,
       sentVars, sendRest, Armed, SendsOK, PlacesOK, KillsOK
  <2>8. QED
    BY <2>1, <2>2, <2>3, <2>4, <2>5, <2>6, <2>7
<1>3. CASE SendGetsClient(s)
  <2>1. FlagsOK' /\ PlacesOK' /\ KillsOK' /\ LinesOK' /\ HeldOK' /\ Kills' /\ Credit'
    BY <1>3, Frame DEF SendGetsClient, To, Open, sessionVars, threadVars, clientVars,
       serverVars, sentVars, sendRest
  <2>2. SendsOK'
    BY <1>3 DEF SendGetsClient, To, Open, sessionVars, threadVars, clientVars, serverVars,
       sentVars, sendRest, SendsOK, LinesOK, Before, Finishing, Ending, Returned
  <2>3. Answered'
    BY <1>3 DEF SendGetsClient, To, Open, sessionVars, threadVars, clientVars, serverVars,
       sentVars, sendRest, Answered, SendsOK, PlacesOK
  <2>4. Freed'
    BY <1>3, SendAssumption DEF SendGetsClient, To, Open, sessionVars, threadVars,
       clientVars, serverVars, sentVars, sendRest, Freed, Doomed, SendsOK, PlacesOK,
       HeldOK, Answered
  <2>5. Armed'
    BY <1>3 DEF SendGetsClient, To, Open, sessionVars, threadVars, clientVars, serverVars,
       sentVars, sendRest, Armed, SendsOK, PlacesOK, KillsOK
  <2>6. QED
    BY <2>1, <2>2, <2>3, <2>4, <2>5
<1>4. CASE SendClaims(s)
  <2>1. FlagsOK' /\ KillsOK' /\ LinesOK' /\ Kills' /\ Credit'
    BY <1>4, Frame DEF SendClaims, To, threadVars, clientVars, serverVars, sentVars,
       sendRest
  <2>2. PlacesOK'
    BY <1>4, SendAssumption DEF SendClaims, To, threadVars, clientVars, serverVars,
       sentVars, sendRest, PlacesOK, SendsOK, KillsOK, Kills, HeldOK, LinesOK, Line
  <2>3. SendsOK'
    BY <1>4 DEF SendClaims, To, threadVars, clientVars, serverVars, sentVars, sendRest,
       SendsOK, LinesOK, Before, Finishing, Ending, Returned
  <2>4. HeldOK'
    BY <1>4, SendAssumption DEF SendClaims, To, threadVars, clientVars, serverVars,
       sentVars, sendRest, HeldOK, PlacesOK, SendsOK, Kills, KillsOK
  <2>5. Answered'
    BY <1>4 DEF SendClaims, To, threadVars, clientVars, serverVars, sentVars, sendRest,
       Answered, SendsOK, PlacesOK
  <2>6. Freed'
    BY <1>4, SendAssumption DEF SendClaims, To, threadVars, clientVars, serverVars,
       sentVars, sendRest, Freed, Doomed, SendsOK, PlacesOK, HeldOK, Answered
  <2>7. Armed'
    BY <1>4 DEF SendClaims, To, threadVars, clientVars, serverVars, sentVars, sendRest,
       Armed, SendsOK, PlacesOK, KillsOK
  <2>8. QED
    BY <2>1, <2>2, <2>3, <2>4, <2>5, <2>6, <2>7
<1>5. CASE SendPersists(s)
  <2>1. FlagsOK' /\ KillsOK' /\ LinesOK' /\ HeldOK' /\ Kills' /\ Credit'
    BY <1>5, Frame DEF SendPersists, To, threadVars, clientVars, serverVars, sentVars,
       sendRest
  <2>2. PlacesOK'
    BY <1>5, SendAssumption DEF SendPersists, To, threadVars, clientVars, serverVars,
       sentVars, sendRest, PlacesOK, SendsOK, KillsOK, Kills, HeldOK, LinesOK, Line
  <2>3. SendsOK'
    BY <1>5 DEF SendPersists, To, threadVars, clientVars, serverVars, sentVars, sendRest,
       SendsOK, LinesOK, Before, Finishing, Ending, Returned
  <2>4. Answered'
    BY <1>5 DEF SendPersists, To, threadVars, clientVars, serverVars, sentVars, sendRest,
       Answered, SendsOK, PlacesOK
  <2>5. Freed'
    BY <1>5, SendAssumption DEF SendPersists, To, threadVars, clientVars, serverVars,
       sentVars, sendRest, Freed, Doomed, SendsOK, PlacesOK, HeldOK, Answered
  <2>6. Armed'
    BY <1>5 DEF SendPersists, To, threadVars, clientVars, serverVars, sentVars, sendRest,
       Armed, SendsOK, PlacesOK, KillsOK
  <2>7. QED
    BY <2>1, <2>2, <2>3, <2>4, <2>5, <2>6
<1>6. CASE SendPersistFails(s)
  <2>1. FlagsOK' /\ PlacesOK' /\ KillsOK' /\ LinesOK' /\ HeldOK' /\ Kills' /\ Credit'
    BY <1>6, Frame DEF SendPersistFails, To, sessionVars, threadVars, clientVars,
       serverVars, sentVars, sendRest
  <2>2. SendsOK'
    BY <1>6 DEF SendPersistFails, To, sessionVars, threadVars, clientVars, serverVars,
       sentVars, sendRest, SendsOK, LinesOK, Before, Finishing, Ending, Returned
  <2>3. Answered'
    BY <1>6 DEF SendPersistFails, To, sessionVars, threadVars, clientVars, serverVars,
       sentVars, sendRest, Answered, SendsOK, PlacesOK
  <2>4. Freed'
    BY <1>6, SendAssumption DEF SendPersistFails, To, sessionVars, threadVars, clientVars,
       serverVars, sentVars, sendRest, Freed, Doomed, SendsOK, PlacesOK, HeldOK, Answered
  <2>5. Armed'
    BY <1>6 DEF SendPersistFails, To, sessionVars, threadVars, clientVars, serverVars,
       sentVars, sendRest, Armed, SendsOK, PlacesOK, KillsOK
  <2>6. QED
    BY <2>1, <2>2, <2>3, <2>4, <2>5
<1>7. CASE SendArms(s)
  <2>1. PlacesOK' /\ KillsOK' /\ LinesOK' /\ HeldOK' /\ Kills' /\ Credit'
    BY <1>7, Frame DEF SendArms, To, sessionVars, clientVars, serverVars, sentVars, sendRest
  <2>2. FlagsOK'
    BY <1>7 DEF SendArms, To, sessionVars, clientVars, serverVars, sentVars, sendRest,
       FlagsOK
  <2>3. SendsOK'
    BY <1>7 DEF SendArms, To, sessionVars, clientVars, serverVars, sentVars, sendRest,
       SendsOK, LinesOK, Before, Finishing, Ending, Returned
  <2>4. Answered'
    BY <1>7 DEF SendArms, To, sessionVars, clientVars, serverVars, sentVars, sendRest,
       Answered, SendsOK, PlacesOK
  <2>5. Freed'
    BY <1>7, SendAssumption DEF SendArms, To, sessionVars, clientVars, serverVars,
       sentVars, sendRest, Freed, Doomed, SendsOK, PlacesOK, HeldOK, Answered
  <2>6. Armed'
    BY <1>7 DEF SendArms, To, sessionVars, clientVars, serverVars, sentVars, sendRest,
       Armed, SendsOK, PlacesOK, KillsOK
  <2>7. QED
    BY <2>1, <2>2, <2>3, <2>4, <2>5, <2>6
<1>8. CASE SendStarts(s)
  <2>1. PlacesOK' /\ KillsOK' /\ LinesOK' /\ HeldOK' /\ Kills' /\ Credit'
    BY <1>8, Frame DEF SendStarts, To, sessionVars, clientVars, serverVars, sentVars,
       sendRest
  <2>2. FlagsOK'
    BY <1>8 DEF SendStarts, To, sessionVars, clientVars, serverVars, sentVars, sendRest,
       FlagsOK
  <2>3. SendsOK'
    BY <1>8 DEF SendStarts, To, sessionVars, clientVars, serverVars, sentVars, sendRest,
       SendsOK, LinesOK, Before, Finishing, Ending, Returned
  <2>4. Answered'
    BY <1>8 DEF SendStarts, To, sessionVars, clientVars, serverVars, sentVars, sendRest,
       Answered, SendsOK, PlacesOK
  <2>5. Freed'
    BY <1>8, SendAssumption DEF SendStarts, To, sessionVars, clientVars, serverVars,
       sentVars, sendRest, Freed, Doomed, SendsOK, PlacesOK, HeldOK, Answered
  <2>6. Armed'
    BY <1>8 DEF SendStarts, To, sessionVars, clientVars, serverVars, sentVars, sendRest,
       Armed, SendsOK, PlacesOK, KillsOK
  <2>7. QED
    BY <2>1, <2>2, <2>3, <2>4, <2>5, <2>6
<1>9. CASE SendAsks(s)
  <2>1. FlagsOK' /\ PlacesOK' /\ KillsOK' /\ HeldOK' /\ Kills' /\ Credit'
    BY <1>9, Frame DEF SendAsks, To, Open, sessionVars, threadVars, clientVars, sentVars, sendRest
  <2>2. SendsOK'
    BY <1>9 DEF SendAsks, To, Open, sessionVars, threadVars, clientVars, sentVars, sendRest,
       SendsOK, LinesOK, Before, Finishing, Ending, Returned
  <2>3. LinesOK'
    BY <1>9, SendAssumption DEF SendAsks, To, Open, sessionVars, threadVars, clientVars, sentVars,
       sendRest, LinesOK, Line, NoLine, PlacesOK
  <2>4. Answered'
    BY <1>9 DEF SendAsks, To, Open, sessionVars, threadVars, clientVars, sentVars, sendRest, Answered,
       SendsOK, PlacesOK
  <2>5. Freed'
    BY <1>9, SendAssumption DEF SendAsks, To, Open, sessionVars, threadVars, clientVars, sentVars,
       sendRest, Freed, Doomed, SendsOK, PlacesOK, HeldOK, Answered
  <2>6. Armed'
    BY <1>9 DEF SendAsks, To, Open, sessionVars, threadVars, clientVars, sentVars, sendRest, Armed,
       SendsOK, PlacesOK, KillsOK
  <2>7. QED
    BY <2>1, <2>2, <2>3, <2>4, <2>5, <2>6
<1>10. CASE SendAskFails(s)
  <2>1. FlagsOK' /\ KillsOK' /\ LinesOK' /\ HeldOK' /\ Kills' /\ Credit'
    BY <1>10, Frame DEF SendAskFails, To, Open, sessionVars, threadVars,
       serverVars, sentVars
  <2>2. SendsOK'
    BY <1>10 DEF SendAskFails, To, Open, sessionVars, threadVars, serverVars,
       sentVars, SendsOK, LinesOK, Before, Finishing, Ending, Returned
  <2>3. Answered'
    BY <1>10 DEF SendAskFails, To, Open, sessionVars, threadVars, serverVars,
       sentVars, Answered, SendsOK, PlacesOK
  <2>4. Freed'
    BY <1>10, SendAssumption DEF SendAskFails, To, Open, sessionVars, threadVars,
       serverVars, sentVars, Freed, Doomed, SendsOK, PlacesOK, HeldOK, Answered
  <2>5. Armed'
    BY <1>10 DEF SendAskFails, To, Open, sessionVars, threadVars, serverVars,
       sentVars, Armed, SendsOK, PlacesOK, KillsOK
  <2>6. PlacesOK'
    BY <1>10 DEF SendAskFails, To, sessionVars, threadVars, serverVars, sentVars, PlacesOK
  <2>7. QED
    BY <2>1, <2>2, <2>3, <2>4, <2>5, <2>6
<1>11. CASE SendHears(s)
  <2>1. FlagsOK' /\ PlacesOK' /\ KillsOK' /\ LinesOK' /\ HeldOK' /\ Kills' /\ Credit'
    BY <1>11, Frame DEF SendHears, To, sessionVars, threadVars, clientVars, serverVars,
       sentVars, sendRest
  <2>2. SendsOK'
    BY <1>11 DEF SendHears, To, sessionVars, threadVars, clientVars, serverVars, sentVars,
       sendRest, SendsOK, LinesOK, Before, Finishing, Ending, Returned
  <2>3. Answered'
    BY <1>11 DEF SendHears, To, sessionVars, threadVars, clientVars, serverVars, sentVars,
       sendRest, Answered, SendsOK, PlacesOK
  <2>4. Freed'
    BY <1>11, SendAssumption DEF SendHears, To, sessionVars, threadVars, clientVars,
       serverVars, sentVars, sendRest, Freed, Doomed, SendsOK, PlacesOK, HeldOK, Answered
  <2>5. Armed'
    BY <1>11 DEF SendHears, To, sessionVars, threadVars, clientVars, serverVars, sentVars,
       sendRest, Armed, SendsOK, PlacesOK, KillsOK
  <2>6. QED
    BY <2>1, <2>2, <2>3, <2>4, <2>5
<1>12. CASE SendTimesOut(s)
  <2>1. FlagsOK' /\ KillsOK' /\ LinesOK' /\ HeldOK' /\ Kills' /\ Credit'
    BY <1>12, Frame DEF SendTimesOut, To, sessionVars, threadVars, serverVars, sentVars
  <2>2. PlacesOK'
    BY <1>12, SendAssumption DEF SendTimesOut, To, sessionVars, threadVars, serverVars,
       sentVars, PlacesOK, SendsOK, KillsOK, Kills, HeldOK, LinesOK, Line
  <2>3. SendsOK'
    BY <1>12 DEF SendTimesOut, To, sessionVars, threadVars, serverVars, sentVars, SendsOK,
       LinesOK, Before, Finishing, Ending, Returned
  <2>4. Answered'
    BY <1>12 DEF SendTimesOut, To, sessionVars, threadVars, serverVars, sentVars, Answered,
       SendsOK, PlacesOK
  <2>5. Freed'
    BY <1>12, SendAssumption DEF SendTimesOut, To, sessionVars, threadVars, serverVars,
       sentVars, Freed, Doomed, SendsOK, PlacesOK, HeldOK, Answered
  <2>6. Armed'
    BY <1>12 DEF SendTimesOut, To, sessionVars, threadVars, serverVars, sentVars, Armed,
       SendsOK, PlacesOK, KillsOK
  <2>7. QED
    BY <2>1, <2>2, <2>3, <2>4, <2>5, <2>6
<1>13. CASE SendExpects(s)
  <2>1. FlagsOK' /\ KillsOK' /\ LinesOK' /\ HeldOK' /\ Kills' /\ Credit'
    BY <1>13, Frame DEF SendExpects, To, sessionVars, clientVars, serverVars, sentVars,
       sendRest
  <2>2. PlacesOK'
    BY <1>13, SendAssumption DEF SendExpects, To, sessionVars, clientVars, serverVars,
       sentVars, sendRest, PlacesOK, SendsOK, KillsOK, Kills, HeldOK, LinesOK, Line
  <2>3. SendsOK'
    BY <1>13 DEF SendExpects, To, sessionVars, clientVars, serverVars, sentVars, sendRest,
       SendsOK, LinesOK, Before, Finishing, Ending, Returned
  <2>4. Answered'
    BY <1>13 DEF SendExpects, To, sessionVars, clientVars, serverVars, sentVars, sendRest,
       Answered, SendsOK, PlacesOK
  <2>5. Freed'
    BY <1>13, SendAssumption DEF SendExpects, To, sessionVars, clientVars, serverVars,
       sentVars, sendRest, Freed, Doomed, SendsOK, PlacesOK, HeldOK, Answered
  <2>6. Armed'
    BY <1>13 DEF SendExpects, To, sessionVars, clientVars, serverVars, sentVars, sendRest,
       Armed, SendsOK, PlacesOK, KillsOK
  <2>7. QED
    BY <2>1, <2>2, <2>3, <2>4, <2>5, <2>6
<1>14. CASE SendClearsStarting(s)
  <2>1. PlacesOK' /\ KillsOK' /\ LinesOK' /\ HeldOK' /\ Kills' /\ Credit'
    BY <1>14, Frame DEF SendClearsStarting, To, sessionVars, clientVars, serverVars,
       sentVars, sendRest
  <2>2. FlagsOK'
    BY <1>14 DEF SendClearsStarting, To, sessionVars, clientVars, serverVars, sentVars,
       sendRest, FlagsOK
  <2>3. SendsOK'
    BY <1>14 DEF SendClearsStarting, To, sessionVars, clientVars, serverVars, sentVars,
       sendRest, SendsOK, LinesOK, Before, Finishing, Ending, Returned
  <2>4. Answered'
    BY <1>14 DEF SendClearsStarting, To, sessionVars, clientVars, serverVars, sentVars,
       sendRest, Answered, SendsOK, PlacesOK
  <2>5. Freed'
    BY <1>14, SendAssumption DEF SendClearsStarting, To, sessionVars, clientVars,
       serverVars, sentVars, sendRest, Freed, Doomed, SendsOK, PlacesOK, HeldOK, Answered
  <2>6. Armed'
    BY <1>14 DEF SendClearsStarting, To, sessionVars, clientVars, serverVars, sentVars,
       sendRest, Armed, SendsOK, PlacesOK, KillsOK
  <2>7. QED
    BY <2>1, <2>2, <2>3, <2>4, <2>5, <2>6
<1>15. CASE SendTakes(s)
  <2>1. FlagsOK' /\ KillsOK' /\ LinesOK' /\ HeldOK' /\ Kills' /\ Credit'
    BY <1>15, Frame DEF SendTakes, To, Disarms, sessionVars, clientVars, serverVars,
       sentVars
  <2>2. PlacesOK'
    BY <1>15, SendAssumption DEF SendTakes, To, Disarms, sessionVars, clientVars,
       serverVars, sentVars, PlacesOK, SendsOK, KillsOK, Kills, HeldOK, LinesOK, Line
  <2>3. SendsOK'
    BY <1>15 DEF SendTakes, To, Disarms, sessionVars, clientVars, serverVars, sentVars,
       SendsOK, LinesOK, Before, Finishing, Ending, Returned
  <2>4. Answered'
    BY <1>15 DEF SendTakes, To, Disarms, sessionVars, clientVars, serverVars, sentVars,
       Answered, SendsOK, PlacesOK
  <2>5. Freed'
    BY <1>15, SendAssumption DEF SendTakes, To, Disarms, sessionVars, clientVars,
       serverVars, sentVars, Freed, Doomed, SendsOK, PlacesOK, HeldOK, Answered
  <2>6. Armed'
    BY <1>15 DEF SendTakes, To, Disarms, sessionVars, clientVars, serverVars, sentVars,
       Armed, SendsOK, PlacesOK, KillsOK
  <2>7. QED
    BY <2>1, <2>2, <2>3, <2>4, <2>5, <2>6
<1>16. CASE SendDisarms(s)
  <2>1. PlacesOK' /\ KillsOK' /\ LinesOK' /\ HeldOK' /\ Kills' /\ Credit'
    BY <1>16, Frame DEF SendDisarms, To, sessionVars, clientVars, serverVars, sentVars,
       sendRest
  <2>2. FlagsOK'
    BY <1>16 DEF SendDisarms, To, sessionVars, clientVars, serverVars, sentVars, sendRest,
       FlagsOK
  <2>3. SendsOK'
    BY <1>16 DEF SendDisarms, To, sessionVars, clientVars, serverVars, sentVars, sendRest,
       SendsOK, LinesOK, Before, Finishing, Ending, Returned
  <2>4. Answered'
    BY <1>16 DEF SendDisarms, To, sessionVars, clientVars, serverVars, sentVars, sendRest,
       Answered, SendsOK, PlacesOK
  <2>5. Freed'
    BY <1>16, SendAssumption DEF SendDisarms, To, sessionVars, clientVars, serverVars,
       sentVars, sendRest, Freed, Doomed, SendsOK, PlacesOK, HeldOK, Answered
  <2>6. Armed'
    BY <1>16 DEF SendDisarms, To, sessionVars, clientVars, serverVars, sentVars, sendRest,
       Armed, SendsOK, PlacesOK, KillsOK
  <2>7. QED
    BY <2>1, <2>2, <2>3, <2>4, <2>5, <2>6
<1>17. CASE SendSweeps(s)
  <2>1. FlagsOK' /\ KillsOK' /\ LinesOK' /\ HeldOK' /\ Kills' /\ Credit'
    BY <1>17, Frame DEF SendSweeps, To, Sweep, sessionVars, clientVars, serverVars
  <2>2. PlacesOK'
    BY <1>17, SendAssumption DEF SendSweeps, To, Sweep, sessionVars, clientVars,
       serverVars, PlacesOK, SendsOK, KillsOK, Kills, HeldOK, LinesOK, Line
  <2>3. SendsOK'
    BY <1>17 DEF SendSweeps, To, Sweep, sessionVars, clientVars, serverVars, SendsOK,
       LinesOK, Before, Finishing, Ending, Returned
  <2>4. Answered'
    BY <1>17 DEF SendSweeps, To, Sweep, sessionVars, clientVars, serverVars, Answered,
       SendsOK, PlacesOK
  <2>5. Freed'
    BY <1>17, SendAssumption DEF SendSweeps, To, Sweep, sessionVars, clientVars,
       serverVars, Freed, Doomed, SendsOK, PlacesOK, HeldOK, Answered
  <2>6. Armed'
    BY <1>17 DEF SendSweeps, To, Sweep, sessionVars, clientVars, serverVars, Armed,
       SendsOK, PlacesOK, KillsOK
  <2>7. QED
    BY <2>1, <2>2, <2>3, <2>4, <2>5, <2>6
<1>18. CASE SendLooks(s)
  <2>1. FlagsOK' /\ PlacesOK' /\ KillsOK' /\ LinesOK' /\ HeldOK' /\ Kills' /\ Credit'
    BY <1>18, Frame DEF SendLooks, To, sessionVars, threadVars, clientVars, serverVars,
       sentVars, sendRest
  <2>2. SendsOK'
    BY <1>18 DEF SendLooks, To, sessionVars, threadVars, clientVars, serverVars, sentVars,
       sendRest, SendsOK, LinesOK, Before, Finishing, Ending, Returned
  <2>3. Answered'
    BY <1>18 DEF SendLooks, To, sessionVars, threadVars, clientVars, serverVars, sentVars,
       sendRest, Answered, SendsOK, PlacesOK
  <2>4. Freed'
    BY <1>18, SendAssumption DEF SendLooks, To, sessionVars, threadVars, clientVars,
       serverVars, sentVars, sendRest, Freed, Doomed, SendsOK, PlacesOK, HeldOK, Answered
  <2>5. Armed'
    BY <1>18 DEF SendLooks, To, sessionVars, threadVars, clientVars, serverVars, sentVars,
       sendRest, Armed, SendsOK, PlacesOK, KillsOK
  <2>6. QED
    BY <2>1, <2>2, <2>3, <2>4, <2>5
<1>19. CASE SendPublishes(s)
  <2>1. FlagsOK' /\ KillsOK' /\ LinesOK' /\ HeldOK' /\ Kills' /\ Credit'
    BY <1>19, Frame DEF SendPublishes, To, threadVars, clientVars, serverVars, sentVars,
       sendRest
  <2>2. PlacesOK'
    BY <1>19, SendAssumption DEF SendPublishes, To, threadVars, clientVars, serverVars,
       sentVars, sendRest, PlacesOK, SendsOK, KillsOK, Kills, HeldOK, LinesOK, Line
  <2>3. SendsOK'
    BY <1>19 DEF SendPublishes, To, threadVars, clientVars, serverVars, sentVars, sendRest,
       SendsOK, LinesOK, Before, Finishing, Ending, Returned
  <2>4. Answered'
    BY <1>19 DEF SendPublishes, To, threadVars, clientVars, serverVars, sentVars, sendRest,
       Answered, SendsOK, PlacesOK
  <2>5. Freed'
    BY <1>19, SendAssumption DEF SendPublishes, To, threadVars, clientVars, serverVars,
       sentVars, sendRest, Freed, Doomed, SendsOK, PlacesOK, HeldOK, Answered
  <2>6. Armed'
    BY <1>19 DEF SendPublishes, To, threadVars, clientVars, serverVars, sentVars, sendRest,
       Armed, SendsOK, PlacesOK, KillsOK
  <2>7. QED
    BY <2>1, <2>2, <2>3, <2>4, <2>5, <2>6
<1>20. CASE SendSwaps(s)
  <2>1. FlagsOK' /\ KillsOK' /\ LinesOK' /\ HeldOK' /\ Kills'
    BY <1>20, Frame DEF SendSwaps, To, Fire, threadVars, clientVars, serverVars, sendRest
  <2>2. PlacesOK'
    BY <1>20, SendAssumption DEF SendSwaps, To, Fire, threadVars, clientVars, serverVars,
       sendRest, PlacesOK, SendsOK, KillsOK, Kills, HeldOK, LinesOK, Line
  <2>3. SendsOK'
    BY <1>20 DEF SendSwaps, To, Fire, threadVars, clientVars, serverVars, sendRest,
       SendsOK, LinesOK, Before, Finishing, Ending, Returned
  <2>4. Answered'
    BY <1>20 DEF SendSwaps, To, Fire, threadVars, clientVars, serverVars, sendRest,
       Answered, SendsOK, PlacesOK
  <2>5. Freed'
    BY <1>20, SendAssumption DEF SendSwaps, To, Fire, threadVars, clientVars, serverVars,
       sendRest, Freed, Doomed, SendsOK, PlacesOK, HeldOK, Answered
  <2>6. Armed'
    BY <1>20 DEF SendSwaps, To, Fire, threadVars, clientVars, serverVars, sendRest, Armed,
       SendsOK, PlacesOK, KillsOK
  <2>7. Credit'
    <3>1. \A t \in Send : Asking(t)' = Asking(t)
      BY <1>20 DEF SendSwaps, To, Fire, threadVars, clientVars, serverVars, sendRest, Asking
    <3>2. QED
      BY <1>20, <3>1, Spent DEF SendSwaps, To, Fire, threadVars, clientVars, serverVars,
         sendRest
  <2>8. QED
    BY <2>1, <2>2, <2>3, <2>4, <2>5, <2>6, <2>7
<1>21. CASE SendFindsGone(s)
  <2>1. FlagsOK' /\ KillsOK' /\ LinesOK' /\ HeldOK' /\ Kills'
    BY <1>21, Frame DEF SendFindsGone, To, Fire, threadVars, clientVars, serverVars,
       sendRest
  <2>2. PlacesOK'
    BY <1>21, SendAssumption DEF SendFindsGone, To, Fire, threadVars, clientVars,
       serverVars, sendRest, PlacesOK, SendsOK, KillsOK, Kills, HeldOK, LinesOK, Line
  <2>3. SendsOK'
    BY <1>21 DEF SendFindsGone, To, Fire, threadVars, clientVars, serverVars, sendRest,
       SendsOK, LinesOK, Before, Finishing, Ending, Returned
  <2>4. Answered'
    BY <1>21 DEF SendFindsGone, To, Fire, threadVars, clientVars, serverVars, sendRest,
       Answered, SendsOK, PlacesOK
  <2>5. Freed'
    BY <1>21, SendAssumption DEF SendFindsGone, To, Fire, threadVars, clientVars,
       serverVars, sendRest, Freed, Doomed, SendsOK, PlacesOK, HeldOK, Answered
  <2>6. Armed'
    BY <1>21 DEF SendFindsGone, To, Fire, threadVars, clientVars, serverVars, sendRest,
       Armed, SendsOK, PlacesOK, KillsOK
  <2>7. Credit'
    <3>1. \A t \in Send : Asking(t)' = Asking(t)
      BY <1>21 DEF SendFindsGone, To, Fire, threadVars, clientVars, serverVars, sendRest,
         Asking
    <3>2. QED
      BY <1>21, <3>1, Spent DEF SendFindsGone, To, Fire, threadVars, clientVars,
         serverVars, sendRest
  <2>8. QED
    BY <2>1, <2>2, <2>3, <2>4, <2>5, <2>6, <2>7
<1>22. CASE SendRollsBack(s)
  <2>1. FlagsOK' /\ KillsOK' /\ LinesOK' /\ HeldOK' /\ Kills' /\ Credit'
    BY <1>22, Frame DEF SendRollsBack, To, threadVars, clientVars, serverVars, sentVars,
       sendRest
  <2>2. PlacesOK'
    BY <1>22, SendAssumption DEF SendRollsBack, To, threadVars, clientVars, serverVars,
       sentVars, sendRest, PlacesOK, SendsOK, KillsOK, Kills, HeldOK, LinesOK, Line
  <2>3. SendsOK'
    BY <1>22 DEF SendRollsBack, To, threadVars, clientVars, serverVars, sentVars, sendRest,
       SendsOK, LinesOK, Before, Finishing, Ending, Returned
  <2>4. Answered'
    BY <1>22 DEF SendRollsBack, To, threadVars, clientVars, serverVars, sentVars, sendRest,
       Answered, SendsOK, PlacesOK
  <2>5. Freed'
    BY <1>22, SendAssumption DEF SendRollsBack, To, threadVars, clientVars, serverVars,
       sentVars, sendRest, Freed, Doomed, SendsOK, PlacesOK, HeldOK, Answered
  <2>6. Armed'
    BY <1>22 DEF SendRollsBack, To, threadVars, clientVars, serverVars, sentVars, sendRest,
       Armed, SendsOK, PlacesOK, KillsOK
  <2>7. QED
    BY <2>1, <2>2, <2>3, <2>4, <2>5, <2>6
<1>23. CASE SendFails(s)
  <2>1. FlagsOK' /\ KillsOK' /\ LinesOK' /\ Kills' /\ Credit'
    BY <1>23, Frame DEF SendFails, To, ClearAndReap, threadVars, clientVars, serverVars,
       sentVars, sendRest
  <2>2. PlacesOK'
    BY <1>23, SendAssumption DEF SendFails, To, ClearAndReap, threadVars, clientVars,
       serverVars, sentVars, sendRest, PlacesOK, SendsOK, KillsOK, Kills, HeldOK, LinesOK,
       Line
  <2>3. SendsOK'
    BY <1>23 DEF SendFails, To, ClearAndReap, threadVars, clientVars, serverVars, sentVars,
       sendRest, SendsOK, LinesOK, Before, Finishing, Ending, Returned
  <2>4. HeldOK'
    BY <1>23, SendAssumption DEF SendFails, To, ClearAndReap, threadVars, clientVars,
       serverVars, sentVars, sendRest, HeldOK, PlacesOK, SendsOK, Kills, KillsOK
  <2>5. Answered'
    BY <1>23 DEF SendFails, To, ClearAndReap, threadVars, clientVars, serverVars, sentVars,
       sendRest, Answered, SendsOK, PlacesOK
  <2>6. Freed'
    BY <1>23, SendAssumption DEF SendFails, To, ClearAndReap, threadVars, clientVars,
       serverVars, sentVars, sendRest, Freed, Doomed, SendsOK, PlacesOK, HeldOK, Answered
  <2>7. Armed'
    BY <1>23 DEF SendFails, To, ClearAndReap, threadVars, clientVars, serverVars, sentVars,
       sendRest, Armed, SendsOK, PlacesOK, KillsOK
  <2>8. QED
    BY <2>1, <2>2, <2>3, <2>4, <2>5, <2>6, <2>7
<1>24. CASE SendPends(s)
  <2>1. FlagsOK' /\ KillsOK' /\ LinesOK' /\ HeldOK' /\ Kills' /\ Credit'
    BY <1>24, Frame DEF SendPends, To, sessionVars, threadVars, serverVars, sentVars, sendRest
  <2>2. PlacesOK'
    BY <1>24 DEF SendPends, To, sessionVars, threadVars, serverVars, sentVars, sendRest, PlacesOK
  <2>3. SendsOK'
    BY <1>24 DEF SendPends, To, sendRest, SendsOK, Before
  <2>4. Answered'
    BY <1>24 DEF SendPends, To, sendRest, Answered, SendsOK, PlacesOK
  <2>5. Freed'
    BY <1>24 DEF SendPends, To, sessionVars, sendRest, Freed, Doomed, SendsOK
  <2>6. Armed'
    BY <1>24 DEF SendPends, To, sessionVars, sendRest, Armed, SendsOK
  <2>7. QED
    BY <2>1, <2>2, <2>3, <2>4, <2>5, <2>6
<1>25. QED
  BY <1>1, <1>2, <1>3, <1>4, <1>5, <1>6, <1>7, <1>8, <1>9, <1>10, <1>11, <1>12, <1>13,
     <1>14, <1>15, <1>16, <1>17, <1>18, <1>19, <1>20, <1>21, <1>22, <1>23, <1>24

\* interrupt() and dispose().
LEMMA KillKeeps ==
    ASSUME IInv, NEW k \in Killer,
           \/ KillReads(k) \/ KillArms(k) \/ KillReadsId(k) \/ KillSwaps(k)
           \/ DisposeReaps(k)
    PROVE  IInv'
<1> USE DEF IInv
<1>1. CASE KillReads(k)
  <2>1. SendsOK' /\ LinesOK' /\ Answered'
    BY <1>1, Frame DEF KillReads, threadVars, clientVars, serverVars, sentVars, killRest
  <2>2. FlagsOK'
    BY <1>1 DEF KillReads, threadVars, clientVars, serverVars, sentVars, killRest, FlagsOK
  <2>3. PlacesOK'
    BY <1>1, SendAssumption DEF KillReads, threadVars, clientVars, serverVars, sentVars,
       killRest, PlacesOK, SendsOK, KillsOK, Kills, HeldOK, LinesOK, Line
  <2>4. KillsOK'
    BY <1>1 DEF KillReads, threadVars, clientVars, serverVars, sentVars, killRest, KillsOK,
       PlacesOK
  <2>5. HeldOK'
    BY <1>1, SendAssumption DEF KillReads, threadVars, clientVars, serverVars, sentVars,
       killRest, HeldOK, PlacesOK, SendsOK, Kills, KillsOK
  <2>6. Kills'
    BY <1>1 DEF KillReads, threadVars, clientVars, serverVars, sentVars, killRest, Kills,
       KillsOK, PlacesOK, HeldOK
  <2>7. Freed'
    BY <1>1, SendAssumption DEF KillReads, threadVars, clientVars, serverVars, sentVars,
       killRest, Freed, Doomed, SendsOK, PlacesOK, HeldOK, Answered
  <2>8. Armed'
    BY <1>1 DEF KillReads, threadVars, clientVars, serverVars, sentVars, killRest, Armed,
       SendsOK, PlacesOK, KillsOK
  <2>9. Credit'
    <3>1. \A t \in Send : Asking(t)' = Asking(t)
      BY <1>1, SendAssumption DEF KillReads, Asking, KillsOK, Kills, HeldOK
    <3>2. QED
      BY <1>1, <3>1 DEF KillReads, threadVars, clientVars, serverVars, sentVars, killRest,
         Credit
  <2>10. QED
    BY <2>1, <2>2, <2>3, <2>4, <2>5, <2>6, <2>7, <2>8, <2>9
<1>2. CASE KillArms(k)
  <2>1. FlagsOK' /\ SendsOK' /\ LinesOK' /\ HeldOK' /\ Answered' /\ Freed'
    BY <1>2, Frame DEF KillArms, AfterKill, threadVars, clientVars, serverVars, sentVars,
       killRest
  <2>2. PlacesOK'
    BY <1>2, SendAssumption DEF KillArms, AfterKill, threadVars, clientVars, serverVars,
       sentVars, killRest, PlacesOK, SendsOK, KillsOK, Kills, HeldOK, LinesOK, Line
  <2>3. KillsOK'
    BY <1>2 DEF KillArms, AfterKill, threadVars, clientVars, serverVars, sentVars,
       killRest, KillsOK, PlacesOK
  <2>4. Kills'
    BY <1>2 DEF KillArms, AfterKill, threadVars, clientVars, serverVars, sentVars,
       killRest, Kills, KillsOK, PlacesOK, HeldOK
  <2>5. Armed'
    BY <1>2 DEF KillArms, AfterKill, threadVars, clientVars, serverVars, sentVars,
       killRest, Armed, SendsOK, PlacesOK, KillsOK
  <2>6. Credit'
    BY <1>2, Asked
  <2>7. QED
    BY <2>1, <2>2, <2>3, <2>4, <2>5, <2>6
<1>3. CASE KillReadsId(k)
  <2>1. FlagsOK' /\ PlacesOK' /\ SendsOK' /\ LinesOK' /\ HeldOK' /\ Answered' /\ Freed'
    BY <1>3, Frame DEF KillReadsId, AfterKill, sessionVars, threadVars, clientVars,
       serverVars, sentVars, killRest
  <2>2. KillsOK'
    BY <1>3 DEF KillReadsId, AfterKill, sessionVars, threadVars, clientVars, serverVars,
       sentVars, killRest, KillsOK, PlacesOK
  <2>3. Kills'
    BY <1>3 DEF KillReadsId, AfterKill, sessionVars, threadVars, clientVars, serverVars,
       sentVars, killRest, Kills, KillsOK, PlacesOK, HeldOK
  <2>4. Armed'
    BY <1>3 DEF KillReadsId, AfterKill, sessionVars, threadVars, clientVars, serverVars,
       sentVars, killRest, Armed, SendsOK, PlacesOK, KillsOK
  <2>5. Credit'
    <3>1. \A t \in Send : Asking(t)' = Asking(t)
      BY <1>3 DEF KillReadsId, AfterKill, sessionVars, threadVars, clientVars, serverVars,
         sentVars, killRest, Asking, KillsOK
    <3>2. QED
      BY <1>3, <3>1 DEF KillReadsId, AfterKill, sessionVars, threadVars, clientVars,
         serverVars, sentVars, killRest, Credit
  <2>6. QED
    BY <2>1, <2>2, <2>3, <2>4, <2>5
<1>4. CASE KillSwaps(k)
  <2>1. FlagsOK' /\ SendsOK' /\ LinesOK' /\ HeldOK' /\ Answered' /\ Freed'
    BY <1>4, Frame DEF KillSwaps, Fire, AfterKill, threadVars, clientVars, serverVars,
       killRest
  <2>2. PlacesOK'
    BY <1>4, SendAssumption DEF KillSwaps, Fire, AfterKill, threadVars, clientVars,
       serverVars, killRest, PlacesOK, SendsOK, KillsOK, Kills, HeldOK, LinesOK, Line
  <2>3. KillsOK'
    BY <1>4 DEF KillSwaps, Fire, AfterKill, threadVars, clientVars, serverVars, killRest,
       KillsOK, PlacesOK
  <2>4. Kills'
    BY <1>4 DEF KillSwaps, Fire, AfterKill, threadVars, clientVars, serverVars, killRest,
       Kills, KillsOK, PlacesOK, HeldOK
  <2>5. Armed'
    BY <1>4 DEF KillSwaps, Fire, AfterKill, threadVars, clientVars, serverVars, killRest,
       Armed, SendsOK, PlacesOK, KillsOK
  <2>6. Credit'
    <3>1. \A t \in Send : Asking(t)' = Asking(t)
      BY <1>4 DEF KillSwaps, Fire, AfterKill, threadVars, clientVars, serverVars, killRest,
         Asking, KillsOK
    <3>2. kill[k].turn \in Send
      BY <1>4 DEF KillSwaps, Kills
    <3>3. QED
      BY <1>4, <3>1, <3>2, Spent DEF KillSwaps, killRest, sentVars
  <2>7. QED
    BY <2>1, <2>2, <2>3, <2>4, <2>5, <2>6
<1>5. CASE DisposeReaps(k)
  <2>1. FlagsOK' /\ SendsOK' /\ LinesOK' /\ Answered' /\ Freed'
    BY <1>5, Frame DEF DisposeReaps, threadVars, clientVars, serverVars, sentVars, killRest
  <2>2. PlacesOK'
    BY <1>5, SendAssumption DEF DisposeReaps, threadVars, clientVars, serverVars, sentVars,
       killRest, PlacesOK, SendsOK, KillsOK, Kills, HeldOK, LinesOK, Line
  <2>3. KillsOK'
    BY <1>5 DEF DisposeReaps, threadVars, clientVars, serverVars, sentVars, killRest,
       KillsOK, PlacesOK
  <2>4. HeldOK'
    BY <1>5, SendAssumption DEF DisposeReaps, threadVars, clientVars, serverVars, sentVars,
       killRest, HeldOK, PlacesOK, SendsOK, Kills, KillsOK
  <2>5. Kills'
    BY <1>5 DEF DisposeReaps, threadVars, clientVars, serverVars, sentVars, killRest,
       Kills, KillsOK, PlacesOK, HeldOK
  <2>6. Armed'
    BY <1>5 DEF DisposeReaps, threadVars, clientVars, serverVars, sentVars, killRest,
       Armed, SendsOK, PlacesOK, KillsOK
  <2>7. Credit'
    <3>1. \A t \in Send : Asking(t)' = Asking(t)
      BY <1>5 DEF DisposeReaps, threadVars, clientVars, serverVars, sentVars, killRest,
         Asking, KillsOK
    <3>2. QED
      BY <1>5, <3>1 DEF DisposeReaps, threadVars, clientVars, serverVars, sentVars,
         killRest, Credit
  <2>8. QED
    BY <2>1, <2>2, <2>3, <2>4, <2>5, <2>6, <2>7
<1>6. QED
  BY <1>1, <1>2, <1>3, <1>4, <1>5

\* The reader.
LEMMA ReaderKeeps ==
    ASSUME IInv,
           \/ ReadLine \/ ReadArmed \/ ReadExpected \/ ReadStarting
           \/ ReadDefers \/ ReadDisarms \/ ReadSweeps \/ ReadOrphan
           \/ ReadEvent \/ ReadClears
    PROVE  IInv'
<1> USE DEF IInv
<1>1. CASE ReadLine
  <2>1. FlagsOK' /\ KillsOK' /\ HeldOK' /\ Kills' /\ Armed' /\ Credit'
    BY <1>1, Frame DEF ReadLine, turn, sessionVars, threadVars, sentVars
  <2>2. PlacesOK'
    BY <1>1, SendAssumption DEF ReadLine, turn, sessionVars, threadVars, sentVars,
       PlacesOK, SendsOK, KillsOK, Kills, HeldOK, LinesOK, Line
  <2>3. SendsOK'
    BY <1>1 DEF ReadLine, turn, sessionVars, threadVars, sentVars, SendsOK, LinesOK,
       Before, Finishing, Ending, Returned
  <2>4. LinesOK'
    <3>1. Head(lines) \in Line /\ Tail(lines) \in Seq(Line)
      BY <1>1, HeadTailProperties DEF ReadLine, LinesOK
    <3>2. QED
      BY <1>1, <3>1 DEF ReadLine, turn, sessionVars, threadVars, sentVars, LinesOK
  <2>5. Answered'
    BY <1>1 DEF ReadLine, turn, sessionVars, threadVars, sentVars, Answered, SendsOK,
       PlacesOK
  <2>6. Freed'
    BY <1>1, SendAssumption DEF ReadLine, turn, sessionVars, threadVars, sentVars, Freed,
       Doomed, SendsOK, PlacesOK, HeldOK, Answered
  <2>7. QED
    BY <2>1, <2>2, <2>3, <2>4, <2>5, <2>6
<1>2. CASE ReadArmed
  <2>1. /\ FlagsOK' /\ PlacesOK' /\ SendsOK' /\ KillsOK' /\ HeldOK'
        /\ Kills' /\ Answered' /\ Freed' /\ Armed' /\ Credit'
    BY <1>2, Frame DEF ReadArmed, Reads, sessionVars, callVars, threadVars, serverVars,
       sentVars, readRest
  <2>2. LinesOK'
    BY <1>2, SendAssumption DEF ReadArmed, Reads, sessionVars, callVars, threadVars,
       serverVars, sentVars, readRest, LinesOK, Line, NoLine, PlacesOK
  <2>3. QED
    BY <2>1, <2>2
<1>3. CASE ReadExpected
  <2>1. /\ FlagsOK' /\ PlacesOK' /\ SendsOK' /\ KillsOK' /\ HeldOK'
        /\ Kills' /\ Answered' /\ Freed' /\ Armed' /\ Credit'
    BY <1>3, Frame DEF ReadExpected, Reads, turn, sessionVars, callVars, threadVars,
       serverVars, sentVars, readRest
  <2>2. LinesOK'
    BY <1>3, SendAssumption DEF ReadExpected, Reads, turn, sessionVars, callVars,
       threadVars, serverVars, sentVars, readRest, LinesOK, Line, NoLine, PlacesOK
  <2>3. QED
    BY <2>1, <2>2
<1>4. CASE ReadStarting
  <2>1. /\ FlagsOK' /\ PlacesOK' /\ SendsOK' /\ KillsOK' /\ HeldOK'
        /\ Kills' /\ Answered' /\ Freed' /\ Armed' /\ Credit'
    BY <1>4, Frame DEF ReadStarting, Reads, sessionVars, callVars, threadVars, serverVars,
       sentVars, readRest
  <2>2. LinesOK'
    BY <1>4, SendAssumption DEF ReadStarting, Reads, sessionVars, callVars, threadVars,
       serverVars, sentVars, readRest, LinesOK, Line, NoLine, PlacesOK
  <2>3. QED
    BY <2>1, <2>2
<1>5. CASE ReadDefers
  <2>1. /\ FlagsOK' /\ SendsOK' /\ KillsOK' /\ HeldOK' /\ Kills'
        /\ Answered' /\ Freed' /\ Armed' /\ Credit'
    BY <1>5, Frame DEF ReadDefers, Reads, turn, sessionVars, callVars, serverVars,
       sentVars, readRest
  <2>2. PlacesOK'
    BY <1>5, SendAssumption DEF ReadDefers, Reads, turn, sessionVars, callVars, serverVars,
       sentVars, readRest, PlacesOK, SendsOK, KillsOK, Kills, HeldOK, LinesOK, Line
  <2>3. LinesOK'
    BY <1>5, SendAssumption DEF ReadDefers, Reads, turn, sessionVars, callVars, serverVars,
       sentVars, readRest, LinesOK, Line, NoLine, PlacesOK
  <2>4. QED
    BY <2>1, <2>2, <2>3
<1>6. CASE ReadDisarms
  <2>1. /\ PlacesOK' /\ SendsOK' /\ KillsOK' /\ HeldOK' /\ Kills'
        /\ Answered' /\ Freed' /\ Armed' /\ Credit'
    BY <1>6, Frame DEF ReadDisarms, Reads, sessionVars, callVars, serverVars, sentVars,
       readRest
  <2>2. FlagsOK'
    BY <1>6 DEF ReadDisarms, Reads, sessionVars, callVars, serverVars, sentVars, readRest,
       FlagsOK
  <2>3. LinesOK'
    BY <1>6, SendAssumption DEF ReadDisarms, Reads, sessionVars, callVars, serverVars,
       sentVars, readRest, LinesOK, Line, NoLine, PlacesOK
  <2>4. QED
    BY <2>1, <2>2, <2>3
<1>7. CASE ReadSweeps
  <2>1. /\ FlagsOK' /\ SendsOK' /\ KillsOK' /\ HeldOK' /\ Kills'
        /\ Answered' /\ Freed' /\ Armed' /\ Credit'
    BY <1>7, Frame DEF ReadSweeps, Reads, Sweep, turn, sessionVars, callVars, serverVars,
       readRest
  <2>2. PlacesOK'
    BY <1>7, SendAssumption DEF ReadSweeps, Reads, Sweep, turn, sessionVars, callVars,
       serverVars, readRest, PlacesOK, SendsOK, KillsOK, Kills, HeldOK, LinesOK, Line
  <2>3. LinesOK'
    BY <1>7, SendAssumption DEF ReadSweeps, Reads, Sweep, turn, sessionVars, callVars,
       serverVars, readRest, LinesOK, Line, NoLine, PlacesOK
  <2>4. QED
    BY <2>1, <2>2, <2>3
<1>8. CASE ReadOrphan
  <2>1. /\ FlagsOK' /\ SendsOK' /\ KillsOK' /\ HeldOK' /\ Kills'
        /\ Answered' /\ Freed' /\ Armed' /\ Credit'
    BY <1>8, Frame DEF ReadOrphan, Reads, turn, sessionVars, callVars, serverVars,
       sentVars, readRest
  <2>2. PlacesOK'
    BY <1>8, SendAssumption DEF ReadOrphan, Reads, turn, sessionVars, callVars, serverVars,
       sentVars, readRest, PlacesOK, SendsOK, KillsOK, Kills, HeldOK, LinesOK, Line
  <2>3. LinesOK'
    BY <1>8, SendAssumption DEF ReadOrphan, Reads, turn, sessionVars, callVars, serverVars,
       sentVars, readRest, LinesOK, Line, NoLine, PlacesOK
  <2>4. QED
    BY <2>1, <2>2, <2>3
<1>9. CASE ReadEvent
  <2>1. /\ FlagsOK' /\ PlacesOK' /\ SendsOK' /\ KillsOK' /\ HeldOK'
        /\ Kills' /\ Answered' /\ Freed' /\ Armed' /\ Credit'
    BY <1>9, Frame DEF ReadEvent, Reads, sessionVars, callVars, threadVars, serverVars,
       sentVars, readRest
  <2>2. LinesOK'
    BY <1>9, SendAssumption DEF ReadEvent, Reads, sessionVars, callVars, threadVars,
       serverVars, sentVars, readRest, LinesOK, Line, NoLine, PlacesOK
  <2>3. QED
    BY <2>1, <2>2
<1>10. CASE ReadClears
  <2>1. FlagsOK' /\ SendsOK' /\ KillsOK' /\ Kills' /\ Answered' /\ Armed' /\ Credit'
    BY <1>10, Frame DEF ReadClears, Reads, ClearAndReap, callVars, threadVars, serverVars,
       sentVars, readRest
  <2>2. PlacesOK'
    BY <1>10, SendAssumption DEF ReadClears, Reads, ClearAndReap, callVars, threadVars,
       serverVars, sentVars, readRest, PlacesOK, SendsOK, KillsOK, Kills, HeldOK, LinesOK,
       Line
  <2>3. LinesOK'
    BY <1>10, SendAssumption DEF ReadClears, Reads, ClearAndReap, callVars, threadVars,
       serverVars, sentVars, readRest, LinesOK, Line, NoLine, PlacesOK
  <2>4. HeldOK'
    BY <1>10, SendAssumption DEF ReadClears, Reads, ClearAndReap, callVars, threadVars,
       serverVars, sentVars, readRest, HeldOK, PlacesOK, SendsOK, Kills, KillsOK
  <2>5. Freed'
    BY <1>10, SendAssumption DEF ReadClears, Reads, ClearAndReap, callVars, threadVars,
       serverVars, sentVars, readRest, Freed, Doomed, SendsOK, PlacesOK, HeldOK, Answered
  <2>6. QED
    BY <2>1, <2>2, <2>3, <2>4, <2>5
<1>11. QED
  BY <1>1, <1>2, <1>3, <1>4, <1>5, <1>6, <1>7, <1>8, <1>9, <1>10

\* The closing of the client.
LEMMA CloseKeeps ==
    ASSUME IInv,
           \/ Closes \/ ClosesPending \/ ClosesTurns
    PROVE  IInv'
<1> USE DEF IInv
<1>1. CASE Closes
  <2>1. /\ FlagsOK' /\ SendsOK' /\ KillsOK' /\ LinesOK' /\ HeldOK'
        /\ Kills' /\ Armed' /\ Credit'
    BY <1>1, Frame DEF Closes, Open, sessionVars, callVars, threadVars, serverVars, sentVars
  <2>2. PlacesOK'
    BY <1>1, SendAssumption DEF Closes, Open, sessionVars, callVars, threadVars,
       serverVars, sentVars, PlacesOK, SendsOK, KillsOK, Kills, HeldOK, LinesOK, Line
  <2>3. Answered'
    BY <1>1 DEF Closes, Open, sessionVars, callVars, threadVars, serverVars, sentVars,
       Answered, SendsOK, PlacesOK
  <2>4. Freed'
    BY <1>1, SendAssumption DEF Closes, Open, sessionVars, callVars, threadVars,
       serverVars, sentVars, Freed, Doomed, SendsOK, PlacesOK, HeldOK, Answered
  <2>5. QED
    BY <2>1, <2>2, <2>3, <2>4
<1>2. CASE ClosesPending
  <2>1. FlagsOK' /\ KillsOK' /\ LinesOK' /\ HeldOK' /\ Kills' /\ Armed' /\ Credit'
    BY <1>2, Frame DEF ClosesPending, sessionVars, threadVars, serverVars, sentVars
  <2>2. PlacesOK'
    BY <1>2, SendAssumption DEF ClosesPending, sessionVars, threadVars, serverVars,
       sentVars, PlacesOK, SendsOK, KillsOK, Kills, HeldOK, LinesOK, Line
  <2>3. SendsOK'
    BY <1>2 DEF ClosesPending, sessionVars, threadVars, serverVars, sentVars, SendsOK,
       LinesOK, Before, Finishing, Ending, Returned
  <2>4. Answered'
    BY <1>2 DEF ClosesPending, sessionVars, threadVars, serverVars, sentVars, Answered,
       SendsOK, PlacesOK
  <2>5. Freed'
    BY <1>2, SendAssumption DEF ClosesPending, sessionVars, threadVars, serverVars,
       sentVars, Freed, Doomed, SendsOK, PlacesOK, HeldOK, Answered
  <2>6. QED
    BY <2>1, <2>2, <2>3, <2>4, <2>5
<1>3. CASE ClosesTurns
  <2>1. FlagsOK' /\ SendsOK' /\ KillsOK' /\ LinesOK' /\ Kills' /\ Armed' /\ Credit'
    BY <1>3, Frame DEF ClosesTurns, ClearAndReap, callVars, threadVars, serverVars, sentVars
  <2>2. PlacesOK'
    BY <1>3, SendAssumption DEF ClosesTurns, ClearAndReap, callVars, threadVars,
       serverVars, sentVars, PlacesOK, SendsOK, KillsOK, Kills, HeldOK, LinesOK, Line
  <2>3. HeldOK'
    BY <1>3, SendAssumption DEF ClosesTurns, ClearAndReap, callVars, threadVars,
       serverVars, sentVars, HeldOK, PlacesOK, SendsOK, Kills, KillsOK
  <2>4. Answered'
    BY <1>3 DEF ClosesTurns, ClearAndReap, callVars, threadVars, serverVars, sentVars,
       Answered, SendsOK, PlacesOK
  <2>5. Freed'
    BY <1>3, SendAssumption DEF ClosesTurns, ClearAndReap, callVars, threadVars,
       serverVars, sentVars, Freed, Doomed, SendsOK, PlacesOK, HeldOK, Answered
  <2>6. QED
    BY <2>1, <2>2, <2>3, <2>4, <2>5
<1>4. QED
  BY <1>1, <1>2, <1>3

\* The server.
LEMMA ServerKeeps ==
    ASSUME IInv,
           \/ ServerAccepts \/ ServerRefuses \/ ServerEndsTurn \/ ServerDies
    PROVE  IInv'
<1> USE DEF IInv
<1>1. CASE ServerAccepts
  <2>1. /\ FlagsOK' /\ SendsOK' /\ KillsOK' /\ HeldOK' /\ Kills'
        /\ Answered' /\ Freed' /\ Armed' /\ Credit'
    BY <1>1, Frame DEF ServerAccepts, Says, sessionVars, callVars, threadVars, clientVars,
       sentVars
  <2>2. PlacesOK'
    BY <1>1, SendAssumption DEF ServerAccepts, Says, sessionVars, callVars, threadVars,
       clientVars, sentVars, PlacesOK, SendsOK, KillsOK, Kills, HeldOK, LinesOK, Line
  <2>3. LinesOK'
    <3>1. Head(asked) \in Send /\ Tail(asked) \in Seq(Send)
      BY <1>1, HeadTailProperties DEF ServerAccepts, LinesOK
    <3>2. ASSUME NEW a \in Line, NEW b \in Line
          PROVE  lines \o <<a, b>> \in Seq(Line)
      BY ConcatProperties DEF LinesOK
    <3>3. \A t \in Send : Says("response", t) \in Line /\ Says("started", t) \in Line
      BY DEF Says, Line
    <3>4. lines' \in Seq(Line) /\ asked' \in Seq(Send)
      BY <1>1, <3>1, <3>2, <3>3 DEF ServerAccepts
    <3>5. QED
      BY <1>1, <3>4 DEF ServerAccepts, clientVars, LinesOK
  <2>4. QED
    BY <2>1, <2>2, <2>3
<1>2. CASE ServerRefuses
  <2>1. /\ FlagsOK' /\ PlacesOK' /\ SendsOK' /\ KillsOK' /\ HeldOK'
        /\ Kills' /\ Answered' /\ Freed' /\ Armed' /\ Credit'
    BY <1>2, Frame DEF ServerRefuses, Says, sessionVars, callVars, threadVars, clientVars,
       sentVars
  <2>2. LinesOK'
    BY <1>2, SendAssumption DEF ServerRefuses, Says, sessionVars, callVars, threadVars,
       clientVars, sentVars, LinesOK, Line, NoLine, PlacesOK
  <2>3. QED
    BY <2>1, <2>2
<1>3. CASE ServerEndsTurn
  <2>1. /\ FlagsOK' /\ SendsOK' /\ KillsOK' /\ HeldOK' /\ Kills'
        /\ Answered' /\ Freed' /\ Armed' /\ Credit'
    BY <1>3, Frame DEF ServerEndsTurn, Says, sessionVars, callVars, threadVars, clientVars,
       sentVars
  <2>2. PlacesOK'
    BY <1>3, SendAssumption DEF ServerEndsTurn, Says, sessionVars, callVars, threadVars,
       clientVars, sentVars, PlacesOK, SendsOK, KillsOK, Kills, HeldOK, LinesOK, Line
  <2>3. LinesOK'
    BY <1>3, SendAssumption DEF ServerEndsTurn, Says, sessionVars, callVars, threadVars,
       clientVars, sentVars, LinesOK, Line, NoLine, PlacesOK
  <2>4. QED
    BY <2>1, <2>2, <2>3
<1>4. CASE ServerDies
  <2>1. /\ SendsOK' /\ KillsOK' /\ HeldOK' /\ Kills' /\ Answered'
        /\ Freed' /\ Armed' /\ Credit'
    BY <1>4, Frame DEF ServerDies, sessionVars, callVars, threadVars, clientVars, sentVars
  <2>2. FlagsOK'
    BY <1>4 DEF ServerDies, sessionVars, callVars, threadVars, clientVars, sentVars, FlagsOK
  <2>3. PlacesOK'
    BY <1>4, SendAssumption DEF ServerDies, sessionVars, callVars, threadVars, clientVars,
       sentVars, PlacesOK, SendsOK, KillsOK, Kills, HeldOK, LinesOK, Line
  <2>4. LinesOK'
    BY <1>4, SendAssumption DEF ServerDies, sessionVars, callVars, threadVars, clientVars,
       sentVars, LinesOK, Line, NoLine, PlacesOK
  <2>5. QED
    BY <2>1, <2>2, <2>3, <2>4
<1>5. QED
  BY <1>1, <1>2, <1>3, <1>4

-----------------------------------------------------------------------------
(* The theorems                                                              *)

\* The inductive invariant.
THEOREM CodexInvariant == Spec => []IInv
<1>1. Init => IInv
  <2>1. <<>> \in Seq(Send) /\ <<>> \in Seq(Line)
    BY EmptySeq
  <2>2. Init => FlagsOK
    BY DEF Init, FlagsOK
  <2>3. Init => PlacesOK /\ SendsOK /\ KillsOK
    BY SendAssumption DEF Init, PlacesOK, SendsOK, KillsOK, Before
  <2>4. Init => LinesOK
    BY <2>1 DEF Init, LinesOK
  <2>5. Init => HeldOK /\ Kills /\ Answered /\ Freed /\ Armed
    BY DEF Init, HeldOK, Kills, Answered, Freed, Armed
  <2>6. Init => Credit
    BY Askers DEF Init, Credit
  <2>7. QED
    BY <2>2, <2>3, <2>4, <2>5, <2>6 DEF IInv
<1>2. IInv /\ [Next]_vars => IInv'
  <2> SUFFICES ASSUME IInv, [Next]_vars
               PROVE  IInv'
    OBVIOUS
  <2>1. CASE \E s \in Send : SendNext(s)
    BY <2>1, SendKeeps DEF SendNext
  <2>2. CASE \E k \in Killer : KillNext(k)
    BY <2>2, KillKeeps DEF KillNext
  <2>3. CASE ReaderNext
    BY <2>3, ReaderKeeps DEF ReaderNext
  <2>4. CASE CloseNext
    BY <2>4, CloseKeeps DEF CloseNext
  <2>5. CASE ServerNext
    BY <2>5, ServerKeeps DEF ServerNext
  <2>6. CASE UNCHANGED vars
    BY <2>6, Frame DEF IInv, vars, sessionVars, callVars, threadVars, clientVars,
       serverVars, sentVars
  <2>7. QED
    BY <2>1, <2>2, <2>3, <2>4, <2>5, <2>6 DEF Next
<1>3. QED
  BY <1>1, <1>2, PTL DEF Spec

\* An armed interrupt is fired by exactly one of send() and interrupt(): never
\* more often than it was asked for, and never left behind a turn that began.
THEOREM CodexInterruptFiresOnce == Spec => []InterruptFiresOnce
<1>1. ASSUME IInv
      PROVE  InterruptFiresOnce
  <2>1. \A s \in Send : fired[s] \in Nat /\ fired[s] <= Cardinality(Asking(s))
    BY <1>1, Askers DEF IInv, Credit
  <2>2. fired \in [Send -> 0 .. Cardinality(Killer)]
    <3>1. \A s \in Send : fired[s] \in 0 .. Cardinality(Killer)
      BY <2>1, Askers, KillerAssumption, FS_CardinalityType
    <3>2. QED
      BY <1>1, <3>1 DEF IInv, Credit
  <2>3. TypeOK
    BY <1>1, <2>2 DEF IInv, TypeOK, FlagsOK, PlacesOK, SendsOK, KillsOK, LinesOK, HeldOK
  <2>4. \A s \in pint : send[s] = "ok" => \E k \in Killer : Killing(k, s)
    BY <1>1 DEF IInv, Armed, Killing
  <2>5. QED
    BY <2>1, <2>3, <2>4 DEF InterruptFiresOnce, Asking
<1>2. QED
  BY <1>1, CodexInvariant, PTL

\* A server that died leaves no send to its timeout, and no chat busy once the sends are over.
THEOREM CodexDeadServerFreesChat == Spec => []DeadServerFreesChat
<1>1. IInv => DeadServerFreesChat
  <2>1. IInv => ClosedAnswersAll
    BY DEF IInv, Answered, ClosedAnswersAll
  <2>2. QED
    BY <2>1 DEF IInv, Freed, Doomed, PlacesOK, Returned, DeadServerFreesChat
<1>2. QED
  BY <1>1, CodexInvariant, PTL

-----------------------------------------------------------------------------
(* The lines of the server                                                   *)

Early == {"new", "refused", "ready", "moved", "client", "claimed", "persisted", "armed", "begun",
          "asks"}

InAsked(s) == \E i \in DOMAIN asked : asked[i] = s
InLines(l) == \E i \in DOMAIN lines : lines[i] = l

\* What the server has made of a request: a turn, or an answer.
Accepted(s) == \/ running = s \/ turn = s
               \/ InLines(Says("started", s)) \/ InLines(Says("completed", s))
Touched(s) == running = s \/ turn = s \/ \E i \in DOMAIN lines : lines[i].turn = s

\* The kinds of two lines of one turn.
Follow == {<<"response", "started">>, <<"started", "response">>,
           <<"response", "completed">>, <<"started", "completed">>}

Closed == /\ closing # "open" => ~alive
          /\ ~alive => running = NoTurn

Reading == /\ reader.pc = "idle" => reader.line = NoLine
           /\ reader.pc # "idle" => reader.line.kind \in {"started", "completed"}
           /\ reader.pc = "clear" => reader.line.kind = "completed"

\* A send asks once, and the server deals with it once.
Once ==
    /\ \A i, j \in DOMAIN asked : asked[i] = asked[j] => i = j
    /\ \A i, j \in DOMAIN lines :
          i < j /\ lines[i].turn = lines[j].turn => <<lines[i].kind, lines[j].kind>> \in Follow
    /\ \A i \in DOMAIN lines :
          lines[i].turn = turn => <<reader.line.kind, lines[i].kind>> \in Follow
    /\ \A s \in Send : InAsked(s) => ~Touched(s)
    /\ \A s \in Send : InAsked(s) \/ Touched(s) => send[s] \notin Early
    /\ running # NoTurn => /\ reader.line # Says("completed", running)
                           /\ ~InLines(Says("completed", running))
                           /\ ~InLines(Says("refusal", running))

\* What a send knows of its request.
Knows ==
    /\ \A s \in pending : send[s] \in {"asks", "waiting"} /\ result[s] = "none"
    /\ \A s \in Send : send[s] \in Early =>
          \/ result[s] = "none"
          \/ send[s] = "asks" /\ result[s] = "error" /\ closing # "open"
    /\ \A s \in Send : send[s] \in Finishing => result[s] # "none"
    /\ \A s \in Send : send[s] = "expect" => result[s] = "ok"
    /\ \A s \in Send : send[s] = "disarm" => result[s] # "timeout"
    /\ \A s \in Send : send[s] \in {"unwind", "fail"} => result[s] # "ok"
    /\ \A s \in Send : expected = s => result[s] = "ok"
    /\ \A s \in Send : taken[s] # {} => send[s] \in {"disarm", "sweep"}

\* While the server lives, its answer is on the way or has come.
Told ==
    /\ \A s \in Send : (InAsked(s) \/ Touched(s)) /\ result[s] = "none" => send[s] = "waiting"
    /\ alive => \A s \in Send :
          /\ InAsked(s) => result[s] \in {"none", "timeout"}
          /\ Accepted(s) /\ result[s] = "none" => InLines(Says("response", s))
          /\ Accepted(s) => result[s] # "error"

Places == Closed /\ Reading /\ Once /\ Knows /\ Told

\* These are about the requests, the lines, the running turn and the reader.
LEMMA Marks ==
    ASSUME UNCHANGED <<asked, lines, running, reader>>
    PROVE  /\ \A s : InAsked(s)' <=> InAsked(s)
           /\ \A s : Touched(s)' <=> Touched(s)
           /\ \A s : Accepted(s)' <=> Accepted(s)
           /\ \A l : InLines(l)' <=> InLines(l)
BY DEF InAsked, Touched, Accepted, InLines, turn

\* A turn the server has made is one it has spoken of.
LEMMA AcceptedTouched == \A s : Accepted(s) => Touched(s)
BY DEF Accepted, Touched, InLines, Says

\* A send does not become an early one.
LEMMA OnceFrame ==
    ASSUME Once, UNCHANGED <<asked, lines, running, reader>>,
           \A s \in Send : send[s] \notin Early => send'[s] \notin Early
    PROVE  Once'
BY Marks DEF Once, turn

\* A step that says nothing to the server and hears nothing of it.
Quiet ==
    /\ UNCHANGED <<asked, lines, running, reader, alive, closing>>
    /\ \A s \in Send : send[s] \notin Early => send'[s] \notin Early
    /\ \A s \in Send : /\ result'[s] = "none" => result[s] = "none"
                       /\ result'[s] = "none" /\ send[s] = "waiting" => send'[s] = "waiting"
                       /\ alive /\ result'[s] # result[s] =>
                             result[s] = "none" /\ result'[s] = "timeout"

\* What the two sides know of each other outlasts such a step.
LEMMA QuietKeeps ==
    ASSUME Places, Quiet, Knows'
    PROVE  Places'
<1>1. Closed' /\ Reading'
  BY DEF Places, Quiet, Closed, Reading
<1>2. Once'
  BY OnceFrame DEF Places, Quiet
<1>3. Told'
  <2>1. \A s \in Send : (InAsked(s) \/ Touched(s))' /\ result'[s] = "none" => send'[s] = "waiting"
    BY Marks DEF Places, Quiet, Told
  <2>2. ASSUME alive, NEW s \in Send
        PROVE  /\ InAsked(s)' => result'[s] \in {"none", "timeout"}
               /\ Accepted(s)' /\ result'[s] = "none" => InLines(Says("response", s))'
               /\ Accepted(s)' => result'[s] # "error"
    BY <2>2, Marks DEF Places, Quiet, Told
  <2>3. QED
    BY <2>1, <2>2 DEF Told, Quiet
<1>4. QED
  BY <1>1, <1>2, <1>3 DEF Places

\* send(), up to its request and after the answer.
LEMMA SendQuiet ==
    ASSUME IInv, Places, NEW s \in Send, SendNext(s), ~SendAsks(s)
    PROVE  Quiet
<1> USE DEF IInv, SendsOK, Before, Finishing, Ending, Returned, Quiet, Early
<1>1. CASE SendBegins(s)
  BY <1>1 DEF SendBegins, To, sessionVars, threadVars, clientVars, serverVars, sentVars, sendRest
<1>2. CASE SendMoves(s)
  BY <1>2 DEF SendMoves, To, ClearAndReap, Open, threadVars, clientVars, serverVars, sentVars, sendRest
<1>3. CASE SendGetsClient(s)
  BY <1>3 DEF SendGetsClient, To, Open, sessionVars, threadVars, clientVars, serverVars, sentVars, sendRest
<1>4. CASE SendClaims(s)
  BY <1>4 DEF SendClaims, To, threadVars, clientVars, serverVars, sentVars, sendRest
<1>5. CASE SendPersists(s)
  BY <1>5 DEF SendPersists, To, threadVars, clientVars, serverVars, sentVars, sendRest
<1>6. CASE SendPersistFails(s)
  BY <1>6 DEF SendPersistFails, To, sessionVars, threadVars, clientVars, serverVars, sentVars, sendRest
<1>7. CASE SendArms(s)
  BY <1>7 DEF SendArms, To, sessionVars, clientVars, serverVars, sentVars, sendRest
<1>8. CASE SendStarts(s)
  BY <1>8 DEF SendStarts, To, sessionVars, clientVars, serverVars, sentVars, sendRest
<1>9. CASE SendAskFails(s)
  BY <1>9 DEF SendAskFails, To, Open, sessionVars, threadVars, serverVars, sentVars, Places, Closed
<1>10. CASE SendHears(s)
  BY <1>10 DEF SendHears, To, sessionVars, threadVars, clientVars, serverVars, sentVars, sendRest
<1>11. CASE SendTimesOut(s)
  BY <1>11 DEF SendTimesOut, To, sessionVars, threadVars, serverVars, sentVars, Places, Knows
<1>12. CASE SendExpects(s)
  BY <1>12 DEF SendExpects, To, sessionVars, clientVars, serverVars, sentVars, sendRest
<1>13. CASE SendClearsStarting(s)
  BY <1>13 DEF SendClearsStarting, To, sessionVars, clientVars, serverVars, sentVars, sendRest
<1>14. CASE SendTakes(s)
  BY <1>14 DEF SendTakes, To, Disarms, sessionVars, clientVars, serverVars, sentVars
<1>15. CASE SendDisarms(s)
  BY <1>15 DEF SendDisarms, To, sessionVars, clientVars, serverVars, sentVars, sendRest
<1>16. CASE SendSweeps(s)
  BY <1>16 DEF SendSweeps, To, Sweep, sessionVars, clientVars, serverVars
<1>17. CASE SendLooks(s)
  BY <1>17 DEF SendLooks, To, sessionVars, threadVars, clientVars, serverVars, sentVars, sendRest
<1>18. CASE SendPublishes(s)
  BY <1>18 DEF SendPublishes, To, threadVars, clientVars, serverVars, sentVars, sendRest
<1>19. CASE SendSwaps(s)
  BY <1>19 DEF SendSwaps, To, Fire, threadVars, clientVars, serverVars, sendRest
<1>20. CASE SendFindsGone(s)
  BY <1>20 DEF SendFindsGone, To, Fire, threadVars, clientVars, serverVars, sendRest
<1>21. CASE SendRollsBack(s)
  BY <1>21 DEF SendRollsBack, To, threadVars, clientVars, serverVars, sentVars, sendRest
<1>22. CASE SendFails(s)
  BY <1>22 DEF SendFails, To, ClearAndReap, threadVars, clientVars, serverVars, sentVars, sendRest
<1>23. CASE SendPends(s)
  BY <1>23 DEF SendPends, To, sessionVars, threadVars, serverVars, sentVars, sendRest
<1>24. QED
  BY <1>1, <1>2, <1>3, <1>4, <1>5, <1>6, <1>7, <1>8, <1>9, <1>10, <1>11, <1>12, <1>13, <1>14, <1>15, <1>16, <1>17, <1>18, <1>19, <1>20, <1>21, <1>22, <1>23 DEF SendNext

\* What the sends know of their requests holds through send().
LEMMA SendPlaces ==
    ASSUME IInv, Places, NEW s \in Send, SendNext(s), ~SendAsks(s)
    PROVE  Places'
<1>0. SUFFICES Knows'
  BY SendQuiet, QuietKeeps
<1> USE DEF IInv, SendsOK, PlacesOK, Before, Finishing, Ending, Returned, Places, Knows, Early
<1>1. CASE SendBegins(s)
  BY <1>1 DEF SendBegins, To, sessionVars, threadVars, clientVars, serverVars, sentVars, sendRest
<1>2. CASE SendMoves(s)
  BY <1>2 DEF SendMoves, To, ClearAndReap, Open, threadVars, clientVars, serverVars, sentVars, sendRest
<1>3. CASE SendGetsClient(s)
  BY <1>3 DEF SendGetsClient, To, Open, sessionVars, threadVars, clientVars, serverVars, sentVars, sendRest
<1>4. CASE SendClaims(s)
  BY <1>4 DEF SendClaims, To, threadVars, clientVars, serverVars, sentVars, sendRest
<1>5. CASE SendPersists(s)
  BY <1>5 DEF SendPersists, To, threadVars, clientVars, serverVars, sentVars, sendRest
<1>6. CASE SendPersistFails(s)
  BY <1>6 DEF SendPersistFails, To, sessionVars, threadVars, clientVars, serverVars, sentVars, sendRest
<1>7. CASE SendArms(s)
  BY <1>7 DEF SendArms, To, sessionVars, clientVars, serverVars, sentVars, sendRest
<1>8. CASE SendStarts(s)
  BY <1>8 DEF SendStarts, To, sessionVars, clientVars, serverVars, sentVars, sendRest
<1>9. CASE SendAskFails(s)
  BY <1>9 DEF SendAskFails, To, Open, sessionVars, threadVars, serverVars, sentVars
<1>10. CASE SendHears(s)
  BY <1>10 DEF SendHears, To, sessionVars, threadVars, clientVars, serverVars, sentVars, sendRest
<1>11. CASE SendTimesOut(s)
  BY <1>11 DEF SendTimesOut, To, sessionVars, threadVars, serverVars, sentVars
<1>12. CASE SendExpects(s)
  BY <1>12 DEF SendExpects, To, sessionVars, clientVars, serverVars, sentVars, sendRest
<1>13. CASE SendClearsStarting(s)
  BY <1>13 DEF SendClearsStarting, To, sessionVars, clientVars, serverVars, sentVars, sendRest
<1>14. CASE SendTakes(s)
  BY <1>14 DEF SendTakes, To, Disarms, sessionVars, clientVars, serverVars, sentVars
<1>15. CASE SendDisarms(s)
  BY <1>15 DEF SendDisarms, To, sessionVars, clientVars, serverVars, sentVars, sendRest
<1>16. CASE SendSweeps(s)
  BY <1>16 DEF SendSweeps, To, Sweep, sessionVars, clientVars, serverVars
<1>17. CASE SendLooks(s)
  BY <1>17 DEF SendLooks, To, sessionVars, threadVars, clientVars, serverVars, sentVars, sendRest
<1>18. CASE SendPublishes(s)
  BY <1>18 DEF SendPublishes, To, threadVars, clientVars, serverVars, sentVars, sendRest
<1>19. CASE SendSwaps(s)
  BY <1>19 DEF SendSwaps, To, Fire, threadVars, clientVars, serverVars, sendRest
<1>20. CASE SendFindsGone(s)
  BY <1>20 DEF SendFindsGone, To, Fire, threadVars, clientVars, serverVars, sendRest
<1>21. CASE SendRollsBack(s)
  BY <1>21 DEF SendRollsBack, To, threadVars, clientVars, serverVars, sentVars, sendRest
<1>22. CASE SendFails(s)
  BY <1>22 DEF SendFails, To, ClearAndReap, threadVars, clientVars, serverVars, sentVars, sendRest
<1>23. CASE SendPends(s)
  BY <1>23 DEF SendPends, To, sessionVars, threadVars, serverVars, sentVars, sendRest
<1>24. QED
  BY <1>1, <1>2, <1>3, <1>4, <1>5, <1>6, <1>7, <1>8, <1>9, <1>10, <1>11, <1>12, <1>13, <1>14, <1>15, <1>16, <1>17, <1>18, <1>19, <1>20, <1>21, <1>22, <1>23 DEF SendNext

\* The request.
LEMMA AsksPlaces ==
    ASSUME IInv, Places, NEW s \in Send, SendAsks(s)
    PROVE  Places'
<1> USE DEF IInv, Places
<1>1. /\ send[s] = "asks" /\ result[s] = "none" /\ ~InAsked(s) /\ ~Touched(s) /\ alive' = alive
      /\ UNCHANGED <<lines, running, reader, alive, closing, result, expected, taken, pending>>
      /\ send' = [send EXCEPT ![s] = "waiting"]
  BY DEF SendAsks, To, Open, Once, Knows, Early, sessionVars, sendRest, threadVars, clientVars,
         sentVars
<1>2. /\ DOMAIN asked' = DOMAIN asked \union {Len(asked) + 1} /\ Len(asked) + 1 \notin DOMAIN asked
      /\ \A i \in DOMAIN asked : asked'[i] = asked[i]
      /\ asked'[Len(asked) + 1] = s
  BY DEF SendAsks, LinesOK
<1>3. /\ \A t : InAsked(t)' <=> InAsked(t) \/ t = s
      /\ \A t : (Touched(t)' <=> Touched(t)) /\ (Accepted(t)' <=> Accepted(t))
      /\ \A l : InLines(l)' <=> InLines(l)
  <2>1. \A t : InAsked(t)' <=> InAsked(t) \/ t = s
    BY <1>2 DEF InAsked
  <2>2. QED
    BY <1>1, <2>1 DEF Touched, Accepted, InLines, turn
<1>4. Closed' /\ Reading'
  BY <1>1 DEF Closed, Reading
<1>5. Once'
  <2>1. \A i, j \in DOMAIN asked' : asked'[i] = asked'[j] => i = j
    BY <1>1, <1>2 DEF Once, InAsked
  <2>2. \A t \in Send : InAsked(t)' => ~Touched(t)'
    BY <1>1, <1>3 DEF Once
  <2>3. \A t \in Send : (InAsked(t) \/ Touched(t))' => send'[t] \notin Early
    BY <1>1, <1>3 DEF Once, Early, SendsOK
  <2>4. QED
    BY <1>1, <1>3, <2>1, <2>2, <2>3 DEF Once, turn
<1>6. Knows'
  BY <1>1 DEF Knows, SendsOK, PlacesOK, Early, Finishing
<1>7. Told'
  BY <1>1, <1>3 DEF Told, SendsOK
<1>8. QED
  BY <1>4, <1>5, <1>6, <1>7

\* The killers, and the closing of the client.
LEMMA KillQuiet ==
    ASSUME NEW k \in Killer, KillNext(k)
    PROVE  /\ Quiet
           /\ UNCHANGED <<send, result, pending, threadVars, taken, swept>>
           /\ UNCHANGED <<active, present>> \/ ~present'
<1>1. CASE KillReads(k)
  BY <1>1 DEF KillReads, threadVars, clientVars, serverVars, sentVars, killRest, Quiet
<1>2. CASE KillArms(k)
  BY <1>2 DEF KillArms, AfterKill, threadVars, clientVars, serverVars, sentVars, killRest, Quiet
<1>3. CASE KillReadsId(k)
  BY <1>3 DEF KillReadsId, AfterKill, sessionVars, threadVars, clientVars, serverVars, sentVars, killRest, Quiet
<1>4. CASE KillSwaps(k)
  BY <1>4 DEF KillSwaps, Fire, AfterKill, threadVars, clientVars, serverVars, killRest, Quiet
<1>5. CASE DisposeReaps(k)
  BY <1>5 DEF DisposeReaps, threadVars, clientVars, serverVars, sentVars, killRest, Quiet
<1>6. QED
  BY <1>1, <1>2, <1>3, <1>4, <1>5 DEF KillNext

\* interrupt() and dispose() say nothing of a request.
LEMMA KillPlaces ==
    ASSUME Places, NEW k \in Killer, KillNext(k)
    PROVE  Places'
<1>1. Knows'
  BY KillQuiet DEF Places, Knows, Quiet, threadVars
<1>2. QED
  BY <1>1, KillQuiet, QuietKeeps

\* A closing client answers what is pending with an error.
LEMMA ClosePlaces ==
    ASSUME IInv, Places, CloseNext
    PROVE  Places'
<1> USE DEF IInv, Places
<1>0. ~alive /\ UNCHANGED <<asked, lines, running, reader, alive, send, expected, taken>>
      /\ Closed'
  <2>1. CASE Closes
    BY <2>1 DEF Closes, Open, Closed, sessionVars, callVars, threadVars, serverVars, sentVars
  <2>2. CASE ClosesPending
    BY <2>2 DEF ClosesPending, Closed, sessionVars, threadVars, serverVars, sentVars
  <2>3. CASE ClosesTurns
    BY <2>3 DEF ClosesTurns, Closed, callVars, threadVars, serverVars, sentVars
  <2>4. QED
    BY <2>1, <2>2, <2>3 DEF CloseNext
<1>1. /\ pending' \subseteq pending
      /\ \A s \in Send : result'[s] # result[s] =>
            s \in pending /\ s \notin pending' /\ result'[s] = "error"
      /\ closing' # "open"
  <2>1. CASE Closes \/ ClosesTurns
    BY <2>1 DEF Closes, ClosesTurns, callVars
  <2>2. CASE ClosesPending
    BY <2>2 DEF ClosesPending
  <2>3. QED
    BY <2>1, <2>2 DEF CloseNext
<1>2. Reading' /\ Once'
  BY <1>0, OnceFrame DEF Reading
<1>3. Knows'
  BY <1>0, <1>1 DEF Knows, PlacesOK, Early, Finishing
<1>4. Told'
  BY <1>0, <1>1, Marks DEF Told
<1>5. QED
  BY <1>0, <1>2, <1>3, <1>4

\* The lines are lines.
LEMMA LineType ==
    ASSUME IInv
    PROVE  \A i \in DOMAIN lines : i \in Nat /\ lines[i] \in Line /\ lines[i].turn \in Send
<1>1. \A i \in DOMAIN lines : i \in Nat /\ lines[i] \in Line
  BY DEF IInv, LinesOK
<1>2. QED
  BY <1>1 DEF Line

\* The reader works on the line it has.
LEMMA WorksPlaces ==
    ASSUME IInv, Places, reader.pc # "idle",
           UNCHANGED <<asked, lines, running, alive, closing, send, result, pending, expected, taken>>,
           reader'.pc = "clear" => reader.line.kind = "completed",
           \/ reader'.pc # "idle" /\ reader'.line = reader.line
           \/ reader'.pc = "idle" /\ reader'.line = NoLine
    PROVE  Places'
<1> USE DEF IInv, Places
<1>1. /\ \A t : (InAsked(t)' <=> InAsked(t)) /\ (Touched(t)' /\ t \in Send => Touched(t))
      /\ \A t \in Send : Accepted(t)' => Accepted(t)
      /\ \A l : InLines(l)' <=> InLines(l)
  BY SendAssumption DEF InAsked, Touched, Accepted, InLines, turn, NoLine
<1>2. Closed' /\ Reading'
  BY DEF Closed, Reading
<1>3. Once'
  <2>1. \A i \in DOMAIN lines : lines[i].turn \in Send
    BY LineType
  <2>2. \A i \in DOMAIN lines : lines[i].turn = reader'.line.turn =>
           <<reader'.line.kind, lines[i].kind>> \in Follow
    BY <2>1, SendAssumption DEF Once, turn, NoLine
  <2>3. running # NoTurn => reader'.line # Says("completed", running)
    BY SendAssumption DEF Once, NoLine, Says
  <2>4. \A s \in Send : InAsked(s)' => ~Touched(s)'
    BY <1>1 DEF Once
  <2>5. \A s \in Send : (InAsked(s) \/ Touched(s))' => send'[s] \notin Early
    BY <1>1 DEF Once
  <2>6. QED
    BY <1>1, <2>2, <2>3, <2>4, <2>5 DEF Once, turn
<1>4. Knows'
  BY DEF Knows
<1>5. Told'
  BY <1>1 DEF Told
<1>6. QED
  BY <1>2, <1>3, <1>4, <1>5

\* The first line, and the others.
LEMMA Reads1 ==
    ASSUME IInv, ReadLine
    PROVE  /\ reader.pc = "idle" /\ 1 \in DOMAIN lines /\ lines[1] \in Line
           /\ \A i \in DOMAIN lines : lines[i] \in Line
           /\ \A i \in DOMAIN lines' : /\ i \in Nat /\ 1 < i + 1 /\ i + 1 \in DOMAIN lines
                                        /\ lines'[i] = lines[i + 1]
           /\ \A i \in DOMAIN lines : i # 1 => i - 1 \in DOMAIN lines' /\ lines'[i - 1] = lines[i]
           /\ UNCHANGED <<asked, running, alive, closing, send, expected, taken>>
           /\ lines[1].kind \in {"response", "refusal"} =>
                /\ pending' = pending \ {lines[1].turn} /\ UNCHANGED reader
                /\ result' = IF lines[1].turn \in pending
                             THEN [result EXCEPT ![lines[1].turn] =
                                      IF lines[1].kind = "response" THEN "ok" ELSE "error"]
                             ELSE result
           /\ lines[1].kind \in {"started", "completed"} =>
                reader' = [pc |-> "armed", line |-> lines[1]] /\ UNCHANGED <<result, pending>>
<1>1. lines \in Seq(Line) /\ lines # <<>>
  BY DEF IInv, LinesOK, ReadLine
<1>2. Head(lines) = lines[1] /\ 1 \in DOMAIN lines /\ \A i \in DOMAIN lines : lines[i] \in Line
  BY <1>1
<1>3. /\ \A i \in DOMAIN lines' : /\ i \in Nat /\ 1 < i + 1 /\ i + 1 \in DOMAIN lines
                                   /\ lines'[i] = lines[i + 1]
      /\ \A i \in DOMAIN lines : i # 1 => i - 1 \in DOMAIN lines' /\ lines'[i - 1] = lines[i]
  BY <1>1 DEF ReadLine
<1>4. QED
  BY <1>2, <1>3 DEF ReadLine, Line, sessionVars, threadVars, sentVars

\* The reader takes an answer to its send, or a notification in hand.
LEMMA LinePlaces ==
    ASSUME IInv, Places, ReadLine
    PROVE  Places'
<1> USE DEF IInv, Places
<1> DEFINE l == lines[1]
<1>0. l \in Line /\ 1 \in DOMAIN lines /\ turn = NoTurn /\ NoTurn \notin Send /\ reader.line = NoLine
  BY Reads1, SendAssumption DEF Reading, turn, NoLine
<1>1. CASE l.kind \in {"response", "refusal"}
  <2>1. UNCHANGED reader
    BY Reads1, <1>1
  <2>2. /\ \A t : InAsked(t)' <=> InAsked(t)
        /\ \A t : Touched(t)' => Touched(t)
        /\ \A t : Accepted(t)' => Accepted(t)
        /\ \A m : InLines(m)' => InLines(m)
        /\ \A m : InLines(m) => InLines(m)' \/ m = l
    BY Reads1, <2>1 DEF InAsked, Touched, Accepted, InLines, turn
  <2>3. Touched(l.turn) /\ l.turn \in Send
    BY <1>0 DEF Touched, Line
  <2>4. l.turn \in pending => /\ result'[l.turn] # "none"
                              /\ l.kind = "response" => result'[l.turn] = "ok"
    BY Reads1, <1>1 DEF SendsOK, PlacesOK
  <2>5. /\ \A s \in Send : s # l.turn \/ s \notin pending => result'[s] = result[s]
        /\ pending' = pending \ {l.turn} /\ UNCHANGED <<send, alive, closing, expected, taken, running>>
    BY Reads1, <1>1 DEF SendsOK
  <2>6. Closed' /\ Reading'
    BY <2>1, <2>5 DEF Closed, Reading
  <2>7. Once'
    <3>1. \A i, j \in DOMAIN lines' :
             i < j /\ lines'[i].turn = lines'[j].turn => <<lines'[i].kind, lines'[j].kind>> \in Follow
      BY Reads1 DEF Once
    <3>2. \A i \in DOMAIN lines' : lines'[i].turn # NoTurn
      BY Reads1, <1>0 DEF Line
    <3>3. QED
      BY Reads1, <1>0, <2>1, <2>2, <3>1, <3>2 DEF Once, turn
  <2>8. Knows'
    <3>1. send[l.turn] \notin Early
      BY <2>3 DEF Once
    <3>2. ASSUME NEW s \in Send, send[s] \in Early
          PROVE  result'[s] = result[s]
      BY <2>5, <3>1, <3>2
    <3>3. \A s \in Send : result[s] # "none" => result'[s] = result[s]
      BY <2>5 DEF Knows
    <3>4. \A s \in pending' : send'[s] \in {"asks", "waiting"} /\ result'[s] = "none"
      BY <2>5 DEF Knows, PlacesOK
    <3>5. \A s \in Send : /\ send[s] \in Finishing => result'[s] # "none"
                          /\ result[s] = "ok" => result'[s] = "ok"
                          /\ send[s] # "waiting" => result'[s] = result[s]
      BY <2>5, <3>1, <3>3 DEF Knows, Early
    <3>6. QED
      BY <2>5, <3>2, <3>3, <3>4, <3>5 DEF Knows
  <2>9. Told'
    <3>1. \A s \in Send : (InAsked(s) \/ Touched(s))' /\ result'[s] = "none" => send'[s] = "waiting"
      BY <2>2, <2>4, <2>5 DEF Told
    <3>2. ASSUME NEW s \in Send, alive, InAsked(s)
          PROVE  result'[s] \in {"none", "timeout"}
      BY <3>2, <2>3, <2>5 DEF Once, Told
    <3>3. ASSUME NEW s \in Send, alive, Accepted(s)', result'[s] = "none"
          PROVE  InLines(Says("response", s))'
      <4>1. Accepted(s) /\ result[s] = "none"
        BY <3>3, <2>2, <2>4, <2>5
      <4>2. InLines(Says("response", s)) /\ s \in pending
        BY <3>3, <4>1, AcceptedTouched DEF Told, Answered
      <4>3. Says("response", s) # l
        BY <3>3, <4>2, <2>4 DEF Says
      <4>4. QED
        BY <4>2, <4>3, <2>2
    <3>4. ASSUME NEW s \in Send, alive, Accepted(s)'
          PROVE  result'[s] # "error"
      <4>1. CASE s = l.turn /\ l.kind = "refusal"
        <5>1. l = Says("refusal", s) /\ InLines(l)
          BY <4>1, <1>0 DEF Says, Line, InLines
        <5>2. running # s
          BY <5>1, <1>0 DEF Once
        <5>3. turn' # s
          BY <1>0, <2>1 DEF turn
        <5>4. PICK i \in DOMAIN lines' : lines'[i].turn = s
          BY <3>4, <5>2, <5>3, <2>5 DEF Accepted, InLines, Says
        <5>5. i + 1 \in DOMAIN lines /\ 1 < i + 1 /\ lines[i + 1].turn = l.turn
          BY <5>4, <4>1, Reads1 DEF LinesOK
        <5>6. <<l.kind, lines[i + 1].kind>> \in Follow
          BY <5>5, <1>0 DEF Once
        <5>7. QED
          BY <5>6, <4>1 DEF Follow
      <4>2. CASE ~(s = l.turn /\ l.kind = "refusal")
        BY <3>4, <4>2, <2>2, <2>4, <2>5, <1>1 DEF Told
      <4>3. QED
        BY <4>1, <4>2
    <3>5. QED
      BY <3>1, <3>2, <3>3, <3>4, <2>2, <2>5 DEF Told
  <2>10. QED
    BY <2>6, <2>7, <2>8, <2>9
<1>2. CASE l.kind \in {"started", "completed"}
  <2>1. reader'.line = l /\ reader'.pc = "armed" /\ UNCHANGED <<result, pending, send, expected, taken>>
    BY Reads1, <1>2
  <2>2. l = Says(l.kind, l.turn) /\ InLines(l) /\ l.turn \in Send
    BY <1>0 DEF Line, Says, InLines
  <2>3. Accepted(l.turn) /\ Touched(l.turn)
    BY <1>0, <1>2, <2>2 DEF Accepted, Touched
  <2>4. /\ \A t : InAsked(t)' <=> InAsked(t)
        /\ \A t : Touched(t)' => Touched(t)
        /\ \A t : Accepted(t)' => Accepted(t)
        /\ \A m : InLines(m)' => InLines(m)
        /\ \A m : InLines(m) => InLines(m)' \/ m = l
    <3>1. /\ \A t : InAsked(t)' <=> InAsked(t)
          /\ \A m : InLines(m)' => InLines(m)
          /\ \A m : InLines(m) => InLines(m)' \/ m = l
      BY Reads1 DEF InAsked, InLines
    <3>2. turn' = l.turn
      BY <2>1 DEF turn
    <3>3. \A t : Touched(t)' => Touched(t)
      BY Reads1, <3>2, <2>3 DEF Touched
    <3>4. \A t : Accepted(t)' => Accepted(t)
      BY Reads1, <3>1, <3>2, <2>3 DEF Accepted
    <3>5. QED
      BY <3>1, <3>3, <3>4
  <2>5. Closed' /\ Reading'
    BY Reads1, <1>2, <2>1 DEF Closed, Reading
  <2>6. Once'
    <3>1. \A i, j \in DOMAIN lines' :
             i < j /\ lines'[i].turn = lines'[j].turn => <<lines'[i].kind, lines'[j].kind>> \in Follow
      BY Reads1 DEF Once
    <3>2. \A i \in DOMAIN lines' : lines'[i].turn = l.turn => <<l.kind, lines'[i].kind>> \in Follow
      <4>1. TAKE i \in DOMAIN lines'
      <4>2. i + 1 \in DOMAIN lines /\ 1 < i + 1 /\ lines'[i] = lines[i + 1]
        BY Reads1, LineType
      <4>3. QED
        BY <4>2, <1>0 DEF Once
    <3>3. running # NoTurn => l # Says("completed", running)
      BY <2>2 DEF Once
    <3>4. \A s \in Send : InAsked(s)' => ~Touched(s)'
      BY <2>4 DEF Once
    <3>5. QED
      BY Reads1, <2>1, <2>4, <3>1, <3>2, <3>3, <3>4 DEF Once, turn
  <2>7. Knows'
    BY Reads1, <2>1 DEF Knows
  <2>8. Told'
    <3>1. \A s : Says("response", s) # l
      BY <1>2 DEF Says
    <3>2. QED
      BY Reads1, <2>1, <2>4, <3>1 DEF Told
  <2>9. QED
    BY <2>5, <2>6, <2>7, <2>8
<1>3. QED
  BY <1>0, <1>1, <1>2 DEF Line

\* The reader, as a whole.
LEMMA ReaderPlaces ==
    ASSUME IInv, Places, ReaderNext
    PROVE  Places'
<1>1. CASE ReadLine
  BY <1>1, LinePlaces
<1>2. CASE ReaderNext /\ ~ReadLine
  <2>1. /\ reader.pc # "idle"
        /\ UNCHANGED <<asked, lines, running, alive, closing, send, result, pending, expected, taken>>
        /\ \E pc : Reads(pc) /\ (pc = "clear" => reader.line.kind = "completed")
    <3>1. CASE ReadArmed
      BY <3>1 DEF ReadArmed, sessionVars, threadVars, serverVars, sentVars, callVars, readRest
    <3>2. CASE ReadExpected
      BY <3>2 DEF ReadExpected, sessionVars, threadVars, serverVars, sentVars, callVars, readRest
    <3>3. CASE ReadStarting
      BY <3>3 DEF ReadStarting, sessionVars, threadVars, serverVars, sentVars, callVars, readRest
    <3>4. CASE ReadDefers
      BY <3>4 DEF ReadDefers, sessionVars, serverVars, sentVars, callVars, readRest
    <3>5. CASE ReadDisarms
      BY <3>5 DEF ReadDisarms, sessionVars, serverVars, sentVars, callVars, readRest
    <3>6. CASE ReadSweeps
      BY <3>6 DEF ReadSweeps, Sweep, sessionVars, serverVars, callVars, readRest
    <3>7. CASE ReadOrphan
      BY <3>7 DEF ReadOrphan, sessionVars, serverVars, sentVars, callVars, readRest
    <3>8. CASE ReadEvent
      BY <3>8 DEF ReadEvent, sessionVars, threadVars, serverVars, sentVars, callVars, readRest
    <3>9. CASE ReadClears
      BY <3>9 DEF ReadClears, ClearAndReap, threadVars, serverVars, sentVars, callVars, readRest
    <3>10. QED
      BY <1>2, <3>1, <3>2, <3>3, <3>4, <3>5, <3>6, <3>7, <3>8, <3>9 DEF ReaderNext
  <2>2. QED
    BY <2>1, WorksPlaces DEF Reads
<1>3. QED
  BY <1>1, <1>2

\* The first request, and the others.
LEMMA Asked1 ==
    ASSUME IInv, Places, asked # <<>>, asked' = Tail(asked), NEW t, t = Head(asked)
    PROVE  /\ t \in Send /\ InAsked(t) /\ ~Touched(t)
           /\ \A s : InAsked(s)' => InAsked(s) /\ s # t
           /\ \A s : InAsked(s) => InAsked(s)' \/ s = t
           /\ \A i \in DOMAIN asked' : i \in Nat /\ i + 1 \in DOMAIN asked /\ asked'[i] = asked[i + 1]
           /\ t = asked[1] /\ 1 \in DOMAIN asked
           /\ Len(asked) \in Nat /\ Len(asked') = Len(asked) - 1
           /\ Len(asked) = 1 => asked' = <<>>
<1>1. asked \in Seq(Send)
  BY DEF IInv, LinesOK
<1>2. /\ t = asked[1] /\ t \in Send /\ 1 \in DOMAIN asked
      /\ Len(asked) \in Nat /\ Len(asked') = Len(asked) - 1
      /\ Len(asked) = 1 => asked' = <<>>
  BY <1>1
<1>3. /\ \A i \in DOMAIN asked' : /\ i \in Nat /\ i + 1 \in DOMAIN asked /\ i + 1 # 1
                                  /\ asked'[i] = asked[i + 1]
      /\ \A i \in DOMAIN asked : i # 1 => i - 1 \in DOMAIN asked' /\ asked'[i - 1] = asked[i]
  BY <1>1
<1>4. InAsked(t) /\ ~Touched(t)
  BY <1>2 DEF InAsked, Places, Once
<1>5. \A i \in DOMAIN asked' : asked'[i] # t
  BY <1>2, <1>3 DEF Places, Once
<1>6. \A s : InAsked(s)' => InAsked(s) /\ s # t
  BY <1>3, <1>5 DEF InAsked
<1>7. \A s : InAsked(s) => InAsked(s)' \/ s = t
  <2>1. SUFFICES ASSUME NEW i \in DOMAIN asked, asked[i] # t
                 PROVE  \E j \in DOMAIN asked' : asked'[j] = asked[i]
    BY DEF InAsked
  <2>2. i # 1
    BY <1>2, <2>1
  <2>3. QED
    BY <1>3, <2>2
<1>8. QED
  BY <1>2, <1>3, <1>4, <1>6, <1>7

\* What the server says comes behind what it has said.
LEMMA Lines1 ==
    ASSUME IInv, NEW a \in Line, lines' = Append(lines, a)
    PROVE  /\ \A i \in DOMAIN lines : i \in DOMAIN lines' /\ lines'[i] = lines[i]
           /\ \A i \in DOMAIN lines' : i \in DOMAIN lines \/ (i = Len(lines) + 1 /\ lines'[i] = a)
           /\ \A m : InLines(m)' <=> InLines(m) \/ m = a
           /\ \A i, j \in DOMAIN lines' : i < j => i \in DOMAIN lines
<1>1. lines \in Seq(Line)
  BY DEF IInv, LinesOK
<1>2. /\ Len(lines) + 1 \in DOMAIN lines' /\ lines'[Len(lines) + 1] = a
      /\ \A i \in DOMAIN lines : i \in DOMAIN lines' /\ lines'[i] = lines[i]
      /\ \A i \in DOMAIN lines' : i \in DOMAIN lines \/ (i = Len(lines) + 1 /\ lines'[i] = a)
  BY <1>1
<1>3. \A i, j \in DOMAIN lines' : i < j => i \in DOMAIN lines
  BY <1>1
<1>4. QED
  BY <1>2, <1>3 DEF InLines

\* Two lines behind the others.
Adds(a, b) == lines' = lines \o <<a, b>>

\* The same for the two lines of an accepted start.
LEMMA Lines2 ==
    ASSUME IInv, NEW a \in Line, NEW b \in Line, Adds(a, b)
    PROVE  /\ \A i \in DOMAIN lines : i \in DOMAIN lines' /\ lines'[i] = lines[i]
           /\ \A i \in DOMAIN lines' : i \in DOMAIN lines \/ lines'[i] = a \/ lines'[i] = b
           /\ \A m : InLines(m)' <=> InLines(m) \/ m = a \/ m = b
           /\ \A i, j \in DOMAIN lines' : i < j =>
                 i \in DOMAIN lines \/ (lines'[i] = a /\ lines'[j] = b)
<1>1. lines \in Seq(Line)
  BY DEF IInv, LinesOK
<1>2. /\ Len(lines') = Len(lines) + 2
      /\ lines'[Len(lines) + 1] = a /\ lines'[Len(lines) + 2] = b
      /\ \A i \in DOMAIN lines : i \in DOMAIN lines' /\ lines'[i] = lines[i]
      /\ lines' \in Seq(Line)
  BY <1>1 DEF Adds
<1>3. /\ DOMAIN lines' = 1 .. Len(lines) + 2 /\ DOMAIN lines = 1 .. Len(lines) /\ Len(lines) \in Nat
  BY <1>1, <1>2
<1>4. /\ \A i, j \in DOMAIN lines' : i < j =>
            i \in DOMAIN lines \/ (i = Len(lines) + 1 /\ j = Len(lines) + 2)
      /\ Len(lines) + 1 \in DOMAIN lines' /\ Len(lines) + 2 \in DOMAIN lines'
      /\ \A i \in DOMAIN lines' : i \in DOMAIN lines \/ i = Len(lines) + 1 \/ i = Len(lines) + 2
  BY <1>3
<1>5. QED
  BY <1>2, <1>4 DEF InLines

\* The server makes a turn of the first request.
LEMMA AcceptsPlaces ==
    ASSUME IInv, Places, ServerAccepts
    PROVE  Places'
<1> USE DEF IInv, Places
<1>a. PICK t \in Send : t = Head(asked)
  BY Asked1 DEF ServerAccepts
<1>1. /\ alive /\ running = NoTurn /\ running' = t
      /\ UNCHANGED <<reader, alive, closing, send, result, pending, expected, taken>>
  BY <1>a DEF ServerAccepts, callVars, threadVars, clientVars
<1>2. /\ t \in Send /\ InAsked(t) /\ ~Touched(t)
      /\ \A s : InAsked(s)' => InAsked(s) /\ s # t
      /\ \A i \in DOMAIN asked' : i \in Nat /\ i + 1 \in DOMAIN asked /\ asked'[i] = asked[i + 1]
  BY <1>a, Asked1 DEF ServerAccepts
<1>3. PICK a, b \in Line : /\ Adds(a, b)
                           /\ a \in {Says("response", t), Says("started", t)}
                           /\ b \in {Says("response", t), Says("started", t)} /\ a # b
  BY <1>a, <1>2 DEF ServerAccepts, Says, Line, Adds
<1>4. /\ a.turn = t /\ b.turn = t /\ <<a.kind, b.kind>> \in Follow
      /\ {a.kind, b.kind} = {"response", "started"}
  BY <1>3 DEF Says, Follow
<1>0. Says("response", t) \in {a, b}
  BY <1>3
<1>5. /\ \A m : InLines(m)' <=> InLines(m) \/ m = a \/ m = b
      /\ \A i \in DOMAIN lines : lines'[i] = lines[i]
      /\ \A i \in DOMAIN lines' : i \in DOMAIN lines \/ lines'[i] = a \/ lines'[i] = b
      /\ \A i, j \in DOMAIN lines' : i < j =>
            i \in DOMAIN lines \/ (lines'[i] = a /\ lines'[j] = b)
  BY <1>3, Lines2
<1>6. \A i \in DOMAIN lines : lines[i].turn # t
  BY <1>2 DEF Touched
<1>7. turn # t /\ t # NoTurn /\ turn' = turn
  BY <1>1, <1>2, SendAssumption DEF Touched, turn
<1>8. /\ \A s \in Send \ {t} : Touched(s)' => Touched(s)
      /\ \A s \in Send \ {t} : Accepted(s)' => Accepted(s)
  <2>1. \A s \in Send \ {t} : Touched(s)' => Touched(s)
    BY <1>1, <1>4, <1>5, <1>7 DEF Touched
  <2>2. \A s \in Send \ {t} : Says("started", s) \notin {a, b} /\ Says("completed", s) \notin {a, b}
    BY <1>3 DEF Says
  <2>3. \A s \in Send \ {t} : Accepted(s)' => Accepted(s)
    BY <1>1, <1>5, <1>7, <2>2 DEF Accepted
  <2>4. QED
    BY <2>1, <2>3
<1>9. Closed' /\ Reading' /\ Knows'
  BY <1>1 DEF Closed, Reading, Knows
<1>10. Once'
  <2>1. \A i, j \in DOMAIN asked' : asked'[i] = asked'[j] => i = j
    BY <1>2 DEF Once
  <2>2. \A i, j \in DOMAIN lines' :
           i < j /\ lines'[i].turn = lines'[j].turn => <<lines'[i].kind, lines'[j].kind>> \in Follow
    BY <1>4, <1>5, <1>6 DEF Once
  <2>3. \A i \in DOMAIN lines' : lines'[i].turn = turn => <<reader.line.kind, lines'[i].kind>> \in Follow
    BY <1>4, <1>5, <1>7 DEF Once
  <2>4. \A s \in Send : InAsked(s)' => ~Touched(s)'
    BY <1>2, <1>8 DEF Once
  <2>5. \A s \in Send : (InAsked(s) \/ Touched(s))' => send'[s] \notin Early
    BY <1>1, <1>2, <1>8 DEF Once
  <2>6. /\ reader.line # Says("completed", t)
        /\ ~InLines(Says("completed", t))' /\ ~InLines(Says("refusal", t))'
    <3>1. \A k \in {"completed", "refusal"} : Says(k, t) \notin {a, b} /\ ~InLines(Says(k, t))
      BY <1>3, <1>6 DEF Says, InLines
    <3>2. QED
      BY <1>5, <1>7, <3>1 DEF Says, turn
  <2>7. QED
    BY <1>1, <1>7, <2>1, <2>2, <2>3, <2>4, <2>5, <2>6 DEF Once
<1>11. Told'
  <2>1. \A s \in Send : (InAsked(s) \/ Touched(s))' /\ result'[s] = "none" => send'[s] = "waiting"
    BY <1>1, <1>2, <1>8 DEF Told
  <2>2. InLines(Says("response", t))' /\ result[t] # "error"
    BY <1>0, <1>1, <1>2, <1>5 DEF Told
  <2>3. ASSUME NEW s \in Send
        PROVE  /\ InAsked(s)' => result'[s] \in {"none", "timeout"}
               /\ Accepted(s)' /\ result'[s] = "none" => InLines(Says("response", s))'
               /\ Accepted(s)' => result'[s] # "error"
    BY <1>1, <1>2, <1>5, <1>8, <2>2 DEF Told
  <2>4. QED
    BY <2>1, <2>3 DEF Told
<1>12. QED
  BY <1>9, <1>10, <1>11

\* It refuses the first request.
LEMMA RefusesPlaces ==
    ASSUME IInv, Places, ServerRefuses
    PROVE  Places'
<1> USE DEF IInv, Places
<1> DEFINE t == Head(asked)
           a == Says("refusal", t)
<1>1. /\ alive /\ UNCHANGED <<running, reader, alive, closing, send, result, pending, expected, taken>>
      /\ lines' = Append(lines, a)
  BY DEF ServerRefuses, callVars, threadVars, clientVars
<1>2. /\ t \in Send /\ InAsked(t) /\ ~Touched(t)
      /\ \A s : InAsked(s)' => InAsked(s) /\ s # t
      /\ \A i \in DOMAIN asked' : i \in Nat /\ i + 1 \in DOMAIN asked /\ asked'[i] = asked[i + 1]
  BY Asked1 DEF ServerRefuses
<1>3. a \in Line /\ a.turn = t /\ a.kind = "refusal"
  BY <1>2 DEF Says, Line
<1>4. /\ \A m : InLines(m)' <=> InLines(m) \/ m = a
      /\ \A i \in DOMAIN lines : lines'[i] = lines[i]
      /\ \A i \in DOMAIN lines' : i \in DOMAIN lines \/ lines'[i] = a
      /\ \A i, j \in DOMAIN lines' : i < j => i \in DOMAIN lines
  BY <1>1, <1>3, Lines1
<1>5. (\A i \in DOMAIN lines : lines[i].turn # t) /\ turn # t /\ running # t /\ turn' = turn
  BY <1>1, <1>2 DEF Touched, turn
<1>6. /\ \A s \in Send \ {t} : Touched(s)' => Touched(s)
      /\ \A s \in Send : Accepted(s)' => Accepted(s)
  <2>1. \A s \in Send \ {t} : Touched(s)' => Touched(s)
    BY <1>1, <1>3, <1>4, <1>5 DEF Touched
  <2>2. \A s \in Send : Says("started", s) # a /\ Says("completed", s) # a
    BY <1>3 DEF Says
  <2>3. \A s \in Send : Accepted(s)' => Accepted(s)
    BY <1>1, <1>4, <1>5, <2>2 DEF Accepted
  <2>4. QED
    BY <2>1, <2>3
<1>7. Closed' /\ Reading' /\ Knows'
  BY <1>1 DEF Closed, Reading, Knows
<1>8. Once'
  <2>1. \A i, j \in DOMAIN asked' : asked'[i] = asked'[j] => i = j
    BY <1>2 DEF Once
  <2>2. \A i, j \in DOMAIN lines' :
           i < j /\ lines'[i].turn = lines'[j].turn => <<lines'[i].kind, lines'[j].kind>> \in Follow
    BY <1>3, <1>4, <1>5 DEF Once
  <2>3. \A i \in DOMAIN lines' : lines'[i].turn = turn => <<reader.line.kind, lines'[i].kind>> \in Follow
    BY <1>3, <1>4, <1>5 DEF Once
  <2>4. \A s \in Send : InAsked(s)' => ~Touched(s)'
    BY <1>2, <1>6 DEF Once
  <2>5. \A s \in Send : (InAsked(s) \/ Touched(s))' => send'[s] \notin Early
    BY <1>1, <1>2, <1>6 DEF Once
  <2>6. running # NoTurn => /\ ~InLines(Says("completed", running))'
                            /\ ~InLines(Says("refusal", running))'
    BY <1>1, <1>4, <1>5 DEF Once, Says
  <2>7. QED
    BY <1>1, <1>5, <2>1, <2>2, <2>3, <2>4, <2>5, <2>6 DEF Once
<1>9. Told'
  <2>1. \A s \in Send : (InAsked(s) \/ Touched(s))' /\ result'[s] = "none" => send'[s] = "waiting"
    BY <1>1, <1>2, <1>6 DEF Told
  <2>2. QED
    BY <1>1, <1>2, <1>4, <1>6, <2>1 DEF Told
<1>10. QED
  BY <1>7, <1>8, <1>9

\* It says that the running turn is over.
LEMMA EndsPlaces ==
    ASSUME IInv, Places, ServerEndsTurn
    PROVE  Places'
<1> USE DEF IInv, Places
<1> DEFINE a == Says("completed", running)
<1>1. /\ alive /\ running \in Send /\ running' = NoTurn /\ lines' = Append(lines, a)
      /\ UNCHANGED <<asked, reader, alive, closing, send, result, pending, expected, taken>>
  BY DEF ServerEndsTurn, callVars, threadVars, clientVars, PlacesOK
<1>2. a \in Line /\ a.turn = running /\ a.kind = "completed"
  BY <1>1 DEF Says, Line
<1>3. /\ \A m : InLines(m)' <=> InLines(m) \/ m = a
      /\ \A i \in DOMAIN lines : lines'[i] = lines[i]
      /\ \A i \in DOMAIN lines' : i \in DOMAIN lines \/ lines'[i] = a
      /\ \A i, j \in DOMAIN lines' : i < j => i \in DOMAIN lines
  BY <1>1, <1>2, Lines1
<1>4. /\ \A s : InAsked(s)' <=> InAsked(s)
      /\ \A s \in Send : Touched(s)' => Touched(s)
      /\ \A s \in Send : Accepted(s)' => Accepted(s)
      /\ turn' = turn /\ NoTurn \notin Send /\ Touched(running)
  <2>1. turn' = turn /\ NoTurn \notin Send /\ \A s : InAsked(s)' <=> InAsked(s)
    BY <1>1, SendAssumption DEF turn, InAsked
  <2>2. \A s \in Send : Touched(s)' => Touched(s)
    BY <1>1, <1>2, <1>3, <2>1 DEF Touched
  <2>3. \A s \in Send : /\ Says("started", s) # a
                        /\ Says("completed", s) = a => s = running
    BY <1>2 DEF Says
  <2>4. \A s \in Send : Accepted(s)' => Accepted(s)
    BY <1>1, <1>3, <2>1, <2>3 DEF Accepted
  <2>5. QED
    BY <2>1, <2>2, <2>4 DEF Touched
<1>5. Closed' /\ Reading' /\ Knows'
  BY <1>1 DEF Closed, Reading, Knows
<1>6. Once'
  <2>1. \A i \in DOMAIN lines : lines[i].turn = running => <<lines[i].kind, "completed">> \in Follow
    <3>1. TAKE i \in DOMAIN lines
    <3>2. HAVE lines[i].turn = running
    <3>3. lines[i] \in Line /\ lines[i] # Says("completed", running) /\ lines[i] # Says("refusal", running)
      BY <1>1, LineType, SendAssumption DEF Once, InLines
    <3>4. QED
      BY <3>2, <3>3 DEF Line, Says, Follow
  <2>2. turn = running => <<reader.line.kind, "completed">> \in Follow
    <3>1. HAVE turn = running
    <3>2. reader.line \in Line /\ reader.line.kind \in {"started", "completed"}
      BY <1>1, <3>1, SendAssumption DEF LinesOK, Reading, turn, NoLine
    <3>3. reader.line # Says("completed", running)
      BY <1>1, SendAssumption DEF Once
    <3>4. QED
      BY <3>1, <3>2, <3>3 DEF Line, Says, Follow, turn
  <2>3. \A i, j \in DOMAIN lines' :
           i < j /\ lines'[i].turn = lines'[j].turn => <<lines'[i].kind, lines'[j].kind>> \in Follow
    BY <1>2, <1>3, <2>1 DEF Once
  <2>4. \A i \in DOMAIN lines' : lines'[i].turn = turn => <<reader.line.kind, lines'[i].kind>> \in Follow
    BY <1>2, <1>3, <2>2 DEF Once
  <2>5. \A s \in Send : InAsked(s)' => ~Touched(s)'
    BY <1>4 DEF Once
  <2>6. \A s \in Send : (InAsked(s) \/ Touched(s))' => send'[s] \notin Early
    BY <1>1, <1>4 DEF Once
  <2>7. QED
    BY <1>1, <1>4, <2>3, <2>4, <2>5, <2>6 DEF Once
<1>7. Told'
  BY <1>1, <1>3, <1>4 DEF Told
<1>8. QED
  BY <1>5, <1>6, <1>7

\* It dies, and its input with it.
LEMMA DiesPlaces ==
    ASSUME IInv, Places, ServerDies
    PROVE  Places'
<1> USE DEF IInv, Places
<1>1. /\ ~alive' /\ running' = NoTurn /\ asked' = <<>>
      /\ UNCHANGED <<lines, reader, closing, send, result, pending, expected, taken>>
  BY DEF ServerDies, callVars, threadVars, clientVars
<1>2. /\ \A s : ~InAsked(s)'
      /\ \A s \in Send : Touched(s)' => Touched(s)
      /\ \A m : InLines(m)' <=> InLines(m)
      /\ turn' = turn
  BY <1>1, SendAssumption DEF InAsked, Touched, InLines, turn
<1>3. Closed' /\ Reading' /\ Knows'
  BY <1>1 DEF Closed, Reading, Knows
<1>4. Once'
  <2>1. \A i, j \in DOMAIN asked' : asked'[i] = asked'[j] => i = j
    BY <1>1
  <2>2. QED
    BY <1>1, <1>2, <2>1 DEF Once
<1>5. Told'
  BY <1>1, <1>2 DEF Told
<1>6. QED
  BY <1>3, <1>4, <1>5

\* What the server knows and what it says hold together.
THEOREM CodexPlaces == Spec => []Places
<1>1. Init => Places
  <2>1. ASSUME Init
        PROVE  \A s \in Send : ~InAsked(s) /\ ~Touched(s) /\ ~Accepted(s)
    BY <2>1, SendAssumption DEF Init, InAsked, Touched, Accepted, InLines, turn, NoLine
  <2>2. Init => Closed /\ Reading /\ Knows
    BY SendAssumption DEF Init, Closed, Reading, Knows, Finishing
  <2>3. Init => Once
    <3>1. Init => DOMAIN asked = {} /\ DOMAIN lines = {}
      BY DEF Init
    <3>2. QED
      BY <2>1, <3>1 DEF Init, Once
  <2>4. QED
    BY <2>1, <2>2, <2>3 DEF Places, Told
<1>2. IInv /\ Places /\ [Next]_vars => Places'
  <2> SUFFICES ASSUME IInv, Places, [Next]_vars
               PROVE  Places'
    OBVIOUS
  <2>1. CASE \E s \in Send : SendNext(s)
    BY <2>1, SendPlaces, AsksPlaces
  <2>2. CASE \E k \in Killer : KillNext(k)
    BY <2>2, KillPlaces
  <2>3. CASE ReaderNext
    BY <2>3, ReaderPlaces
  <2>4. CASE CloseNext
    BY <2>4, ClosePlaces
  <2>5. CASE ServerNext
    BY <2>5, AcceptsPlaces, RefusesPlaces, EndsPlaces, DiesPlaces DEF ServerNext
  <2>6. CASE UNCHANGED vars
    <3>1. Quiet /\ UNCHANGED <<send, result, pending, expected, taken>>
      BY <2>6 DEF vars, callVars, threadVars, clientVars, serverVars, Quiet
    <3>2. Knows'
      BY <3>1 DEF Places, Knows, Quiet
    <3>3. QED
      BY <3>1, <3>2, QuietKeeps
  <2>7. QED
    BY <2>1, <2>2, <2>3, <2>4, <2>5, <2>6 DEF Next
<1>3. QED
  BY <1>1, <1>2, CodexInvariant, PTL DEF Spec

-----------------------------------------------------------------------------
(* The watch for orphans                                                     *)

Busy(s) == send[s] \notin {"new"} \union Returned
Claimed(s) == send[s] \in {"claimed", "persisted", "armed", "begun", "asks", "waiting"}
                          \union Finishing \union Ending

\* The reader has not decided about the beginning of the turn.
Unseen(s) ==
    \/ send[s] \in {"armed", "begun", "asks"} \/ InAsked(s) \/ InLines(Says("started", s))
    \/ reader.line = Says("started", s) /\ reader.pc \in {"armed", "expected", "starting", "disarm"}

\* No orphan has been met yet.
Clear == alive /\ \A t \in Send : result[t] = "timeout" => Unseen(t)

\* A send under way, or its turn.
Live(s) == Claimed(s) \/ (result[s] = "ok" /\ Accepted(s))

OneSend == \A s, t \in Send : Busy(s) /\ Busy(t) => s = t

OneLive == Clear => \A s, t \in Send : Live(s) /\ Live(t) => s = t

\* It has the session until its turn is over.
Has == Clear => \A s \in Send :
    Live(s) /\ (result[s] = "ok" => Accepted(s)) => active = s \/ ~present

\* Its request is the last, and what the server says of it comes behind the
\* beginning of every other turn.
Latest == Clear => \A x \in Send : Live(x) =>
    /\ \A i \in DOMAIN asked : asked[i] = x => i = Len(asked)
    /\ Touched(x) \/ result[x] \in {"ok", "error"} => asked = <<>>
    /\ \A i, j \in DOMAIN lines :
          i < j /\ lines[i].turn = x /\ lines[j].kind = "started" => lines[j].turn = x
    /\ turn = x \/ result[x] \in {"ok", "error"} =>
          /\ \A j \in DOMAIN lines : lines[j].kind = "started" => lines[j].turn = x
          /\ reader.line.kind = "started" => turn = x

\* Until then the thread is armed.
Stays == Clear => \A s \in Send : Unseen(s) /\ result[s] \in {"none", "timeout"} => armed

Absorbed(s) == \/ s \in swept \/ s \in deferred \/ \E t \in Send : s \in taken[t]
               \/ reader.pc \in {"defer", "sweep"} /\ turn = s

\* A turn whose beginning the reader has met, and that nobody has been told of,
\* is put aside or interrupted.
Met(s) == /\ \A t \in Send \ {s} : result[t] # "timeout"
          /\ result[s] \in {"none", "timeout"} /\ running = s /\ ~Unseen(s)

Caught == \A s \in Send : Met(s) => Absorbed(s)

Watch == OneSend /\ OneLive /\ Has /\ Latest /\ Stays /\ Caught

-----------------------------------------------------------------------------
(* What keeps the watch                                                      *)

\* With the server gone there is nothing to watch.
LEMMA DeadWatch ==
    ASSUME Places', OneSend', ~alive'
    PROVE  Watch'
<1>1. running' = NoTurn
  BY DEF Places, Closed
<1>2. QED
  BY <1>1, SendAssumption DEF Watch, OneLive, Has, Latest, Stays, Caught, Met, Clear

\* What is no orphan yet was none before.
LEMMA ClearBefore ==
    ASSUME alive' => alive,
           \A t \in Send : result[t] = "timeout" /\ alive =>
               result'[t] = "timeout" /\ (Unseen(t)' => Unseen(t))
    PROVE  Clear' => Clear
BY DEF Clear

\* A step that makes no second turn live.
LEMMA LiveBefore ==
    ASSUME OneLive, Clear' => Clear, \A t \in Send : alive /\ Live(t)' => Live(t)
    PROVE  OneLive'
BY DEF OneLive, Clear

\* The turn the reader is at is live, unless it is an orphan.
LEMMA ReadIsLive ==
    ASSUME Places, alive, turn \in Send, result[turn] # "timeout", IInv
    PROVE  Live(turn)
<1>1. Accepted(turn) /\ Touched(turn)
  BY DEF Accepted, Touched
<1>2. result[turn] # "error" /\ (result[turn] = "none" => send[turn] = "waiting")
  BY <1>1 DEF Places, Told
<1>3. result[turn] \in {"none", "ok"}
  BY <1>2 DEF IInv, SendsOK
<1>4. QED
  BY <1>1, <1>2, <1>3 DEF Live, Claimed

-----------------------------------------------------------------------------
(* Quiet steps                                                               *)

\* It leaves the requests and the lines.
LEMMA QuietMarks ==
    ASSUME Quiet
    PROVE  /\ \A s : (InAsked(s)' <=> InAsked(s)) /\ (Touched(s)' <=> Touched(s))
                     /\ (Accepted(s)' <=> Accepted(s))
           /\ \A l : InLines(l)' <=> InLines(l)
           /\ turn' = turn /\ UNCHANGED <<asked, lines, running, reader, alive>>
BY Marks DEF Quiet, turn

\* No send begins its start.
LEMMA QuietUnseen ==
    ASSUME Quiet, NEW t, send'[t] \in {"armed", "begun", "asks"} => send[t] \in {"armed", "begun", "asks"}
    PROVE  Unseen(t)' => Unseen(t)
BY QuietMarks DEF Unseen

\* It makes no orphan unseen again.
LEMMA QuietClear ==
    ASSUME Quiet, Places'
    PROVE  Clear' => Clear
<1>1. ASSUME NEW t \in Send, result[t] = "timeout", alive
      PROVE  result'[t] = "timeout" /\ (Unseen(t)' => Unseen(t))
  <2>1. result'[t] = "timeout"
    BY <1>1 DEF Quiet
  <2>2. send'[t] \notin {"armed", "begun", "asks"}
    BY <2>1 DEF Places, Knows, Early
  <2>3. QED
    BY <2>1, <2>2, QuietUnseen
<1>2. QED
  BY <1>1, ClearBefore DEF Quiet

\* A live send was live, unless it has just claimed the session.
LEMMA QuietLive ==
    ASSUME Quiet, alive, NEW t \in Send, Claimed(t)' => Claimed(t)
    PROVE  Live(t)' => Live(t)
BY QuietMarks DEF Live, Quiet

\* The requests and the lines keep their order.
LEMMA QuietLatest ==
    ASSUME Quiet, Places', Latest, \A t \in Send : Claimed(t)' => Claimed(t)
    PROVE  Latest'
<1>1. SUFFICES ASSUME Clear', NEW x \in Send, Live(x)'
               PROVE  /\ \A i \in DOMAIN asked : asked[i] = x => i = Len(asked)
                      /\ Touched(x) \/ result'[x] \in {"ok", "error"} => asked = <<>>
                      /\ \A i, j \in DOMAIN lines :
                            i < j /\ lines[i].turn = x /\ lines[j].kind = "started" => lines[j].turn = x
                      /\ turn = x \/ result'[x] \in {"ok", "error"} =>
                            /\ \A j \in DOMAIN lines : lines[j].kind = "started" => lines[j].turn = x
                            /\ reader.line.kind = "started" => turn = x
  BY QuietMarks DEF Latest
<1>2. Clear /\ alive
  BY <1>1, QuietClear DEF Clear
<1>3. Live(x) /\ (result'[x] \in {"ok", "error"} => result[x] \in {"ok", "error"})
  BY <1>1, <1>2, QuietLive DEF Quiet
<1>4. QED
  BY <1>2, <1>3 DEF Latest

\* The session stays with its turn.
LEMMA QuietHas ==
    ASSUME Quiet, Places', Has, \A t \in Send : Claimed(t)' => Claimed(t),
           UNCHANGED <<active, present>> \/ ~present'
    PROVE  Has'
<1>1. SUFFICES ASSUME Clear', NEW s \in Send, Live(s)', result'[s] = "ok" => Accepted(s)'
               PROVE  active' = s \/ ~present'
  BY DEF Has
<1>2. Clear /\ alive
  BY <1>1, QuietClear DEF Clear
<1>3. Live(s) /\ (result[s] = "ok" => Accepted(s))
  BY <1>1, <1>2, QuietLive, QuietMarks DEF Quiet
<1>4. QED
  BY <1>2, <1>3 DEF Has

\* An armed thread stays armed.
LEMMA QuietStays ==
    ASSUME Quiet, Places', Stays,
           armed' \/ (~armed /\ \A t \in Send : send'[t] \in {"armed", "begun", "asks"} =>
                                                   send[t] \in {"armed", "begun", "asks"})
    PROVE  Stays'
<1>1. SUFFICES ASSUME Clear', NEW s \in Send, Unseen(s)', result'[s] \in {"none", "timeout"}, ~armed'
               PROVE  FALSE
  BY DEF Stays
<1>2. Clear /\ alive
  BY <1>1, QuietClear DEF Clear
<1>3. Unseen(s) /\ result[s] \in {"none", "timeout"}
  BY <1>1, <1>2, QuietUnseen DEF Quiet
<1>4. QED
  BY <1>1, <1>2, <1>3 DEF Stays

\* An orphan that was caught stays caught.
LEMMA QuietCaught ==
    ASSUME Quiet, Places, Places', Caught,
           alive => \A t \in Send : send[t] \in {"armed", "begun", "asks"} => send'[t] \in {"armed", "begun", "asks"},
           \A t \in Send : result[t] # "ok" /\ Absorbed(t) => Absorbed(t)'
    PROVE  Caught'
<1>1. SUFFICES ASSUME NEW s \in Send, Met(s)'
               PROVE  Absorbed(s)'
  BY DEF Caught
<1>2. running = s /\ alive
  BY <1>1, SendAssumption, QuietMarks DEF Met, Places, Closed
<1>3. \A t \in Send : /\ result'[t] # "timeout" => result[t] # "timeout"
                      /\ result'[t] \in {"none", "timeout"} => result[t] \in {"none", "timeout"}
  BY <1>2 DEF Quiet
<1>4. ~Unseen(s)
  BY <1>1, <1>2, QuietMarks DEF Unseen, Met
<1>5. Met(s)
  BY <1>1, <1>2, <1>3, <1>4 DEF Met
<1>6. QED
  BY <1>3, <1>5 DEF Caught, Met

\* send(), the steps that change nothing the watch is about.
Plain == /\ \A t \in Send : Busy(t)' => Busy(t)
         /\ \A t \in Send : Claimed(t)' => Claimed(t)
         /\ UNCHANGED <<active, present>> \/ ~present'
         /\ armed' \/ (~armed /\ \A t \in Send : send'[t] \in {"armed", "begun", "asks"} =>
                                                   send[t] \in {"armed", "begun", "asks"})
         /\ alive => \A t \in Send : send[t] \in {"armed", "begun", "asks"} => send'[t] \in {"armed", "begun", "asks"}
         /\ \A t \in Send : result[t] # "ok" /\ Absorbed(t) => Absorbed(t)'

\* Such a step keeps the watch.
LEMMA PlainWatch ==
    ASSUME Quiet, Plain, Places, Places', Watch
    PROVE  Watch'
<1>1. OneSend'
  BY DEF Watch, Plain, OneSend
<1>2. OneLive'
  <2>1. \A t \in Send : alive /\ Live(t)' => Live(t)
    BY QuietLive DEF Plain
  <2>2. QED
    BY <2>1, QuietClear, LiveBefore DEF Watch
<1>3. Has' /\ Latest' /\ Stays' /\ Caught'
  BY QuietHas, QuietLatest, QuietStays, QuietCaught DEF Watch, Plain
<1>4. QED
  BY <1>1, <1>2, <1>3 DEF Watch

\* send(), without the request.
LEMMA SendWatch ==
    ASSUME IInv, Places, Places', Watch, NEW s \in Send, SendNext(s), ~SendAsks(s), Serial
    PROVE  Watch'
<1>0. Quiet
  BY SendQuiet
<1>2. CASE SendBegins(s)
  <2>1. /\ \A t \in Send : Claimed(t)' => Claimed(t)
        /\ UNCHANGED <<active, present, armed, deferred, taken, swept, reader>>
        /\ \A t \in Send : send'[t] \in {"armed", "begun", "asks"} <=> send[t] \in {"armed", "begun", "asks"}
    BY <1>2 DEF SendBegins, To, sessionVars, threadVars, clientVars, serverVars, sentVars, sendRest, Claimed, Finishing, Ending, IInv, SendsOK
  <2>2. \A t \in Send : Absorbed(t) => Absorbed(t)'
    BY <2>1 DEF Absorbed, turn
  <2>3. OneSend'
    BY <1>2 DEF SendBegins, To, OneSend, Busy, Returned, IInv, SendsOK
  <2>4. \A t \in Send : alive /\ Live(t)' => Live(t)
    BY <1>0, <2>1, QuietLive
  <2>5. OneLive'
    BY <1>0, <2>4, QuietClear, LiveBefore DEF Watch
  <2>6. Has' /\ Latest'
    BY <1>0, <2>1, QuietHas, QuietLatest DEF Watch
  <2>7. Stays'
    BY <1>0, <2>1, QuietStays DEF Watch
  <2>8. Caught'
    BY <1>0, <2>1, <2>2, QuietCaught DEF Watch
  <2>9. QED
    BY <2>3, <2>5, <2>6, <2>7, <2>8 DEF Watch
<1>3. CASE SendClaims(s)
  <2>1. CASE ~(present /\ active = NoTurn)
    <3>1. Plain
      BY <1>3, <2>1 DEF SendClaims, To, threadVars, clientVars, serverVars, sentVars, sendRest, Plain, Busy, Claimed, Finishing, Ending, Returned, Absorbed, turn,
         IInv, SendsOK
    <3>2. QED
      BY <1>0, <3>1, PlainWatch
  <2>2. CASE present /\ active = NoTurn
    <3>1. /\ present' /\ active' = s /\ send[s] = "client" /\ send' = [send EXCEPT ![s] = "claimed"]
          /\ UNCHANGED <<result, armed, deferred, taken, swept, reader>>
      BY <1>3, <2>2 DEF SendClaims, To, threadVars, clientVars, serverVars, sentVars, sendRest
    <3>2. result[s] = "none" /\ ~InAsked(s) /\ ~Touched(s) /\ turn # s
      BY <3>1 DEF Places, Knows, Once, Early, Touched
    <3>3. \A t \in Send : Busy(t) <=> t = s
      BY <3>1 DEF Watch, OneSend, Busy, Returned
    <3>4. OneSend'
      BY <3>1, <3>3 DEF OneSend, Busy, Returned, IInv, SendsOK
    <3>5. ASSUME Clear
          PROVE  \A t \in Send : ~Live(t)
      <4>1. ASSUME NEW t \in Send, Live(t)
            PROVE  ~Claimed(t)
        BY <3>1, <3>3 DEF Claimed, Busy, Returned, Finishing, Ending
      <4>2. QED
        BY <2>2, <3>5, <4>1, SendAssumption DEF Watch, Has, Live
    <3>6. \A t \in Send : Clear' /\ Live(t)' => t = s
      <4>1. ASSUME NEW t \in Send, t # s
            PROVE  Claimed(t)' => Claimed(t)
        BY <3>1, <4>1 DEF Claimed, IInv, SendsOK
      <4>2. ASSUME NEW t \in Send, t # s, Clear', Live(t)'
            PROVE  FALSE
        <5>1. Clear /\ alive
          BY <1>0, <4>2, QuietClear DEF Clear
        <5>2. Live(t)
          BY <1>0, <4>1, <4>2, <5>1, QuietLive
        <5>3. QED
          BY <3>5, <5>1, <5>2
      <4>3. QED
        BY <4>2
    <3>7. OneLive' /\ Has'
      BY <3>1, <3>6 DEF OneLive, Has
    <3>8. Latest'
      <4>1. SUFFICES ASSUME Clear', NEW x \in Send, Live(x)'
                     PROVE  /\ ~InAsked(x) /\ ~Touched(x) /\ result'[x] = "none" /\ turn # x
        BY <1>0, QuietMarks DEF Latest, InAsked, Touched
      <4>2. QED
        BY <3>1, <3>2, <3>6, <4>1
    <3>9. Stays'
      <4>1. \A t \in Send : send'[t] \in {"armed", "begun", "asks"} => send[t] \in {"armed", "begun", "asks"}
        BY <3>1 DEF IInv, SendsOK
      <4>2. QED
        BY <1>0, <3>1, <4>1, QuietStays DEF Watch
    <3>10. Caught'
      <4>1. \A t \in Send : send[t] \in {"armed", "begun", "asks"} => send'[t] \in {"armed", "begun", "asks"}
        BY <3>1 DEF IInv, SendsOK
      <4>2. \A t \in Send : Absorbed(t) => Absorbed(t)'
        BY <3>1 DEF Absorbed, turn
      <4>3. QED
        BY <1>0, <4>1, <4>2, QuietCaught DEF Watch
    <3>11. QED
      BY <3>4, <3>7, <3>8, <3>9, <3>10 DEF Watch
  <2>3. QED
    BY <2>1, <2>2
<1>4. CASE SendMoves(s) \/ SendAskFails(s)
  <2>1. ~alive'
    BY <1>0, <1>4 DEF SendMoves, SendAskFails, Open, Places, Closed, Quiet
  <2>2. \A t \in Send : Busy(t)' => Busy(t)
    BY <1>4 DEF SendMoves, SendAskFails, To, Busy, Returned, IInv, SendsOK
  <2>3. OneSend'
    BY <2>2 DEF Watch, OneSend
  <2>4. QED
    BY <2>1, <2>3, DeadWatch
<1>5. CASE SendDisarms(s)
  <2>1. /\ send[s] = "disarm" /\ send' = [send EXCEPT ![s] = "sweep"]
        /\ UNCHANGED <<active, present, result, deferred, taken, swept, reader>>
    BY <1>5 DEF SendDisarms, To, sessionVars, clientVars, serverVars, sentVars, sendRest
  <2>2. /\ \A t \in Send : Busy(t)' => Busy(t)
        /\ \A t \in Send : Claimed(t)' => Claimed(t)
        /\ \A t \in Send : send'[t] \in {"armed", "begun", "asks"} <=> send[t] \in {"armed", "begun", "asks"}
    BY <2>1 DEF Busy, Claimed, Finishing, Ending, Returned, IInv, SendsOK
  <2>3. OneSend'
    BY <2>2 DEF Watch, OneSend
  <2>4. \A t \in Send : alive /\ Live(t)' => Live(t)
    BY <1>0, <2>2, QuietLive
  <2>5. OneLive'
    BY <1>0, <2>4, QuietClear, LiveBefore DEF Watch
  <2>6. Has' /\ Latest'
    BY <1>0, <2>1, <2>2, QuietHas, QuietLatest DEF Watch
  <2>7. Stays'
    <3>1. SUFFICES ASSUME Clear, NEW t \in Send, Unseen(t), result[t] \in {"none", "timeout"}
                   PROVE  FALSE
      BY <1>0, <2>1, <2>2, QuietClear, QuietUnseen DEF Stays
    <3>2. result[s] \in {"ok", "error"} /\ Live(s) /\ Busy(s)
      BY <2>1 DEF Places, Knows, Finishing, IInv, SendsOK, Live, Claimed, Busy, Returned
    <3>3. /\ asked = <<>>
          /\ \A j \in DOMAIN lines : lines[j].kind = "started" => lines[j].turn = s
          /\ reader.line.kind = "started" => turn = s
      BY <3>1, <3>2 DEF Watch, Latest
    <3>4. t # s
      BY <3>1, <3>2
    <3>5. send[t] \notin {"armed", "begun", "asks"}
      BY <3>2, <3>4 DEF Watch, OneSend, Busy, Returned
    <3>6. ~InAsked(t) /\ ~InLines(Says("started", t)) /\ reader.line # Says("started", t)
      BY <3>3, <3>4 DEF InAsked, InLines, Says, turn
    <3>7. QED
      BY <3>1, <3>5, <3>6 DEF Unseen
  <2>8. Caught'
    <3>1. \A t \in Send : Absorbed(t) => Absorbed(t)'
      BY <2>1 DEF Absorbed, turn
    <3>2. QED
      BY <1>0, <2>2, <3>1, QuietCaught DEF Watch
  <2>9. QED
    BY <2>3, <2>5, <2>6, <2>7, <2>8 DEF Watch
<1>6. CASE SendFails(s)
  <2>1. /\ send[s] = "fail" /\ send' = [send EXCEPT ![s] = "failed"]
        /\ UNCHANGED <<present, armed, result, deferred, taken, swept, reader>>
    BY <1>6 DEF SendFails, To, ClearAndReap, threadVars, clientVars, serverVars, sentVars, sendRest
  <2>2. /\ \A t \in Send : Busy(t)' => Busy(t)
        /\ \A t \in Send : Claimed(t)' => Claimed(t) /\ t # s
        /\ \A t \in Send : send'[t] \in {"armed", "begun", "asks"} <=> send[t] \in {"armed", "begun", "asks"}
    BY <2>1 DEF Busy, Claimed, Finishing, Ending, Returned, IInv, SendsOK
  <2>3. OneSend'
    BY <2>2 DEF Watch, OneSend
  <2>4. \A t \in Send : alive /\ Live(t)' => Live(t)
    BY <1>0, <2>2, QuietLive
  <2>5. OneLive' /\ Latest'
    BY <1>0, <2>2, <2>4, QuietClear, LiveBefore, QuietLatest DEF Watch
  <2>6. Has'
    <3>1. SUFFICES ASSUME Clear, alive, NEW t \in Send, Live(t)'
                   PROVE  FALSE
      BY <1>0, QuietClear DEF Has, Clear
    <3>2. Live(s) /\ Live(t)
      BY <2>1, <2>4, <3>1 DEF Live, Claimed, Ending
    <3>3. t = s
      BY <3>1, <3>2 DEF Watch, OneLive
    <3>4. result[s] # "ok"
      BY <2>1 DEF Places, Knows
    <3>5. QED
      BY <2>1, <2>2, <3>1, <3>3, <3>4 DEF Live
  <2>7. Stays'
    BY <1>0, <2>1, <2>2, QuietStays DEF Watch
  <2>8. Caught'
    <3>1. \A t \in Send : Absorbed(t) => Absorbed(t)'
      BY <2>1 DEF Absorbed, turn
    <3>2. QED
      BY <1>0, <2>2, <3>1, QuietCaught DEF Watch
  <2>9. QED
    BY <2>3, <2>5, <2>6, <2>7, <2>8 DEF Watch
<1>7. CASE SendTakes(s) \/ SendSweeps(s)
  <2>1. Plain
    <3>1. \A t \in Send : result[t] # "ok" /\ Absorbed(t) => Absorbed(t)'
      <4>1. CASE SendTakes(s)
        <5>1. taken[s] = {} /\ UNCHANGED <<swept, reader>>
          BY <4>1 DEF SendTakes, To, Disarms, sessionVars, clientVars, serverVars, sentVars, Places, Knows
        <5>2. \A t \in Send : taken'[t] = IF t = s THEN IF result[s] = "ok" THEN deferred \ {s} ELSE deferred
                                                  ELSE taken[t]
          BY <4>1 DEF SendTakes, IInv, PlacesOK
        <5>3. QED
          BY <5>1, <5>2 DEF Absorbed, turn
      <4>2. CASE SendSweeps(s)
        <5>1. swept' = swept \union taken[s] /\ UNCHANGED <<deferred, reader>>
          BY <4>2 DEF SendSweeps, To, Sweep, sessionVars, clientVars, serverVars
        <5>2. \A t \in Send \ {s} : taken'[t] = taken[t]
          BY <4>2 DEF SendSweeps
        <5>3. QED
          BY <5>1, <5>2 DEF Absorbed, turn
      <4>3. QED
        BY <1>7, <4>1, <4>2
    <3>2. QED
      BY <1>7, <3>1 DEF SendTakes, To, Disarms, sessionVars, clientVars, serverVars, sentVars, SendSweeps, Sweep, Plain, Busy, Claimed, Finishing, Ending, Returned, IInv, SendsOK
  <2>2. QED
    BY <1>0, <2>1, PlainWatch
<1> USE DEF Plain, Busy, Claimed, Finishing, Ending, Returned, Absorbed, turn, IInv, SendsOK
<1>8. CASE SendGetsClient(s)
  <2>1. Plain
    BY <1>8 DEF SendGetsClient, To, Open, sessionVars, threadVars, clientVars, serverVars, sentVars, sendRest
  <2>2. QED
    BY <1>0, <2>1, PlainWatch
<1>9. CASE SendPersists(s)
  <2>1. Plain
    BY <1>9 DEF SendPersists, To, threadVars, clientVars, serverVars, sentVars, sendRest
  <2>2. QED
    BY <1>0, <2>1, PlainWatch
<1>10. CASE SendPersistFails(s)
  <2>1. Plain
    BY <1>10 DEF SendPersistFails, To, sessionVars, threadVars, clientVars, serverVars, sentVars, sendRest
  <2>2. QED
    BY <1>0, <2>1, PlainWatch
<1>11. CASE SendArms(s)
  <2>1. Plain
    BY <1>11 DEF SendArms, To, sessionVars, clientVars, serverVars, sentVars, sendRest
  <2>2. QED
    BY <1>0, <2>1, PlainWatch
<1>12. CASE SendStarts(s)
  <2>1. Plain
    BY <1>12 DEF SendStarts, To, sessionVars, clientVars, serverVars, sentVars, sendRest
  <2>2. QED
    BY <1>0, <2>1, PlainWatch
<1>13. CASE SendHears(s)
  <2>1. Plain
    BY <1>13 DEF SendHears, To, sessionVars, threadVars, clientVars, serverVars, sentVars, sendRest
  <2>2. QED
    BY <1>0, <2>1, PlainWatch
<1>14. CASE SendTimesOut(s)
  <2>1. Plain
    BY <1>14 DEF SendTimesOut, To, sessionVars, threadVars, serverVars, sentVars
  <2>2. QED
    BY <1>0, <2>1, PlainWatch
<1>15. CASE SendExpects(s)
  <2>1. Plain
    BY <1>15 DEF SendExpects, To, sessionVars, clientVars, serverVars, sentVars, sendRest
  <2>2. QED
    BY <1>0, <2>1, PlainWatch
<1>16. CASE SendClearsStarting(s)
  <2>1. Plain
    BY <1>16 DEF SendClearsStarting, To, sessionVars, clientVars, serverVars, sentVars, sendRest
  <2>2. QED
    BY <1>0, <2>1, PlainWatch
<1>17. CASE SendLooks(s)
  <2>1. Plain
    BY <1>17 DEF SendLooks, To, sessionVars, threadVars, clientVars, serverVars, sentVars, sendRest
  <2>2. QED
    BY <1>0, <2>1, PlainWatch
<1>18. CASE SendPublishes(s)
  <2>1. Plain
    BY <1>18 DEF SendPublishes, To, threadVars, clientVars, serverVars, sentVars, sendRest
  <2>2. QED
    BY <1>0, <2>1, PlainWatch
<1>19. CASE SendSwaps(s)
  <2>1. Plain
    BY <1>19 DEF SendSwaps, To, Fire, threadVars, clientVars, serverVars, sendRest
  <2>2. QED
    BY <1>0, <2>1, PlainWatch
<1>20. CASE SendFindsGone(s)
  <2>1. Plain
    BY <1>20 DEF SendFindsGone, To, Fire, threadVars, clientVars, serverVars, sendRest
  <2>2. QED
    BY <1>0, <2>1, PlainWatch
<1>21. CASE SendRollsBack(s)
  <2>1. Plain
    BY <1>21 DEF SendRollsBack, To, threadVars, clientVars, serverVars, sentVars, sendRest
  <2>2. QED
    BY <1>0, <2>1, PlainWatch
<1>22. CASE SendPends(s)
  <2>1. Plain
    BY <1>22 DEF SendPends, To, sessionVars, threadVars, serverVars, sentVars, sendRest
  <2>2. QED
    BY <1>0, <2>1, PlainWatch
<1>23. QED
  BY <1>2, <1>3, <1>4, <1>5, <1>6, <1>7, <1>8, <1>9, <1>10, <1>11, <1>12, <1>13, <1>14, <1>15, <1>16, <1>17, <1>18, <1>19, <1>20, <1>21, <1>22 DEF SendNext

\* The request, the last on the input.
LEMMA AsksWatch ==
    ASSUME IInv, Places, Watch, NEW s \in Send, SendAsks(s)
    PROVE  Watch'
<1>1. /\ send[s] = "asks" /\ ~InAsked(s) /\ ~Touched(s) /\ result[s] = "none"
      /\ UNCHANGED <<lines, running, reader, alive, result, active, present, armed, deferred, taken, swept>>
      /\ send' = [send EXCEPT ![s] = "waiting"]
  BY DEF SendAsks, To, Open, Places, Once, Knows, Early, sessionVars, sendRest, threadVars,
         clientVars, sentVars
<1>2. /\ DOMAIN asked' = DOMAIN asked \union {Len(asked')} /\ Len(asked') \notin DOMAIN asked
      /\ \A i \in DOMAIN asked : asked'[i] = asked[i]
      /\ asked'[Len(asked')] = s
  BY DEF SendAsks, LinesOK, IInv
<1>3. \A t : InAsked(t)' <=> InAsked(t) \/ t = s
  BY <1>2 DEF InAsked
<1>4. /\ \A t : (Touched(t)' <=> Touched(t)) /\ (Accepted(t)' <=> Accepted(t))
      /\ \A l : InLines(l)' <=> InLines(l)
      /\ turn' = turn
  BY <1>1 DEF Touched, Accepted, InLines, turn
<1>5. \A t \in Send : /\ (Busy(t)' <=> Busy(t)) /\ (Claimed(t)' <=> Claimed(t))
                      /\ (send'[t] \in {"armed", "begun", "asks"} <=> send[t] \in {"armed", "begun", "asks"} /\ t # s)
  BY <1>1 DEF IInv, SendsOK, Busy, Claimed, Returned, Finishing, Ending
<1>6. \A t \in Send : (Live(t)' <=> Live(t)) /\ (Unseen(t)' <=> Unseen(t))
  BY <1>1, <1>3, <1>4, <1>5 DEF Live, Unseen
<1>7. (Clear' <=> Clear) /\ Live(s)
  BY <1>1, <1>6 DEF Clear, Live, Claimed
<1>8. OneSend' /\ OneLive' /\ Has' /\ Stays'
  BY <1>1, <1>4, <1>5, <1>6, <1>7 DEF Watch, OneSend, OneLive, Has, Stays
<1>9. Latest'
  <2>1. SUFFICES ASSUME Clear', NEW x \in Send, Live(x)'
                 PROVE  /\ \A i \in DOMAIN asked' : asked'[i] = x => i = Len(asked')
                        /\ ~Touched(x) /\ result[x] \notin {"ok", "error"}
                        /\ turn # x
                        /\ \A i \in DOMAIN lines : lines[i].turn # x
    BY <1>1, <1>4 DEF Latest
  <2>2. x = s
    BY <1>6, <1>7, <2>1 DEF Watch, OneLive
  <2>3. QED
    BY <1>1, <1>2, <2>2 DEF InAsked, Touched
<1>10. Caught'
  <2>1. \A t \in Send : (Met(t)' <=> Met(t)) /\ (Absorbed(t)' <=> Absorbed(t))
    BY <1>1, <1>4, <1>6 DEF Met, Absorbed
  <2>2. QED
    BY <2>1 DEF Watch, Caught
<1>11. QED
  BY <1>8, <1>9, <1>10 DEF Watch

\* interrupt() and dispose().
LEMMA KillWatch ==
    ASSUME Places, Places', Watch, NEW k \in Killer, KillNext(k)
    PROVE  Watch'
<1>1. Quiet /\ UNCHANGED <<send, armed, deferred, taken, swept>> /\ (UNCHANGED <<active, present>> \/ ~present')
  BY KillQuiet DEF threadVars
<1>2. Plain
  BY <1>1 DEF Plain, Busy, Claimed, Absorbed, Quiet, turn
<1>3. QED
  BY <1>1, <1>2, PlainWatch

\* A client closes when its server is gone.
LEMMA CloseWatch ==
    ASSUME Places, Places', Watch, CloseNext
    PROVE  Watch'
<1>1. closing' # "open" /\ UNCHANGED send
  BY DEF CloseNext, Closes, ClosesPending, ClosesTurns, callVars
<1>2. ~alive' /\ OneSend'
  BY <1>1 DEF Places, Closed, Watch, OneSend, Busy
<1>3. QED
  BY <1>2, DeadWatch

-----------------------------------------------------------------------------
(* The reader and the server                                                 *)

\* A step of neither a send nor a killer.
LEMMA OthersWatch ==
    ASSUME Watch, UNCHANGED <<send, alive>>,
           alive => \A t \in Send :
              /\ Unseen(t)' => Unseen(t)
              /\ Accepted(t)' /\ result[t] = "ok" => Accepted(t)
              /\ result'[t] # result[t] =>
                    result[t] = "none" /\ send[t] = "waiting" /\ result'[t] # "timeout"
    PROVE  /\ OneSend' /\ OneLive'
           /\ Clear' => Clear /\ alive
           /\ \A t \in Send : alive /\ Live(t)' => Live(t)
           /\ UNCHANGED <<active, present>> => Has'
           /\ armed' = armed => Stays'
<1>1. OneSend'
  BY DEF Watch, OneSend, Busy
<1>2. Clear' => Clear /\ alive
  BY ClearBefore DEF Clear
<1>3. \A t \in Send : alive /\ Live(t)' => Live(t)
  BY DEF Live, Claimed
<1>4. OneLive'
  BY <1>2, <1>3, LiveBefore DEF Watch
<1>5. ASSUME UNCHANGED <<active, present>>
      PROVE  Has'
  BY <1>2, <1>3, <1>5 DEF Watch, Has
<1>6. ASSUME armed' = armed
      PROVE  Stays'
  BY <1>2, <1>6 DEF Watch, Stays
<1>7. QED
  BY <1>1, <1>2, <1>3, <1>4, <1>5, <1>6

\* The line the reader works on, when it is not idle.
LEMMA WorkLine ==
    ASSUME IInv, Places, reader.pc # "idle"
    PROVE  /\ turn \in Send /\ reader.line.kind \in {"started", "completed"}
           /\ reader.line = Says(reader.line.kind, turn)
           /\ send[turn] \notin {"armed", "begun", "asks"} /\ ~InAsked(turn)
           /\ ~InLines(Says("started", turn))
<1>1. reader.line.kind \in {"started", "completed"}
  BY DEF Places, Reading
<1>2. reader.line \in Line
  BY <1>1 DEF IInv, LinesOK, NoLine
<1>3. turn \in Send /\ reader.line = Says(reader.line.kind, turn)
  BY <1>2 DEF Line, Says, turn
<1>4. Touched(turn)
  BY DEF Touched
<1>5. send[turn] \notin {"armed", "begun", "asks"} /\ ~InAsked(turn)
  BY <1>3, <1>4 DEF Places, Once, Early
<1>6. ~InLines(Says("started", turn))
  BY <1>1 DEF InLines, Says, Places, Once, Follow, turn
<1>7. QED
  BY <1>1, <1>3, <1>5, <1>6

Deciding == {"armed", "expected", "starting", "disarm"}

\* The reader works on the line it has: it decides about its turn, or is done.
Works == /\ reader.pc # "idle"
         /\ UNCHANGED <<asked, lines, running, alive, send, result>>
         /\ \/ reader'.pc # "idle" /\ reader'.line = reader.line
            \/ reader'.pc = "idle" /\ reader'.line = NoLine
         /\ reader'.pc \in Deciding => reader.pc \in Deciding

\* Nothing becomes unseen, and no turn comes back.
LEMMA WorksBack ==
    ASSUME Works
    PROVE  \A t \in Send : /\ Unseen(t)' => Unseen(t)
                           /\ Accepted(t)' => Accepted(t)
                           /\ Touched(t)' => Touched(t)
                           /\ turn' = t => turn = t
<1>1. \A t \in Send : turn' = t => turn = t
  BY SendAssumption DEF Works, turn, NoLine
<1>2. \A t \in Send : (Accepted(t)' => Accepted(t)) /\ (Touched(t)' => Touched(t))
  BY <1>1 DEF Works, Accepted, Touched, InLines
<1>3. \A t \in Send : Unseen(t)' => Unseen(t)
  BY DEF Works, Unseen, InAsked, InLines, Deciding, NoLine, Says
<1>4. QED
  BY <1>1, <1>2, <1>3

\* The parts of the watch that no reader step disturbs.
LEMMA WorksWatch ==
    ASSUME Works, Watch
    PROVE  /\ OneSend' /\ OneLive' /\ Latest'
           /\ Clear' => Clear /\ alive
           /\ \A t \in Send : alive /\ Live(t)' => Live(t)
           /\ UNCHANGED <<active, present>> => Has'
           /\ armed' = armed => Stays'
<1>1. /\ OneSend' /\ OneLive'
      /\ Clear' => Clear /\ alive
      /\ \A t \in Send : alive /\ Live(t)' => Live(t)
      /\ UNCHANGED <<active, present>> => Has'
      /\ armed' = armed => Stays'
  BY WorksBack, OthersWatch DEF Works
<1>2. Latest'
  <2>1. SUFFICES ASSUME Clear', NEW x \in Send, Live(x)'
                 PROVE  /\ \A i \in DOMAIN asked : asked[i] = x => i = Len(asked)
                        /\ Touched(x)' \/ result[x] \in {"ok", "error"} => asked = <<>>
                        /\ \A i, j \in DOMAIN lines :
                              i < j /\ lines[i].turn = x /\ lines[j].kind = "started" => lines[j].turn = x
                        /\ turn' = x \/ result[x] \in {"ok", "error"} =>
                              /\ \A j \in DOMAIN lines : lines[j].kind = "started" => lines[j].turn = x
                              /\ reader'.line.kind = "started" => turn' = x
    BY DEF Latest, Works
  <2>2. Clear /\ Live(x) /\ (Touched(x)' => Touched(x)) /\ (turn' = x => turn = x)
    BY <1>1, <2>1, WorksBack
  <2>3. reader'.line.kind = "started" => reader'.line = reader.line /\ turn' = turn
    BY DEF Works, NoLine, turn
  <2>4. QED
    BY <2>2, <2>3 DEF Watch, Latest
<1>3. QED
  BY <1>1, <1>2

\* An end frees the session of the turn that has it.
LEMMA ClearsHas ==
    ASSUME IInv, Places, Watch, ReadClears
    PROVE  Has'
<1>1. Works
  BY DEF ReadClears, Reads, Works, Deciding, callVars, serverVars
<1>2. reader.line.kind = "completed" /\ turn \in Send /\ reader.line = Says("completed", turn)
  BY WorkLine DEF Places, Reading, ReadClears
<1>3. SUFFICES ASSUME Clear', NEW s \in Send, Live(s)', result[s] = "ok" => Accepted(s)'
               PROVE  FALSE
  BY <1>1 DEF Has, Works
<1>4. Clear /\ alive
  BY <1>1, <1>3, WorksWatch
<1>5. result[turn] # "timeout"
  BY <1>2, <1>4, WorkLine DEF ReadClears, Clear, Unseen, Says
<1>6. Live(turn) /\ Live(s)
  BY <1>1, <1>2, <1>3, <1>4, <1>5, ReadIsLive, WorksWatch
<1>7. s = turn
  BY <1>2, <1>4, <1>6 DEF Watch, OneLive
<1>8. \A k \in {"started", "completed", "response"} : ~InLines(Says(k, s))
  BY <1>2, <1>7 DEF InLines, Says, Places, Once, Follow
<1>9. ~Accepted(s)'
  <2>1. running # s
    BY <1>2, <1>7, SendAssumption DEF Places, Once
  <2>2. turn' # s
    BY SendAssumption DEF ReadClears, Reads, turn, NoLine
  <2>3. QED
    BY <1>1, <1>8, <2>1, <2>2 DEF Accepted, Works, InLines
<1>10. Accepted(s)
  BY <1>7 DEF Accepted
<1>11. result[s] # "none" /\ result[s] # "error"
  BY <1>4, <1>8, <1>10 DEF Places, Told
<1>12. QED
  BY <1>3, <1>5, <1>7, <1>9, <1>11 DEF IInv, SendsOK

\* The reader disarms the thread for the orphan it has met.
LEMMA DisarmsStays ==
    ASSUME IInv, Places, Watch, ReadDisarms
    PROVE  Stays'
<1>1. Works
  BY DEF ReadDisarms, Reads, Works, Deciding, callVars, serverVars
<1>2. SUFFICES ASSUME Clear', NEW t \in Send, Unseen(t)', result[t] \in {"none", "timeout"}
               PROVE  FALSE
  BY <1>1 DEF Stays, Works
<1>3. Clear /\ alive /\ turn \in Send /\ Unseen(t)
  BY <1>1, <1>2, WorksWatch, WorksBack, WorkLine DEF Works
<1>4. PICK z \in Send : z = turn
  BY <1>3
<1>5. result[turn] # "timeout" /\ turn # t
  <2>1. reader'.pc = "sweep" /\ turn' = turn
    BY DEF ReadDisarms, Reads, turn
  <2>2. ~Unseen(z)'
    BY <1>1, <1>4, <2>1, WorkLine DEF Works, Unseen, InAsked, InLines
  <2>3. QED
    BY <1>1, <1>2, <1>4, <2>2 DEF Clear, Works
<1>6. Live(turn)
  BY <1>3, <1>5, ReadIsLive
<1>7. /\ \A j \in DOMAIN lines : lines[j].kind = "started" => lines[j].turn = turn
      /\ asked = <<>>
  BY <1>3, <1>6 DEF Watch, Latest, Touched
<1>8. ~InAsked(t) /\ ~InLines(Says("started", t)) /\ reader.line # Says("started", t)
  BY <1>5, <1>7 DEF InAsked, InLines, Says, turn
<1>9. Live(t)
  BY <1>3, <1>8 DEF Unseen, Live, Claimed
<1>10. QED
  BY <1>3, <1>5, <1>6, <1>9 DEF Watch, OneLive

\* The reader puts aside or interrupts what it should.
LEMMA WorksCaught ==
    ASSUME IInv, Places, Watch, Works, ReaderNext, ~ReadLine
    PROVE  Caught'
<1> USE DEF Works, Reads
<1>1. SUFFICES ASSUME NEW s \in Send, Met(s)'
               PROVE  Absorbed(s)'
  BY DEF Caught
<1>2. /\ running = s /\ alive /\ result[s] \in {"none", "timeout"}
      /\ \A t \in Send \ {s} : result[t] # "timeout"
  BY <1>1, SendAssumption DEF Met, Places, Closed
<1>3. CASE ~Unseen(s)
  <2>1. Absorbed(s)
    BY <1>2, <1>3 DEF Met, Watch, Caught
  <2>2. CASE ReadDefers
    BY <2>1, <2>2 DEF ReadDefers, Absorbed, turn, sessionVars, callVars, serverVars, sentVars
  <2>3. CASE ReadSweeps
    BY <2>1, <2>3 DEF ReadSweeps, Sweep, Absorbed, turn, sessionVars, callVars, serverVars
  <2>4. CASE ~ReadDefers /\ ~ReadSweeps
    <3>1. UNCHANGED <<swept, taken, deferred>> /\ reader.pc \notin {"defer", "sweep"}
      BY <2>4 DEF ReaderNext, ReadArmed, ReadExpected, ReadStarting, ReadDisarms, ReadOrphan,
         ReadEvent, ReadClears, callVars, threadVars, sentVars
    <3>2. QED
      BY <2>1, <3>1 DEF Absorbed
  <2>5. QED
    BY <2>2, <2>3, <2>4
<1>4. CASE Unseen(s)
  <2>1. armed
    BY <1>2, <1>4 DEF Clear, Watch, Stays
  <2>2. expected # s
    BY <1>2 DEF Places, Knows
  <2>3. ~Unseen(s)'
    BY <1>1 DEF Met
  <2>4. reader.line = Says("started", s) /\ reader.pc \in Deciding
    BY <1>4, <2>3 DEF Unseen, InAsked, InLines, Deciding
  <2>5. turn = s /\ ~(reader'.line = reader.line /\ reader'.pc \in Deciding)
    BY <2>3, <2>4 DEF Unseen, Deciding, turn, Says
  <2>6. ReadStarting \/ ReadDisarms
    <3>1. ~ReadArmed
      BY <2>1, <2>4, <2>5 DEF ReadArmed, Deciding
    <3>2. ~ReadExpected
      BY <2>2, <2>4, <2>5 DEF ReadExpected, Deciding
    <3>3. ~(ReadDefers \/ ReadSweeps \/ ReadOrphan \/ ReadEvent \/ ReadClears)
      BY <2>4 DEF ReadDefers, ReadSweeps, ReadOrphan, ReadEvent, ReadClears, Deciding
    <3>4. QED
      BY <3>1, <3>2, <3>3 DEF ReaderNext
  <2>7. reader'.pc \in {"defer", "sweep"} /\ turn' = s
    BY <2>5, <2>6 DEF ReadStarting, ReadDisarms, Deciding, turn
  <2>8. QED
    BY <2>7 DEF Absorbed
<1>5. QED
  BY <1>3, <1>4

\* The reader at work on its line.
LEMMA WorkingWatch ==
    ASSUME IInv, Places, Watch, ReaderNext, ~ReadLine
    PROVE  Watch'
<1>1. Works
  <2>1. CASE ReadArmed
    BY <2>1 DEF ReadArmed, Reads, sessionVars, threadVars, serverVars, sentVars, callVars, readRest, Works, Deciding
  <2>2. CASE ReadExpected
    BY <2>2 DEF ReadExpected, Reads, sessionVars, threadVars, serverVars, sentVars, callVars, readRest, Works, Deciding
  <2>3. CASE ReadStarting
    BY <2>3 DEF ReadStarting, Reads, sessionVars, threadVars, serverVars, sentVars, callVars, readRest, Works, Deciding
  <2>4. CASE ReadDefers
    BY <2>4 DEF ReadDefers, Reads, sessionVars, serverVars, sentVars, callVars, readRest, Works, Deciding
  <2>5. CASE ReadDisarms
    BY <2>5 DEF ReadDisarms, Reads, sessionVars, serverVars, sentVars, callVars, readRest, Works, Deciding
  <2>6. CASE ReadSweeps
    BY <2>6 DEF ReadSweeps, Sweep, Reads, sessionVars, serverVars, callVars, readRest, Works, Deciding
  <2>7. CASE ReadOrphan
    BY <2>7 DEF ReadOrphan, Reads, sessionVars, serverVars, sentVars, callVars, readRest, Works, Deciding
  <2>8. CASE ReadEvent
    BY <2>8 DEF ReadEvent, Reads, sessionVars, threadVars, serverVars, sentVars, callVars, readRest, Works, Deciding
  <2>9. CASE ReadClears
    BY <2>9 DEF ReadClears, ClearAndReap, Reads, threadVars, serverVars, sentVars, callVars, readRest, Works, Deciding
  <2>10. QED
    BY <2>1, <2>2, <2>3, <2>4, <2>5, <2>6, <2>7, <2>8, <2>9 DEF ReaderNext
<1>2. Has'
  <2>1. CASE ReadClears
    BY <2>1, ClearsHas
  <2>2. CASE ~ReadClears
    <3>1. UNCHANGED <<active, present>>
      BY <2>2 DEF ReaderNext, ReadArmed, ReadExpected, ReadStarting, ReadDefers, ReadDisarms,
         ReadSweeps, ReadOrphan, ReadEvent, sessionVars
    <3>2. QED
      BY <1>1, <3>1, WorksWatch
  <2>3. QED
    BY <2>1, <2>2
<1>3. Stays'
  <2>1. CASE ReadDisarms
    BY <2>1, DisarmsStays
  <2>2. CASE ~ReadDisarms
    <3>1. armed' = armed
      BY <2>2 DEF ReaderNext, ReadArmed, ReadExpected, ReadStarting, ReadDefers, ReadClears,
         ReadSweeps, ReadOrphan, ReadEvent, threadVars
    <3>2. QED
      BY <1>1, <3>1, WorksWatch
  <2>3. QED
    BY <2>1, <2>2
<1>4. QED
  BY <1>1, <1>2, <1>3, WorksWatch, WorksCaught DEF Watch

\* The reader takes the next line.
LEMMA LineWatch ==
    ASSUME IInv, Places, Watch, ReadLine
    PROVE  Watch'
<1> DEFINE l == lines[1]
<1>0. /\ l \in Line /\ 1 \in DOMAIN lines /\ turn = NoTurn /\ NoTurn \notin Send /\ reader.line = NoLine
      /\ reader.pc = "idle" /\ l = Says(l.kind, l.turn) /\ l.turn \in Send /\ Touched(l.turn)
  BY Reads1, SendAssumption DEF Places, Reading, turn, NoLine, Line, Says, Touched
<1>1. /\ UNCHANGED <<send, alive, asked, running, active, present, armed, deferred, taken, swept>>
      /\ \A i \in DOMAIN lines' : i \in Nat /\ 1 < i + 1 /\ i + 1 \in DOMAIN lines /\ lines'[i] = lines[i + 1]
  BY Reads1 DEF ReadLine, sessionVars, threadVars, sentVars
<1>2. /\ \A t : InAsked(t)' <=> InAsked(t)
      /\ \A m : InLines(m) <=> InLines(m)' \/ m = l
  BY Reads1, <1>0 DEF InAsked, InLines
<1>3. \A t \in Send : Unseen(t)' <=> Unseen(t)
  <2>1. CASE l.kind \in {"response", "refusal"}
    <3>1. \A t \in Send : l # Says("started", t)
      BY <2>1 DEF Says
    <3>2. QED
      BY <1>1, <1>2, <3>1, <2>1, Reads1 DEF Unseen
  <2>2. CASE l.kind \in {"started", "completed"}
    <3>1. reader' = [pc |-> "armed", line |-> l]
      BY <2>2, Reads1
    <3>2. reader'.pc = "armed" /\ reader'.line = l
      BY <3>1
    <3>3. \A t \in Send : reader.line # Says("started", t)
      BY <1>0 DEF NoLine, Says
    <3>4. QED
      BY <1>1, <1>2, <3>2, <3>3 DEF Unseen
  <2>3. QED
    BY <1>0, <2>1, <2>2 DEF Line
<1>4. \A t \in Send : /\ turn' = t => l.turn = t
                      /\ Touched(t)' => Touched(t)
                      /\ Accepted(t)' => Accepted(t)
  <2>1. CASE l.kind \in {"response", "refusal"}
    <3>1. turn' = NoTurn
      BY <2>1, <1>0, Reads1 DEF turn
    <3>2. QED
      BY <1>0, <1>1, <1>2, <3>1 DEF Touched, Accepted
  <2>2. CASE l.kind \in {"started", "completed"}
    <3>1. turn' = l.turn
      BY <2>2, Reads1 DEF turn
    <3>2. InLines(Says("started", l.turn)) \/ InLines(Says("completed", l.turn))
      BY <1>0, <1>2, <2>2
    <3>3. QED
      BY <1>0, <1>1, <1>2, <3>1, <3>2 DEF Touched, Accepted
  <2>3. QED
    BY <1>0, <2>1, <2>2 DEF Line
<1>5. \A t \in Send : result'[t] # result[t] =>
         /\ t = l.turn /\ result[t] = "none" /\ send[t] = "waiting" /\ result'[t] \in {"ok", "error"}
  <2>1. CASE l.kind \in {"response", "refusal"}
    <3>1. result' = IF l.turn \in pending
                    THEN [result EXCEPT ![l.turn] = IF l.kind = "response" THEN "ok" ELSE "error"]
                    ELSE result
      BY <2>1, Reads1
    <3>2. l.turn \in pending => result[l.turn] = "none" /\ send[l.turn] = "waiting"
      BY <1>0 DEF Places, Knows, Once, Early
    <3>3. QED
      BY <1>0, <3>1, <3>2 DEF IInv, SendsOK
  <2>2. CASE l.kind \in {"started", "completed"}
    BY <2>2, Reads1
  <2>3. QED
    BY <1>0, <2>1, <2>2 DEF Line
<1>6. /\ OneSend' /\ OneLive' /\ Has' /\ Stays'
      /\ Clear' => Clear /\ alive
      /\ \A t \in Send : alive /\ Live(t)' => Live(t)
  BY <1>1, <1>3, <1>4, <1>5, OthersWatch
<1>7. Latest'
  <2>1. SUFFICES ASSUME Clear', NEW x \in Send, Live(x)'
                 PROVE  /\ \A i \in DOMAIN asked : asked[i] = x => i = Len(asked)
                        /\ Touched(x)' \/ result'[x] \in {"ok", "error"} => asked = <<>>
                        /\ \A i, j \in DOMAIN lines' :
                              i < j /\ lines'[i].turn = x /\ lines'[j].kind = "started" => lines'[j].turn = x
                        /\ turn' = x \/ result'[x] \in {"ok", "error"} =>
                              /\ \A j \in DOMAIN lines' : lines'[j].kind = "started" => lines'[j].turn = x
                              /\ reader'.line.kind = "started" => turn' = x
    BY <1>1 DEF Latest
  <2>2. Clear /\ Live(x)
    BY <1>6, <2>1
  <2>3. l.turn = x => \A j \in DOMAIN lines' : lines'[j].kind = "started" => lines'[j].turn = x
    BY <1>0, <1>1, <2>2 DEF Watch, Latest
  <2>4. result'[x] \in {"ok", "error"} => l.turn = x \/ result[x] \in {"ok", "error"}
    BY <1>5
  <2>5. result[x] \in {"ok", "error"} =>
           \A j \in DOMAIN lines : lines[j].kind = "started" => lines[j].turn = x
    BY <2>2 DEF Watch, Latest
  <2>6. Touched(x)' \/ result'[x] \in {"ok", "error"} => asked = <<>>
    BY <1>0, <1>4, <2>2, <2>4 DEF Watch, Latest
  <2>7. \A i, j \in DOMAIN lines' :
           i < j /\ lines'[i].turn = x /\ lines'[j].kind = "started" => lines'[j].turn = x
    BY <1>1, <2>2 DEF Watch, Latest
  <2>8. turn' = x \/ result'[x] \in {"ok", "error"} =>
           \A j \in DOMAIN lines' : lines'[j].kind = "started" => lines'[j].turn = x
    BY <1>1, <1>4, <2>3, <2>4, <2>5
  <2>9. ASSUME turn' = x \/ result'[x] \in {"ok", "error"}, reader'.line.kind = "started"
        PROVE  turn' = x
    <3>1. l.kind = "started" /\ turn' = l.turn /\ result'[x] = result[x]
      BY <1>0, <2>9, Reads1 DEF NoLine, turn, Line
    <3>2. QED
      BY <1>0, <2>5, <2>9, <3>1
  <2>10. QED
    BY <2>2, <2>6, <2>7, <2>8, <2>9 DEF Watch, Latest
<1>8. Caught'
  <2>1. SUFFICES ASSUME NEW s \in Send, Met(s)'
                 PROVE  Absorbed(s)'
    BY DEF Caught
  <2>2. Met(s)
    BY <1>1, <1>3, <1>5, <2>1 DEF Met
  <2>3. Absorbed(s)
    BY <2>2 DEF Watch, Caught
  <2>4. QED
    BY <1>0, <1>1, <2>3 DEF Absorbed
<1>9. QED
  BY <1>6, <1>7, <1>8 DEF Watch

\* An accepted start is the last request, and its lines are the last.
LEMMA AcceptsWatch ==
    ASSUME IInv, Places, Watch, ServerAccepts
    PROVE  Watch'
<1>1. PICK t \in Send : t = Head(asked)
  BY Asked1 DEF ServerAccepts
<1>2. /\ alive /\ running = NoTurn /\ running' = t /\ asked # <<>>
      /\ UNCHANGED <<reader, alive, send, result, active, present, armed, deferred, taken, swept>>
  BY <1>1 DEF ServerAccepts, callVars, threadVars, clientVars, sessionVars, sentVars
<1>3. /\ InAsked(t) /\ ~Touched(t) /\ t = asked[1] /\ 1 \in DOMAIN asked
      /\ \A s : InAsked(s)' <=> InAsked(s) /\ s # t
      /\ \A i \in DOMAIN asked' : i \in Nat /\ i + 1 \in DOMAIN asked /\ asked'[i] = asked[i + 1]
      /\ Len(asked) \in Nat /\ Len(asked') = Len(asked) - 1
      /\ Len(asked) = 1 => asked' = <<>>
  BY <1>1, Asked1 DEF ServerAccepts
<1>4. PICK a, b \in Line : /\ Adds(a, b)
                           /\ a \in {Says("response", t), Says("started", t)}
                           /\ b \in {Says("response", t), Says("started", t)} /\ a # b
  BY <1>1 DEF ServerAccepts, Says, Line, Adds
<1>5. a.turn = t /\ b.turn = t /\ Says("started", t) \in {a, b}
  BY <1>4 DEF Says
<1>6. /\ \A m : InLines(m)' <=> InLines(m) \/ m = a \/ m = b
      /\ \A i \in DOMAIN lines : lines'[i] = lines[i]
      /\ \A i \in DOMAIN lines' : i \in DOMAIN lines \/ lines'[i] = a \/ lines'[i] = b
      /\ \A i, j \in DOMAIN lines' : i < j =>
            i \in DOMAIN lines \/ (lines'[i] = a /\ lines'[j] = b)
  BY <1>4, Lines2
<1>7. \A s \in Send \ {t} : /\ Says("started", s) \notin {a, b} /\ Says("completed", s) \notin {a, b}
  BY <1>4 DEF Says
<1>8. \A s \in Send : Unseen(s)' <=> Unseen(s)
  BY <1>2, <1>3, <1>5, <1>6, <1>7 DEF Unseen
<1>9. \A s \in Send \ {t} : (Accepted(s)' => Accepted(s)) /\ (Touched(s)' => Touched(s))
  BY <1>2, <1>5, <1>6, <1>7, SendAssumption DEF Accepted, Touched, turn
<1>10. result[t] \in {"none", "timeout"}
  BY <1>2, <1>3 DEF Places, Told
<1>11. /\ OneSend' /\ OneLive' /\ Has' /\ Stays'
       /\ Clear' => Clear /\ alive
       /\ \A s \in Send : alive /\ Live(s)' => Live(s)
  BY <1>2, <1>8, <1>9, <1>10, OthersWatch
<1>12. Latest'
  <2>1. SUFFICES ASSUME Clear', NEW x \in Send, Live(x)'
                 PROVE  /\ \A i \in DOMAIN asked' : asked'[i] = x => i = Len(asked')
                        /\ Touched(x)' \/ result[x] \in {"ok", "error"} => asked' = <<>>
                        /\ \A i, j \in DOMAIN lines' :
                              i < j /\ lines'[i].turn = x /\ lines'[j].kind = "started" => lines'[j].turn = x
                        /\ turn # x /\ result[x] \notin {"ok", "error"}
    BY <1>2 DEF Latest, turn
  <2>2. Clear /\ Live(x)
    BY <1>11, <2>1
  <2>3. ~Touched(x) /\ result[x] \notin {"ok", "error"}
    BY <1>2, <2>2 DEF Watch, Latest
  <2>4. \A i \in DOMAIN asked : asked[i] = x => i = Len(asked)
    BY <2>2 DEF Watch, Latest
  <2>5. \A i \in DOMAIN asked' : asked'[i] = x => i = Len(asked')
    BY <1>3, <2>4
  <2>6. Touched(x)' => asked' = <<>>
    BY <1>3, <1>9, <2>3, <2>4
  <2>7. \A i \in DOMAIN lines : lines[i].turn # x
    BY <2>3 DEF Touched
  <2>8. \A i, j \in DOMAIN lines' : i < j /\ lines'[i].turn = x => lines'[j].turn = x
    BY <1>5, <1>6, <2>7
  <2>9. QED
    BY <2>3, <2>5, <2>6, <2>8 DEF Touched
<1>13. Caught'
  <2>1. \A s \in Send : ~Met(s)'
    BY <1>2, <1>5, <1>6 DEF Met, Unseen
  <2>2. QED
    BY <2>1 DEF Caught
<1>14. QED
  BY <1>11, <1>12, <1>13 DEF Watch

\* A refusal.
LEMMA RefusesWatch ==
    ASSUME IInv, Places, Watch, ServerRefuses
    PROVE  Watch'
<1>1. PICK t \in Send : t = Head(asked)
  BY Asked1 DEF ServerRefuses
<1> DEFINE a == Says("refusal", t)
<1>2. /\ alive /\ asked # <<>> /\ lines' = Append(lines, a)
      /\ UNCHANGED <<running, reader, alive, send, result, active, present, armed, deferred, taken, swept>>
  BY <1>1 DEF ServerRefuses, callVars, threadVars, clientVars, sessionVars, sentVars
<1>3. /\ InAsked(t) /\ ~Touched(t) /\ t = asked[1] /\ 1 \in DOMAIN asked
      /\ \A s : InAsked(s)' <=> InAsked(s) /\ s # t
      /\ \A i \in DOMAIN asked' : i \in Nat /\ i + 1 \in DOMAIN asked /\ asked'[i] = asked[i + 1]
      /\ Len(asked) \in Nat /\ Len(asked') = Len(asked) - 1
      /\ Len(asked) = 1 => asked' = <<>>
  BY <1>1, Asked1 DEF ServerRefuses
<1>4. a \in Line /\ a.turn = t /\ a.kind = "refusal"
  BY DEF Says, Line
<1>5. /\ \A m : InLines(m)' <=> InLines(m) \/ m = a
      /\ \A i \in DOMAIN lines : lines'[i] = lines[i]
      /\ \A i \in DOMAIN lines' : i \in DOMAIN lines \/ lines'[i] = a
      /\ \A i, j \in DOMAIN lines' : i < j => i \in DOMAIN lines
  BY <1>2, <1>4, Lines1
<1>6. \A s \in Send : Says("started", s) # a /\ Says("completed", s) # a
  BY DEF Says
<1>7. \A s \in Send : /\ Unseen(s)' => Unseen(s)
                      /\ Unseen(s) /\ s # t => Unseen(s)'
                      /\ Accepted(s)' => Accepted(s)
                      /\ s # t /\ Touched(s)' => Touched(s)
  BY <1>2, <1>3, <1>4, <1>5, <1>6 DEF Unseen, Accepted, Touched, turn
<1>8. /\ OneSend' /\ OneLive' /\ Has' /\ Stays'
      /\ Clear' => Clear /\ alive
      /\ \A s \in Send : alive /\ Live(s)' => Live(s)
  BY <1>2, <1>7, OthersWatch
<1>9. Latest'
  <2>1. SUFFICES ASSUME Clear', NEW x \in Send, Live(x)'
                 PROVE  /\ \A i \in DOMAIN asked' : asked'[i] = x => i = Len(asked')
                        /\ Touched(x)' \/ result[x] \in {"ok", "error"} => asked' = <<>>
                        /\ \A i, j \in DOMAIN lines' :
                              i < j /\ lines'[i].turn = x /\ lines'[j].kind = "started" => lines'[j].turn = x
                        /\ turn # x /\ result[x] \notin {"ok", "error"}
    BY <1>2 DEF Latest, turn
  <2>2. Clear /\ Live(x)
    BY <1>8, <2>1
  <2>3. ~Touched(x) /\ result[x] \notin {"ok", "error"}
    BY <1>2, <2>2 DEF Watch, Latest
  <2>4. \A i \in DOMAIN asked : asked[i] = x => i = Len(asked)
    BY <2>2 DEF Watch, Latest
  <2>5. \A i \in DOMAIN asked' : asked'[i] = x => i = Len(asked')
    BY <1>3, <2>4
  <2>6. Touched(x)' => asked' = <<>>
    BY <1>3, <1>7, <2>3, <2>4
  <2>7. \A i \in DOMAIN lines : lines[i].turn # x
    BY <2>3 DEF Touched
  <2>8. \A i, j \in DOMAIN lines' : i < j => lines'[i].turn # x
    BY <1>5, <2>7
  <2>9. QED
    BY <2>3, <2>5, <2>6, <2>8 DEF Touched
<1>10. Caught'
  <2>1. SUFFICES ASSUME NEW s \in Send, Met(s)'
                 PROVE  Absorbed(s)'
    BY DEF Caught
  <2>2. s # t
    BY <1>2, <1>3, <2>1 DEF Met, Touched
  <2>3. Met(s)
    BY <1>2, <1>7, <2>1, <2>2 DEF Met
  <2>4. QED
    BY <1>2, <2>3 DEF Watch, Caught, Absorbed, turn
<1>11. QED
  BY <1>8, <1>9, <1>10 DEF Watch

\* An end.
LEMMA EndsWatch ==
    ASSUME IInv, Places, Watch, ServerEndsTurn
    PROVE  Watch'
<1> DEFINE a == Says("completed", running)
<1>1. /\ alive /\ running \in Send /\ running' = NoTurn /\ lines' = Append(lines, a)
      /\ UNCHANGED <<asked, reader, alive, send, result, active, present, armed, deferred, taken, swept>>
  BY DEF ServerEndsTurn, callVars, threadVars, clientVars, sessionVars, sentVars, IInv, PlacesOK
<1>2. a \in Line /\ a.turn = running /\ a.kind = "completed"
  BY <1>1 DEF Says, Line
<1>3. /\ \A m : InLines(m)' <=> InLines(m) \/ m = a
      /\ \A i \in DOMAIN lines : lines'[i] = lines[i]
      /\ \A i \in DOMAIN lines' : i \in DOMAIN lines \/ lines'[i] = a
      /\ \A i, j \in DOMAIN lines' : i < j => i \in DOMAIN lines
  BY <1>1, <1>2, Lines1
<1>4. \A s \in Send : Says("started", s) # a /\ (Says("completed", s) = a => s = running)
  BY DEF Says
<1>5. \A s \in Send : /\ Unseen(s)' => Unseen(s)
                      /\ Accepted(s)' => Accepted(s)
                      /\ Touched(s)' => Touched(s)
  <2>1. \A s \in Send : Unseen(s)' => Unseen(s)
    BY <1>1, <1>3, <1>4 DEF Unseen, InAsked
  <2>2. \A s \in Send : Accepted(s)' => Accepted(s)
    BY <1>1, <1>3, <1>4, SendAssumption DEF Accepted, turn
  <2>3. \A s \in Send : Touched(s)' => Touched(s)
    BY <1>1, <1>2, <1>3, SendAssumption DEF Touched, turn
  <2>4. QED
    BY <2>1, <2>2, <2>3
<1>6. /\ OneSend' /\ OneLive' /\ Has' /\ Stays'
      /\ Clear' => Clear /\ alive
      /\ \A s \in Send : alive /\ Live(s)' => Live(s)
  BY <1>1, <1>5, OthersWatch
<1>7. Latest'
  <2>1. SUFFICES ASSUME Clear', NEW x \in Send, Live(x)'
                 PROVE  /\ \A i \in DOMAIN asked : asked[i] = x => i = Len(asked)
                        /\ Touched(x)' \/ result[x] \in {"ok", "error"} => asked = <<>>
                        /\ \A i, j \in DOMAIN lines' :
                              i < j /\ lines'[i].turn = x /\ lines'[j].kind = "started" => lines'[j].turn = x
                        /\ turn = x \/ result[x] \in {"ok", "error"} =>
                              /\ \A j \in DOMAIN lines' : lines'[j].kind = "started" => lines'[j].turn = x
                              /\ reader.line.kind = "started" => turn = x
    BY <1>1 DEF Latest, turn
  <2>2. Clear /\ Live(x)
    BY <1>6, <2>1
  <2>3. \A j \in DOMAIN lines' : lines'[j].kind = "started" => j \in DOMAIN lines
    BY <1>2, <1>3
  <2>4. QED
    BY <1>3, <1>5, <2>2, <2>3 DEF Watch, Latest
<1>8. Caught'
  BY <1>1, SendAssumption DEF Caught, Met
<1>9. QED
  BY <1>6, <1>7, <1>8 DEF Watch

-----------------------------------------------------------------------------
(* The watch                                                                 *)

SerialWatch == Serial => Watch

\* Every step keeps the watch.
LEMMA WatchStep ==
    ASSUME IInv, Places, Places', Watch, Serial, [Next]_vars
    PROVE  Watch'
<1>1. CASE \E s \in Send : SendNext(s)
  BY <1>1, SendWatch, AsksWatch
<1>2. CASE \E k \in Killer : KillNext(k)
  BY <1>2, KillWatch
<1>3. CASE ReaderNext
  BY <1>3, LineWatch, WorkingWatch
<1>4. CASE CloseNext
  BY <1>4, CloseWatch
<1>5. CASE ServerNext
  <2>1. CASE ServerDies
    <3>1. ~alive' /\ OneSend'
      BY <2>1 DEF ServerDies, callVars, Watch, OneSend, Busy
    <3>2. QED
      BY <3>1, DeadWatch
  <2>2. QED
    BY <1>5, <2>1, AcceptsWatch, RefusesWatch, EndsWatch DEF ServerNext
<1>6. CASE UNCHANGED vars
  <2>1. /\ UNCHANGED <<asked, lines, running, reader, alive, closing, send, result, active, present,
                       armed, deferred, taken, swept>>
    BY <1>6 DEF vars, sessionVars, callVars, threadVars, clientVars, serverVars, sentVars
  <2>2. Quiet /\ Plain
    BY <2>1 DEF Quiet, Plain, Busy, Claimed, Absorbed, turn
  <2>3. QED
    BY <2>2, PlainWatch
<1>7. QED
  BY <1>1, <1>2, <1>3, <1>4, <1>5, <1>6 DEF Next

\* A turn whose start timed out here and was accepted there is interrupted, put
\* aside for it, or met by an armed client, whatever the sends in series, the
\* stops, the reader and the server do, when no other start has timed out.
THEOREM CodexOrphanIsWatched == Spec => []OrphanIsWatched
<1>1. Init => SerialWatch
  <2>1. SUFFICES ASSUME Init
                 PROVE  Watch
    BY DEF SerialWatch
  <2>2. \A s \in Send : ~Busy(s) /\ ~Live(s) /\ ~Unseen(s) /\ running # s
    BY <2>1, SendAssumption DEF Init, Busy, Live, Claimed, Unseen, InAsked, InLines, Says, NoLine,
       Finishing, Ending
  <2>3. QED
    BY <2>2 DEF Watch, OneSend, OneLive, Has, Latest, Stays, Caught, Met
<1>2. IInv /\ Places /\ Places' /\ SerialWatch /\ [Next]_vars => SerialWatch'
  BY WatchStep DEF SerialWatch
<1>3. Places /\ SerialWatch => OrphanIsWatched
  <2>1. SUFFICES ASSUME Places, Watch, NEW s \in Send, running = s, result[s] = "timeout",
                        \A t \in Send \ {s} : result[t] # "timeout", ~armed
                 PROVE  Absorbed(s)
    BY DEF OrphanIsWatched, Absorbed, SerialWatch
  <2>2. ~Unseen(s)
    BY <2>1, SendAssumption DEF Places, Closed, Clear, Watch, Stays
  <2>3. QED
    BY <2>1, <2>2 DEF Watch, Caught, Met
<1>4. QED
  BY <1>1, <1>2, <1>3, CodexInvariant, CodexPlaces, PTL DEF Spec

=============================================================================
