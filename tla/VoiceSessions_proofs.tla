------------------------ MODULE VoiceSessions_proofs ------------------------
(***************************************************************************)
(* Theorems about VoiceSessions for any length of the recording, of a      *)
(* segment and of the tail that is left alone, for any calls of cancel and *)
(* shutdown, and for any finite set of calls of stop.                      *)
(***************************************************************************)
EXTENDS VoiceSessions, FiniteSetTheorems, SequenceTheorems, TLAPS

\* TypeOK in parts: the flags, where everybody is, the channel, the text.
FlagsOK == /\ closed \in BOOLEAN /\ session \in BOOLEAN /\ provisional \in BOOLEAN
           /\ recorder \in BOOLEAN /\ slot \in BOOLEAN

PlacesOK ==
    /\ start \in StartPC /\ holds \subseteq Close
    /\ runner \in RunnerPC /\ mode \in {"segment", "tail", "whole", "unread"}
    /\ exit \in {"none", "stop", "cancel", "error"}
    /\ job \in {"none", "running", "ended", "failed", "killed"}
    /\ slot => runner \in {"stored", "waiting"}
    /\ completion \in {"none", "done", "cancelled", "error"}
    /\ call \in [Caller -> CallPC]

ControlOK == control \subseteq {"stop", "cancel"}

TextOK == /\ audio \in 0 .. MaxAudio /\ snap \in 0 .. audio /\ cursor \in 0 .. snap
          /\ from \in 0 .. cursor
          /\ partials \in Seq(1 .. audio) /\ quiet \subseteq 1 .. audio

\* The runner waits for a transcription, from its first poll on.
Working == runner \in {"starting", "unstored", "stored", "waiting"}

\* The runner thread is on its way to the end or past it.
Ended == Told \/ runner \in {"cleanup", "gone"}

\* What each place of the runner says of the control it has seen, the recorder
\* and the outcome.
Course ==
    /\ start \in {"idle", "permit"} => runner = "unborn"
    /\ completion = "none" <=> runner \notin {"cleanup", "gone"}
    /\ completion = "done" => exit = "stop"
    /\ runner \in {"unborn", "loop", "ready"} => exit = "none"
    /\ Working => exit = IF mode = "segment" THEN "none" ELSE "stop"
    /\ runner = "exiting" => exit \in {"stop", "cancel"}
    /\ runner = "final" => exit = "stop"
    /\ runner = "finish" => exit # "none"
    /\ runner \in {"unborn", "loop", "ready", "exiting", "final"} => mode = "segment"
    /\ Working => mode # "unread"
    /\ runner \in {"unborn", "final", "cleanup", "gone"} => ~recorder
    /\ Working /\ mode # "segment" => ~recorder
    /\ runner = "finish" /\ exit = "stop" => ~recorder

\* Who has the session.
Registered ==
    /\ provisional => start \in {"registered", "withdraw"}
    /\ holds \subseteq Close /\ \A k \in holds : call[k] \in {"drain", "send"}
    /\ Unfinished => session \/ provisional \/ holds # {} \/ start = "spawned" \/ Told

\* Where each kind of call can be, and what is true by then.
Calls ==
    /\ \A k \in Stop : call[k] \in {"idle", "waits", "kill", "grace", "remove", "join",
                                    "done", "notFound"}
    /\ \A k \in Cancel : call[k] \in {"idle", "waits", "kill", "remove", "join", "done",
                                      "timeout", "notFound"}
    /\ \A k \in Close : call[k] \in {"idle", "closed", "drain", "send", "kill", "waits",
                                     "join", "gate", "done"}
    /\ \A k \in Stop : call[k] \in {"kill", "grace"} => Ended
    /\ \A k \in Caller : call[k] = "remove" => Ended
    /\ \A k \in Close : call[k] # "idle" => closed
    /\ \A k \in Close : call[k] \notin {"idle", "closed"} => ~session
    /\ \A k \in Close : call[k] = "done" => ~Permit

\* The calls of stop that have sent a Stop.
Asked == {k \in Stop : call[k] \notin {"idle", "notFound"}}
One == \A j, k \in Asked : j = k

\* A Stop that has ended the recording is not in the channel any more.
Stops ==
    /\ Asked = {} => "stop" \notin control /\ exit # "stop"
    /\ One /\ exit = "stop" => "stop" \notin control

\* What has been said, in which order, and up to where.
Said(s) == {s[i] : i \in 1 .. Len(s)}
Text == Said(partials)
Heard == Text \union quiet

Ordered == \A i, j \in 1 .. Len(partials) : i < j => partials[i] < partials[j]

Upto ==
    /\ runner \in {"unborn", "loop", "ready", "exiting", "final"} => \A n \in Text : n <= cursor
    /\ Working /\ mode = "segment" => \A n \in Text : n <= from
    /\ Working /\ mode = "tail" => \A n \in Text : n <= cursor
    /\ Working /\ mode = "whole" => partials = <<>>

Kept ==
    /\ runner \in {"unborn", "loop", "ready"} => 1 .. cursor \subseteq Heard
    /\ runner \in {"exiting", "final"} \/ Working => 1 .. cursor \subseteq Heard \union Unheard
    /\ runner \in {"finish", "cleanup", "gone"} /\ exit = "stop" /\ One
           => 1 .. audio \subseteq Heard \union PassedOver

IInv == TypeOK /\ Course /\ Registered /\ Calls /\ Stops /\ Ordered /\ Upto /\ Kept

-----------------------------------------------------------------------------
(* The channel and the text                                                  *)

\* What is read off variables that a step leaves alone.
LEMMA Same ==
    /\ call' = call => Asked' = Asked /\ (One' <=> One)
    /\ UNCHANGED <<partials, quiet>> => Text' = Text /\ Heard' = Heard /\ (Ordered' <=> Ordered)
    /\ UNCHANGED <<from, cursor>> => Unheard' = Unheard
    /\ UNCHANGED <<mode, audio, from, cursor>> => PassedOver' = PassedOver
BY DEF Asked, One, Text, Said, Heard, Ordered, Unheard, PassedOver

\* Only recorded pieces are heard.
LEMMA Recorded ==
    ASSUME TypeOK
    PROVE  Text \subseteq 1 .. audio /\ Heard \subseteq 1 .. audio /\ audio \in Nat
<1>1. \A i \in 1 .. Len(partials) : partials[i] \in 1 .. audio
  BY ElementOfSeq DEF TypeOK
<1>2. Text \subseteq 1 .. audio
  BY <1>1 DEF Text, Said
<1>3. quiet \subseteq 1 .. audio /\ audio \in Nat
  BY AudioAssumption DEF TypeOK
<1>4. QED
  BY <1>2, <1>3 DEF Heard

\* Sending adds a message, polling takes them all.
LEMMA Channel ==
    ASSUME TypeOK
    PROVE  /\ \A m \in {"stop", "cancel"} :
                 Send(m) => control' \subseteq {"stop", "cancel"} /\ control' = control \union {m}
           /\ control' = {} => control' \subseteq {"stop", "cancel"}
           /\ control \subseteq {"stop", "cancel"}
BY DEF TypeOK, Send

\* A function on the first n numbers is a sequence.
LEMMA Listed ==
    ASSUME NEW S, NEW n \in Nat, NEW e \in [1 .. n -> S]
    PROVE  e \in Seq(S)
BY SeqDef

\* The text of the pieces from a to b, said after what has been said.
Counts(e, a, b) == Len(e) = b + 1 - a /\ \A i \in 1 .. Len(e) : e[i] = a + i - 1

LEMMA SaidAfter ==
    ASSUME NEW S, NEW s \in Seq(S), NEW e \in Seq(S), NEW a \in Nat, NEW b \in Nat, a <= b + 1,
           Counts(e, a, b)
    PROVE  /\ s \o e \in Seq(S)
           /\ Said(s \o e) = Said(s) \union (a .. b)
           /\ \A i \in 1 .. Len(s \o e) : (s \o e)[i] = IF i <= Len(s) THEN s[i] ELSE a + i - Len(s) - 1
           /\ Len(s \o e) = Len(s) + (b + 1 - a) /\ Len(s) \in Nat
<1> USE DEF Counts
<1> DEFINE n == b + 1 - a
           t == s \o e
<1>3. /\ t \in Seq(S) /\ Len(t) = Len(s) + n /\ Len(s) \in Nat /\ n \in Nat
      /\ \A i \in 1 .. Len(s) + n : t[i] = IF i <= Len(s) THEN s[i] ELSE e[i - Len(s)]
  <2>1. Len(s) \in Nat /\ n \in Nat
    BY LenProperties
  <2>2. /\ s \o e \in Seq(S) /\ Len(s \o e) = Len(s) + Len(e)
        /\ \A i \in 1 .. Len(s) + Len(e) :
              (s \o e)[i] = IF i <= Len(s) THEN s[i] ELSE e[i - Len(s)]
    BY ConcatProperties
  <2>3. QED
    BY <2>1, <2>2
<1> HIDE DEF t
<1>4. \A i \in 1 .. Len(t) : t[i] = IF i <= Len(s) THEN s[i] ELSE a + i - Len(s) - 1
  BY <1>3
<1>5. Said(t) \subseteq Said(s) \union (a .. b)
  <2>1. ASSUME NEW i \in 1 .. Len(t)
        PROVE  (i \in 1 .. Len(s) /\ t[i] = s[i]) \/ t[i] \in a .. b
    <3>1. i \in Nat /\ i <= Len(s) + (b + 1 - a) /\ i >= 1
      BY <1>3
    <3>2. CASE i <= Len(s)
      BY <3>1, <3>2, <1>3, <1>4
    <3>3. CASE i > Len(s)
      BY <3>1, <3>3, <1>3, <1>4
    <3>4. QED
      BY <3>1, <3>2, <3>3, <1>3
  <2>2. QED
    BY <2>1 DEF Said
<1>6. Said(s) \subseteq Said(t)
  <2>1. ASSUME NEW i \in 1 .. Len(s)
        PROVE  i \in 1 .. Len(t) /\ t[i] = s[i]
    BY <1>3
  <2>2. QED
    BY <2>1 DEF Said
<1>7. a .. b \subseteq Said(t)
  <2>1. ASSUME NEW m \in a .. b
        PROVE  Len(s) + m + 1 - a \in 1 .. Len(t) /\ t[Len(s) + m + 1 - a] = m
    BY <1>3, <1>4
  <2>2. QED
    BY <2>1 DEF Said
<1>8. QED
  BY <1>3, <1>4, <1>5, <1>6, <1>7 DEF t


-----------------------------------------------------------------------------
(* The steps                                                                 *)

\* start, on its own.
LEMMA StartKeeps ==
    ASSUME IInv,
           \/ Begin \/ StartFails \/ Spawn \/ Register \/ Publish
           \/ Withdraw \/ StartKills \/ StartWaited \/ StartJoins
    PROVE  IInv'
<1> USE Same DEF IInv, startVars, regVars, audioVars, textVars, jobVars
<1>1. CASE Begin
  <2>Kinds. TypeOK'
    <3>0. FlagsOK'
      BY <1>1 DEF Begin, TypeOK, FlagsOK
    <3>1. PlacesOK'
      BY <1>1 DEF Begin, TypeOK, StartPC, RunnerPC, CallPC, PlacesOK, Caller, Course,
         Working, Polled
    <3>2. ControlOK'
      BY <1>1 DEF Begin, TypeOK, ControlOK
    <3>3. TextOK'
      BY <1>1 DEF Begin, TypeOK, TextOK
    <3> QED
      BY <3>0, <3>1, <3>2, <3>3 DEF TypeOK, FlagsOK, PlacesOK, ControlOK, TextOK
  <2>Told. (Told => Told') /\ (Ended => Ended')
    BY <1>1 DEF Begin, TypeOK, Course, Working, Told, Ended, Polled
  <2>Course. Course'
    BY <1>1 DEF Begin, TypeOK, Course, Working, Polled
  <2>Registered. Registered'
    BY <1>1, <2>Told DEF Begin, TypeOK, Course, Registered, Unfinished, Caller
  <2>Calls. Calls'
    BY <1>1, <2>Told DEF Begin, TypeOK, Calls, Registered, Course, Permit, Caller
  <2>Stops. Stops'
    BY <1>1 DEF Begin, TypeOK, Stops, Asked, One, Course, Working, Polled, Caller
  <2>Text. Ordered' /\ Upto' /\ Kept'
    BY <1>1 DEF Begin, TypeOK, Course, Working, Upto, Kept, Stops, Polled
  <2> QED
    BY <2>Kinds, <2>Course, <2>Registered, <2>Calls, <2>Stops, <2>Text
<1>2. CASE StartFails
  <2>Kinds. TypeOK'
    <3>0. FlagsOK'
      BY <1>2 DEF StartFails, TypeOK, FlagsOK
    <3>1. PlacesOK'
      BY <1>2 DEF StartFails, TypeOK, StartPC, RunnerPC, CallPC, PlacesOK, Caller,
         Course, Working, Polled
    <3>2. ControlOK'
      BY <1>2 DEF StartFails, TypeOK, ControlOK
    <3>3. TextOK'
      BY <1>2 DEF StartFails, TypeOK, TextOK
    <3> QED
      BY <3>0, <3>1, <3>2, <3>3 DEF TypeOK, FlagsOK, PlacesOK, ControlOK, TextOK
  <2>Told. (Told => Told') /\ (Ended => Ended')
    BY <1>2 DEF StartFails, TypeOK, Course, Working, Told, Ended, Polled
  <2>Course. Course'
    BY <1>2 DEF StartFails, TypeOK, Course, Working, Polled
  <2>Registered. Registered'
    BY <1>2, <2>Told DEF StartFails, TypeOK, Course, Registered, Unfinished, Caller
  <2>Calls. Calls'
    BY <1>2, <2>Told DEF StartFails, TypeOK, Calls, Registered, Course, Permit, Caller
  <2>Stops. Stops'
    BY <1>2 DEF StartFails, TypeOK, Stops, Asked, One, Course, Working, Polled, Caller
  <2>Text. Ordered' /\ Upto' /\ Kept'
    BY <1>2 DEF StartFails, TypeOK, Course, Working, Upto, Kept, Stops, Polled
  <2> QED
    BY <2>Kinds, <2>Course, <2>Registered, <2>Calls, <2>Stops, <2>Text
<1>3. CASE Spawn
  <2>Kinds. TypeOK'
    <3>0. FlagsOK'
      BY <1>3 DEF Spawn, TypeOK, FlagsOK
    <3>1. PlacesOK'
      BY <1>3 DEF Spawn, TypeOK, StartPC, RunnerPC, CallPC, PlacesOK, Caller, Course,
         Working, Polled
    <3>2. ControlOK'
      BY <1>3 DEF Spawn, TypeOK, ControlOK
    <3>3. TextOK'
      BY <1>3 DEF Spawn, TypeOK, TextOK
    <3> QED
      BY <3>0, <3>1, <3>2, <3>3 DEF TypeOK, FlagsOK, PlacesOK, ControlOK, TextOK
  <2>Told. (Told => Told') /\ (Ended => Ended')
    BY <1>3 DEF Spawn, TypeOK, Course, Working, Told, Ended, Polled
  <2>Course. Course'
    BY <1>3 DEF Spawn, TypeOK, Course, Working, Polled
  <2>Registered. Registered'
    BY <1>3, <2>Told DEF Spawn, TypeOK, Course, Registered, Unfinished, Caller
  <2>Calls. Calls'
    BY <1>3, <2>Told DEF Spawn, TypeOK, Calls, Registered, Course, Permit, Caller
  <2>Stops. Stops'
    BY <1>3 DEF Spawn, TypeOK, Stops, Asked, One, Course, Working, Polled, Caller
  <2>Text. Ordered' /\ Upto' /\ Kept'
    BY <1>3 DEF Spawn, TypeOK, Course, Working, Upto, Kept, Stops, Polled
  <2> QED
    BY <2>Kinds, <2>Course, <2>Registered, <2>Calls, <2>Stops, <2>Text
<1>4. CASE Register
  <2>Kinds. TypeOK'
    <3>0. FlagsOK'
      BY <1>4 DEF Register, TypeOK, FlagsOK
    <3>1. PlacesOK'
      BY <1>4 DEF Register, TypeOK, StartPC, RunnerPC, CallPC, PlacesOK, Caller,
         Course, Working, Polled
    <3>2. ControlOK'
      BY <1>4 DEF Register, TypeOK, ControlOK
    <3>3. TextOK'
      BY <1>4 DEF Register, TypeOK, TextOK
    <3> QED
      BY <3>0, <3>1, <3>2, <3>3 DEF TypeOK, FlagsOK, PlacesOK, ControlOK, TextOK
  <2>Told. (Told => Told') /\ (Ended => Ended')
    BY <1>4 DEF Register, TypeOK, Course, Working, Told, Ended, Polled
  <2>Course. Course'
    BY <1>4 DEF Register, TypeOK, Course, Working, Polled
  <2>Registered. Registered'
    BY <1>4, <2>Told DEF Register, TypeOK, Course, Registered, Unfinished, Caller
  <2>Calls. Calls'
    BY <1>4, <2>Told DEF Register, TypeOK, Calls, Registered, Course, Permit, Caller
  <2>Stops. Stops'
    BY <1>4 DEF Register, TypeOK, Stops, Asked, One, Course, Working, Polled, Caller
  <2>Text. Ordered' /\ Upto' /\ Kept'
    BY <1>4 DEF Register, TypeOK, Course, Working, Upto, Kept, Stops, Polled
  <2> QED
    BY <2>Kinds, <2>Course, <2>Registered, <2>Calls, <2>Stops, <2>Text
<1>5. CASE Publish
  <2>Kinds. TypeOK'
    <3>0. FlagsOK'
      BY <1>5 DEF Publish, TypeOK, FlagsOK
    <3>1. PlacesOK'
      BY <1>5 DEF Publish, TypeOK, StartPC, RunnerPC, CallPC, PlacesOK, Caller,
         Course, Working, Polled
    <3>2. ControlOK'
      BY <1>5 DEF Publish, TypeOK, ControlOK
    <3>3. TextOK'
      BY <1>5 DEF Publish, TypeOK, TextOK
    <3> QED
      BY <3>0, <3>1, <3>2, <3>3 DEF TypeOK, FlagsOK, PlacesOK, ControlOK, TextOK
  <2>Told. (Told => Told') /\ (Ended => Ended')
    BY <1>5 DEF Publish, TypeOK, Course, Working, Told, Ended, Polled
  <2>Course. Course'
    BY <1>5 DEF Publish, TypeOK, Course, Working, Polled
  <2>Registered. Registered'
    BY <1>5, <2>Told DEF Publish, TypeOK, Course, Registered, Unfinished, Caller
  <2>Calls. Calls'
    BY <1>5, <2>Told DEF Publish, TypeOK, Calls, Registered, Course, Permit, Caller
  <2>Stops. Stops'
    BY <1>5 DEF Publish, TypeOK, Stops, Asked, One, Course, Working, Polled, Caller
  <2>Text. Ordered' /\ Upto' /\ Kept'
    BY <1>5 DEF Publish, TypeOK, Course, Working, Upto, Kept, Stops, Polled
  <2> QED
    BY <2>Kinds, <2>Course, <2>Registered, <2>Calls, <2>Stops, <2>Text
<1>6. CASE Withdraw
  <2>Kinds. TypeOK'
    <3>0. FlagsOK'
      BY <1>6 DEF Withdraw, TypeOK, FlagsOK
    <3>1. PlacesOK'
      BY <1>6 DEF Withdraw, TypeOK, StartPC, RunnerPC, CallPC, PlacesOK, Caller,
         Course, Working, Polled
    <3>2. ControlOK'
      BY <1>6, Channel DEF Withdraw, TypeOK, ControlOK
    <3>3. TextOK'
      BY <1>6 DEF Withdraw, TypeOK, TextOK
    <3> QED
      BY <3>0, <3>1, <3>2, <3>3 DEF TypeOK, FlagsOK, PlacesOK, ControlOK, TextOK
  <2>Told. (Told => Told') /\ (Ended => Ended')
    BY <1>6, Channel DEF Withdraw, TypeOK, Course, Working, Told, Ended, Polled
  <2>Course. Course'
    BY <1>6, Channel DEF Withdraw, TypeOK, Course, Working, Polled
  <2>Registered. Registered'
    <3>1. provisional' => start' \in {"registered", "withdraw"}
      BY <1>6 DEF Withdraw, TypeOK, Registered
    <3>2. holds' \subseteq Close /\ \A j \in holds' : call'[j] \in {"drain", "send"}
      BY <1>6, CallAssumption DEF Withdraw, TypeOK, Registered, Caller, Calls
    <3>3. Unfinished' => session' \/ provisional' \/ holds' # {} \/ start' = "spawned" \/ Told'
      BY <1>6, <2>Told, Channel, CallAssumption DEF Withdraw, TypeOK, Registered, Course,
         Caller, Calls, Unfinished, Told, Ended
    <3> QED
      BY <3>1, <3>2, <3>3 DEF Registered
  <2>Calls. Calls'
    BY <1>6, Channel, <2>Told DEF Withdraw, TypeOK, Calls, Registered, Course, Permit,
       Caller
  <2>Stops. Stops'
    BY <1>6, Channel DEF Withdraw, TypeOK, Stops, Asked, One, Course, Working, Polled,
       Caller
  <2>Text. Ordered' /\ Upto' /\ Kept'
    BY <1>6, Channel DEF Withdraw, TypeOK, Course, Working, Upto, Kept, Stops, Polled
  <2> QED
    BY <2>Kinds, <2>Course, <2>Registered, <2>Calls, <2>Stops, <2>Text
<1>7. CASE StartKills
  <2>Kinds. TypeOK'
    <3>0. FlagsOK'
      BY <1>7 DEF StartKills, KillActive, TypeOK, FlagsOK
    <3>1. PlacesOK'
      BY <1>7 DEF StartKills, KillActive, TypeOK, StartPC, RunnerPC, CallPC,
         PlacesOK, Caller, Course, Working, Polled
    <3>2. ControlOK'
      BY <1>7 DEF StartKills, KillActive, TypeOK, ControlOK
    <3>3. TextOK'
      BY <1>7 DEF StartKills, KillActive, TypeOK, TextOK
    <3> QED
      BY <3>0, <3>1, <3>2, <3>3 DEF TypeOK, FlagsOK, PlacesOK, ControlOK, TextOK
  <2>Told. (Told => Told') /\ (Ended => Ended')
    BY <1>7 DEF StartKills, KillActive, TypeOK, Course, Working, Told, Ended, Polled
  <2>Course. Course'
    BY <1>7 DEF StartKills, KillActive, TypeOK, Course, Working, Polled
  <2>Registered. Registered'
    BY <1>7, <2>Told DEF StartKills, KillActive, TypeOK, Course, Registered, Unfinished,
       Caller
  <2>Calls. Calls'
    BY <1>7, <2>Told DEF StartKills, KillActive, TypeOK, Calls, Registered, Course, Permit,
       Caller
  <2>Stops. Stops'
    BY <1>7 DEF StartKills, KillActive, TypeOK, Stops, Asked, One, Course, Working, Polled,
       Caller
  <2>Text. Ordered' /\ Upto' /\ Kept'
    BY <1>7 DEF StartKills, KillActive, TypeOK, Course, Working, Upto, Kept, Stops, Polled
  <2> QED
    BY <2>Kinds, <2>Course, <2>Registered, <2>Calls, <2>Stops, <2>Text
<1>8. CASE StartWaited
  <2>Kinds. TypeOK'
    <3>0. FlagsOK'
      BY <1>8 DEF StartWaited, TypeOK, FlagsOK
    <3>1. PlacesOK'
      BY <1>8 DEF StartWaited, TypeOK, StartPC, RunnerPC, CallPC, PlacesOK, Caller,
         Course, Working, Polled
    <3>2. ControlOK'
      BY <1>8 DEF StartWaited, TypeOK, ControlOK
    <3>3. TextOK'
      BY <1>8 DEF StartWaited, TypeOK, TextOK
    <3> QED
      BY <3>0, <3>1, <3>2, <3>3 DEF TypeOK, FlagsOK, PlacesOK, ControlOK, TextOK
  <2>Told. (Told => Told') /\ (Ended => Ended')
    BY <1>8 DEF StartWaited, TypeOK, Course, Working, Told, Ended, Polled
  <2>Course. Course'
    BY <1>8 DEF StartWaited, TypeOK, Course, Working, Polled
  <2>Registered. Registered'
    BY <1>8, <2>Told DEF StartWaited, TypeOK, Course, Registered, Unfinished, Caller
  <2>Calls. Calls'
    BY <1>8, <2>Told DEF StartWaited, TypeOK, Calls, Registered, Course, Permit, Caller
  <2>Stops. Stops'
    BY <1>8 DEF StartWaited, TypeOK, Stops, Asked, One, Course, Working, Polled, Caller
  <2>Text. Ordered' /\ Upto' /\ Kept'
    BY <1>8 DEF StartWaited, TypeOK, Course, Working, Upto, Kept, Stops, Polled
  <2> QED
    BY <2>Kinds, <2>Course, <2>Registered, <2>Calls, <2>Stops, <2>Text
<1>9. CASE StartJoins
  <2>Kinds. TypeOK'
    <3>0. FlagsOK'
      BY <1>9 DEF StartJoins, TypeOK, FlagsOK
    <3>1. PlacesOK'
      BY <1>9 DEF StartJoins, TypeOK, StartPC, RunnerPC, CallPC, PlacesOK, Caller,
         Course, Working, Polled
    <3>2. ControlOK'
      BY <1>9 DEF StartJoins, TypeOK, ControlOK
    <3>3. TextOK'
      BY <1>9 DEF StartJoins, TypeOK, TextOK
    <3> QED
      BY <3>0, <3>1, <3>2, <3>3 DEF TypeOK, FlagsOK, PlacesOK, ControlOK, TextOK
  <2>Told. (Told => Told') /\ (Ended => Ended')
    BY <1>9 DEF StartJoins, TypeOK, Course, Working, Told, Ended, Polled
  <2>Course. Course'
    BY <1>9 DEF StartJoins, TypeOK, Course, Working, Polled
  <2>Registered. Registered'
    BY <1>9, <2>Told DEF StartJoins, TypeOK, Course, Registered, Unfinished, Caller
  <2>Calls. Calls'
    BY <1>9, <2>Told DEF StartJoins, TypeOK, Calls, Registered, Course, Permit, Caller
  <2>Stops. Stops'
    BY <1>9 DEF StartJoins, TypeOK, Stops, Asked, One, Course, Working, Polled, Caller
  <2>Text. Ordered' /\ Upto' /\ Kept'
    BY <1>9 DEF StartJoins, TypeOK, Course, Working, Upto, Kept, Stops, Polled
  <2> QED
    BY <2>Kinds, <2>Course, <2>Registered, <2>Calls, <2>Stops, <2>Text
<1> QED
  BY <1>1, <1>2, <1>3, <1>4, <1>5, <1>6, <1>7, <1>8, <1>9

\* The runner, but for the text of a transcription.
LEMMA RunnerKeeps ==
    ASSUME IInv,
           \/ Loop \/ NextSegment \/ NoSegment \/ StartJob \/ StoreJob
           \/ SecondPoll \/ JobKilled \/ JobFailed \/ StopRecording \/ Finalize
           \/ Finish \/ Gone
    PROVE  IInv'
<1> USE Same DEF IInv, startVars, regVars, audioVars, textVars, jobVars
<1>1. CASE Loop
  <2>Kinds. TypeOK'
    <3>0. FlagsOK'
      BY <1>1 DEF Loop, TypeOK, FlagsOK
    <3>1. PlacesOK'
      BY <1>1 DEF Loop, TypeOK, StartPC, RunnerPC, CallPC, PlacesOK, Caller, Course,
         Working, Polled
    <3>2. ControlOK'
      BY <1>1, Channel DEF Loop, TypeOK, ControlOK
    <3>3. TextOK'
      BY <1>1 DEF Loop, TypeOK, TextOK
    <3> QED
      BY <3>0, <3>1, <3>2, <3>3 DEF TypeOK, FlagsOK, PlacesOK, ControlOK, TextOK
  <2>Told. (Told => Told') /\ (Ended => Ended')
    BY <1>1, Channel DEF Loop, TypeOK, Course, Working, Told, Ended, Polled
  <2>Course. Course'
    BY <1>1, Channel DEF Loop, TypeOK, Course, Working, Polled
  <2>Registered. Registered'
    BY <1>1, Channel, <2>Told DEF Loop, TypeOK, Course, Registered, Unfinished, Caller
  <2>Calls. Calls'
    BY <1>1, Channel, <2>Told DEF Loop, TypeOK, Calls, Registered, Course, Permit, Caller
  <2>Stops. Stops'
    BY <1>1, Channel DEF Loop, TypeOK, Stops, Asked, One, Course, Working, Polled, Caller
  <2>Text. Ordered' /\ Upto' /\ Kept'
    BY <1>1, Channel DEF Loop, TypeOK, Course, Working, Upto, Kept, Stops, Polled
  <2> QED
    BY <2>Kinds, <2>Course, <2>Registered, <2>Calls, <2>Stops, <2>Text
<1>2. CASE NextSegment
  <2>Kinds. TypeOK'
    <3>0. FlagsOK'
      BY <1>2 DEF NextSegment, FirstPoll, WriteFails, Leaves, TypeOK, FlagsOK
    <3>1. PlacesOK'
      BY <1>2 DEF NextSegment, FirstPoll, WriteFails, Leaves, TypeOK, StartPC, RunnerPC, CallPC,
         PlacesOK, Caller, Course, Working, Polled
    <3>2. ControlOK'
      BY <1>2, Channel DEF NextSegment, FirstPoll, WriteFails, Leaves, TypeOK, ControlOK
    <3>3. TextOK'
      BY <1>2 DEF NextSegment, FirstPoll, WriteFails, Leaves, TypeOK, TextOK
    <3> QED
      BY <3>0, <3>1, <3>2, <3>3 DEF TypeOK, FlagsOK, PlacesOK, ControlOK, TextOK
  <2>Told. (Told => Told') /\ (Ended => Ended')
    BY <1>2, Channel DEF NextSegment, FirstPoll, WriteFails, Leaves, TypeOK, Course, Working, Told,
       Ended, Polled
  <2>Course. Course'
    BY <1>2, Channel DEF NextSegment, FirstPoll, WriteFails, Leaves, TypeOK, Course, Working, Polled
  <2>Registered. Registered'
    BY <1>2, Channel, <2>Told DEF NextSegment, FirstPoll, WriteFails, Leaves, TypeOK, Course,
       Registered, Unfinished, Caller
  <2>Calls. Calls'
    BY <1>2, Channel, <2>Told DEF NextSegment, FirstPoll, WriteFails, Leaves, TypeOK, Calls,
       Registered, Course, Permit, Caller
  <2>Stops. Stops'
    BY <1>2, Channel DEF NextSegment, FirstPoll, WriteFails, Leaves, TypeOK, Stops, Asked, One, Course,
       Working, Polled, Caller
  <2>Text. Ordered' /\ Upto' /\ Kept'
    <3>1. /\ from' = cursor /\ cursor' \in Nat /\ cursor \in Nat /\ cursor < cursor'
          /\ UNCHANGED <<audio, partials, quiet>>
          /\ mode' = "segment" /\ (exit' = "stop" => runner' = "exiting")
          /\ runner' \in {"starting", "exiting", "finish"}
      BY <1>2, AudioAssumption DEF NextSegment, FirstPoll, WriteFails, Leaves, TypeOK, Course
    <3>2. 1 .. cursor \subseteq Heard /\ \A n \in Text : n <= cursor
      BY <1>2 DEF NextSegment, Kept, Upto
    <3>3. Text \subseteq Nat
      BY Recorded
    <3>4. 1 .. cursor' \subseteq Heard' \union Unheard'
      BY <3>1, <3>2 DEF Unheard
    <3>5. Ordered' /\ Upto'
      <4>1. Text' = Text /\ (Ordered' <=> Ordered)
        BY <3>1
      <4>2. \A n \in Text' : n <= from' /\ n <= cursor'
        BY <3>1, <3>2, <3>3, <4>1
      <4>3. QED
        BY <3>1, <4>1, <4>2 DEF Upto, Working
    <3>6. Kept'
      BY <3>1, <3>4 DEF Kept, Working
    <3> QED
      BY <3>5, <3>6
  <2> QED
    BY <2>Kinds, <2>Course, <2>Registered, <2>Calls, <2>Stops, <2>Text
<1>3. CASE NoSegment
  <2>Kinds. TypeOK'
    <3>0. FlagsOK'
      BY <1>3 DEF NoSegment, TypeOK, FlagsOK
    <3>1. PlacesOK'
      BY <1>3 DEF NoSegment, TypeOK, StartPC, RunnerPC, CallPC, PlacesOK, Caller,
         Course, Working, Polled
    <3>2. ControlOK'
      BY <1>3 DEF NoSegment, TypeOK, ControlOK
    <3>3. TextOK'
      BY <1>3 DEF NoSegment, TypeOK, TextOK
    <3> QED
      BY <3>0, <3>1, <3>2, <3>3 DEF TypeOK, FlagsOK, PlacesOK, ControlOK, TextOK
  <2>Told. (Told => Told') /\ (Ended => Ended')
    BY <1>3 DEF NoSegment, TypeOK, Course, Working, Told, Ended, Polled
  <2>Course. Course'
    BY <1>3 DEF NoSegment, TypeOK, Course, Working, Polled
  <2>Registered. Registered'
    BY <1>3, <2>Told DEF NoSegment, TypeOK, Course, Registered, Unfinished, Caller
  <2>Calls. Calls'
    BY <1>3, <2>Told DEF NoSegment, TypeOK, Calls, Registered, Course, Permit, Caller
  <2>Stops. Stops'
    BY <1>3 DEF NoSegment, TypeOK, Stops, Asked, One, Course, Working, Polled, Caller
  <2>Text. Ordered' /\ Upto' /\ Kept'
    BY <1>3 DEF NoSegment, TypeOK, Course, Working, Upto, Kept, Stops, Polled
  <2> QED
    BY <2>Kinds, <2>Course, <2>Registered, <2>Calls, <2>Stops, <2>Text
<1>4. CASE StartJob
  <2>Kinds. TypeOK'
    <3>0. FlagsOK'
      BY <1>4 DEF StartJob, TypeOK, FlagsOK
    <3>1. PlacesOK'
      BY <1>4 DEF StartJob, TypeOK, StartPC, RunnerPC, CallPC, PlacesOK, Caller,
         Course, Working, Polled
    <3>2. ControlOK'
      BY <1>4 DEF StartJob, TypeOK, ControlOK
    <3>3. TextOK'
      BY <1>4 DEF StartJob, TypeOK, TextOK
    <3> QED
      BY <3>0, <3>1, <3>2, <3>3 DEF TypeOK, FlagsOK, PlacesOK, ControlOK, TextOK
  <2>Told. (Told => Told') /\ (Ended => Ended')
    BY <1>4 DEF StartJob, TypeOK, Course, Working, Told, Ended, Polled
  <2>Course. Course'
    BY <1>4 DEF StartJob, TypeOK, Course, Working, Polled
  <2>Registered. Registered'
    BY <1>4, <2>Told DEF StartJob, TypeOK, Course, Registered, Unfinished, Caller
  <2>Calls. Calls'
    BY <1>4, <2>Told DEF StartJob, TypeOK, Calls, Registered, Course, Permit, Caller
  <2>Stops. Stops'
    BY <1>4 DEF StartJob, TypeOK, Stops, Asked, One, Course, Working, Polled, Caller
  <2>Text. Ordered' /\ Upto' /\ Kept'
    BY <1>4 DEF StartJob, TypeOK, Course, Working, Upto, Kept, Stops, Polled
  <2> QED
    BY <2>Kinds, <2>Course, <2>Registered, <2>Calls, <2>Stops, <2>Text
<1>5. CASE StoreJob
  <2>Kinds. TypeOK'
    <3>0. FlagsOK'
      BY <1>5 DEF StoreJob, TypeOK, FlagsOK
    <3>1. PlacesOK'
      BY <1>5 DEF StoreJob, TypeOK, StartPC, RunnerPC, CallPC, PlacesOK, Caller,
         Course, Working, Polled
    <3>2. ControlOK'
      BY <1>5 DEF StoreJob, TypeOK, ControlOK
    <3>3. TextOK'
      BY <1>5 DEF StoreJob, TypeOK, TextOK
    <3> QED
      BY <3>0, <3>1, <3>2, <3>3 DEF TypeOK, FlagsOK, PlacesOK, ControlOK, TextOK
  <2>Told. (Told => Told') /\ (Ended => Ended')
    BY <1>5 DEF StoreJob, TypeOK, Course, Working, Told, Ended, Polled
  <2>Course. Course'
    BY <1>5 DEF StoreJob, TypeOK, Course, Working, Polled
  <2>Registered. Registered'
    BY <1>5, <2>Told DEF StoreJob, TypeOK, Course, Registered, Unfinished, Caller
  <2>Calls. Calls'
    BY <1>5, <2>Told DEF StoreJob, TypeOK, Calls, Registered, Course, Permit, Caller
  <2>Stops. Stops'
    BY <1>5 DEF StoreJob, TypeOK, Stops, Asked, One, Course, Working, Polled, Caller
  <2>Text. Ordered' /\ Upto' /\ Kept'
    BY <1>5 DEF StoreJob, TypeOK, Course, Working, Upto, Kept, Stops, Polled
  <2> QED
    BY <2>Kinds, <2>Course, <2>Registered, <2>Calls, <2>Stops, <2>Text
<1>6. CASE SecondPoll
  <2>Kinds. TypeOK'
    <3>0. FlagsOK'
      BY <1>6 DEF SecondPoll, Leaves, TypeOK, FlagsOK
    <3>1. PlacesOK'
      BY <1>6 DEF SecondPoll, Leaves, TypeOK, StartPC, RunnerPC, CallPC, PlacesOK,
         Caller, Course, Working, Polled
    <3>2. ControlOK'
      BY <1>6, Channel DEF SecondPoll, Leaves, TypeOK, ControlOK
    <3>3. TextOK'
      BY <1>6 DEF SecondPoll, Leaves, TypeOK, TextOK
    <3> QED
      BY <3>0, <3>1, <3>2, <3>3 DEF TypeOK, FlagsOK, PlacesOK, ControlOK, TextOK
  <2>Told. (Told => Told') /\ (Ended => Ended')
    BY <1>6, Channel DEF SecondPoll, Leaves, TypeOK, Course, Working, Told, Ended, Polled
  <2>Course. Course'
    BY <1>6, Channel DEF SecondPoll, Leaves, TypeOK, Course, Working, Polled
  <2>Registered. Registered'
    BY <1>6, Channel, <2>Told DEF SecondPoll, Leaves, TypeOK, Course, Registered,
       Unfinished, Caller
  <2>Calls. Calls'
    BY <1>6, Channel, <2>Told DEF SecondPoll, Leaves, TypeOK, Calls, Registered, Course,
       Permit, Caller
  <2>Stops. Stops'
    BY <1>6, Channel DEF SecondPoll, Leaves, TypeOK, Stops, Asked, One, Course, Working,
       Polled, Caller
  <2>Text. Ordered' /\ Upto' /\ Kept'
    BY <1>6, Channel, Recorded DEF SecondPoll, Leaves, TypeOK, Course, Working, Upto, Kept,
       Stops, Polled
  <2> QED
    BY <2>Kinds, <2>Course, <2>Registered, <2>Calls, <2>Stops, <2>Text
<1>7. CASE JobKilled
  <2>Kinds. TypeOK'
    <3>0. FlagsOK'
      BY <1>7 DEF JobKilled, Leaves, TypeOK, FlagsOK
    <3>1. PlacesOK'
      BY <1>7 DEF JobKilled, Leaves, TypeOK, StartPC, RunnerPC, CallPC, PlacesOK,
         Caller, Course, Working, Polled
    <3>2. ControlOK'
      BY <1>7, Channel DEF JobKilled, Leaves, TypeOK, ControlOK
    <3>3. TextOK'
      BY <1>7 DEF JobKilled, Leaves, TypeOK, TextOK
    <3> QED
      BY <3>0, <3>1, <3>2, <3>3 DEF TypeOK, FlagsOK, PlacesOK, ControlOK, TextOK
  <2>Told. (Told => Told') /\ (Ended => Ended')
    BY <1>7, Channel DEF JobKilled, Leaves, TypeOK, Course, Working, Told, Ended, Polled
  <2>Course. Course'
    BY <1>7, Channel DEF JobKilled, Leaves, TypeOK, Course, Working, Polled
  <2>Registered. Registered'
    BY <1>7, Channel, <2>Told DEF JobKilled, Leaves, TypeOK, Course, Registered,
       Unfinished, Caller
  <2>Calls. Calls'
    BY <1>7, Channel, <2>Told DEF JobKilled, Leaves, TypeOK, Calls, Registered, Course,
       Permit, Caller
  <2>Stops. Stops'
    BY <1>7, Channel DEF JobKilled, Leaves, TypeOK, Stops, Asked, One, Course, Working,
       Polled, Caller
  <2>Text. Ordered' /\ Upto' /\ Kept'
    BY <1>7, Channel, Recorded DEF JobKilled, Leaves, TypeOK, Course, Working, Upto, Kept,
       Stops, Polled
  <2> QED
    BY <2>Kinds, <2>Course, <2>Registered, <2>Calls, <2>Stops, <2>Text
<1>8. CASE JobFailed
  <2>Kinds. TypeOK'
    <3>0. FlagsOK'
      BY <1>8 DEF JobFailed, TypeOK, FlagsOK
    <3>1. PlacesOK'
      BY <1>8 DEF JobFailed, TypeOK, StartPC, RunnerPC, CallPC, PlacesOK, Caller,
         Course, Working, Polled
    <3>2. ControlOK'
      BY <1>8 DEF JobFailed, TypeOK, ControlOK
    <3>3. TextOK'
      BY <1>8 DEF JobFailed, TypeOK, TextOK
    <3> QED
      BY <3>0, <3>1, <3>2, <3>3 DEF TypeOK, FlagsOK, PlacesOK, ControlOK, TextOK
  <2>Told. (Told => Told') /\ (Ended => Ended')
    BY <1>8 DEF JobFailed, TypeOK, Course, Working, Told, Ended, Polled
  <2>Course. Course'
    BY <1>8 DEF JobFailed, TypeOK, Course, Working, Polled
  <2>Registered. Registered'
    BY <1>8, <2>Told DEF JobFailed, TypeOK, Course, Registered, Unfinished, Caller
  <2>Calls. Calls'
    BY <1>8, <2>Told DEF JobFailed, TypeOK, Calls, Registered, Course, Permit, Caller
  <2>Stops. Stops'
    BY <1>8 DEF JobFailed, TypeOK, Stops, Asked, One, Course, Working, Polled, Caller
  <2>Text. Ordered' /\ Upto' /\ Kept'
    BY <1>8 DEF JobFailed, TypeOK, Course, Working, Upto, Kept, Stops, Polled
  <2> QED
    BY <2>Kinds, <2>Course, <2>Registered, <2>Calls, <2>Stops, <2>Text
<1>9. CASE StopRecording
  <2>Kinds. TypeOK'
    <3>0. FlagsOK'
      BY <1>9 DEF StopRecording, TypeOK, FlagsOK
    <3>1. PlacesOK'
      BY <1>9 DEF StopRecording, TypeOK, StartPC, RunnerPC, CallPC, PlacesOK, Caller,
         Course, Working, Polled
    <3>2. ControlOK'
      BY <1>9 DEF StopRecording, TypeOK, ControlOK
    <3>3. TextOK'
      BY <1>9 DEF StopRecording, TypeOK, TextOK
    <3> QED
      BY <3>0, <3>1, <3>2, <3>3 DEF TypeOK, FlagsOK, PlacesOK, ControlOK, TextOK
  <2>Told. (Told => Told') /\ (Ended => Ended')
    BY <1>9 DEF StopRecording, TypeOK, Course, Working, Told, Ended, Polled
  <2>Course. Course'
    BY <1>9 DEF StopRecording, TypeOK, Course, Working, Polled
  <2>Registered. Registered'
    BY <1>9, <2>Told DEF StopRecording, TypeOK, Course, Registered, Unfinished, Caller
  <2>Calls. Calls'
    BY <1>9, <2>Told DEF StopRecording, TypeOK, Calls, Registered, Course, Permit, Caller
  <2>Stops. Stops'
    BY <1>9 DEF StopRecording, TypeOK, Stops, Asked, One, Course, Working, Polled, Caller
  <2>Text. Ordered' /\ Upto' /\ Kept'
    BY <1>9 DEF StopRecording, TypeOK, Course, Working, Upto, Kept, Stops, Polled
  <2> QED
    BY <2>Kinds, <2>Course, <2>Registered, <2>Calls, <2>Stops, <2>Text
<1>10. CASE Finalize
  <2>Kinds. TypeOK'
    <3>0. FlagsOK'
      BY <1>10 DEF Finalize, FirstPoll, WriteFails, Leaves, TailLeft, TypeOK, FlagsOK
    <3>1. PlacesOK'
      BY <1>10 DEF Finalize, FirstPoll, WriteFails, Leaves, TailLeft, TypeOK, StartPC, RunnerPC,
         CallPC, PlacesOK, Caller, Course, Working, Polled
    <3>2. ControlOK'
      BY <1>10, Channel DEF Finalize, FirstPoll, WriteFails, Leaves, TailLeft, TypeOK, ControlOK
    <3>3. TextOK'
      BY <1>10 DEF Finalize, FirstPoll, WriteFails, Leaves, TailLeft, TypeOK, TextOK
    <3> QED
      BY <3>0, <3>1, <3>2, <3>3 DEF TypeOK, FlagsOK, PlacesOK, ControlOK, TextOK
  <2>Told. (Told => Told') /\ (Ended => Ended')
    BY <1>10, Channel DEF Finalize, FirstPoll, WriteFails, Leaves, TailLeft, TypeOK, Course, Working,
       Told, Ended, Polled
  <2>Course. Course'
    BY <1>10, Channel DEF Finalize, FirstPoll, WriteFails, Leaves, TailLeft, TypeOK, Course, Working,
       Polled
  <2>Registered. Registered'
    BY <1>10, Channel, <2>Told DEF Finalize, FirstPoll, WriteFails, Leaves, TailLeft, TypeOK, Course,
       Registered, Unfinished, Caller
  <2>Calls. Calls'
    BY <1>10, Channel, <2>Told DEF Finalize, FirstPoll, WriteFails, Leaves, TailLeft, TypeOK, Calls,
       Registered, Course, Permit, Caller
  <2>Stops. Stops'
    BY <1>10, Channel DEF Finalize, FirstPoll, WriteFails, Leaves, TailLeft, TypeOK, Stops, Asked, One,
       Course, Working, Polled, Caller
  <2>Text. Ordered' /\ Upto' /\ Kept'
    <3>0. /\ UNCHANGED <<audio, from, cursor, partials, quiet>>
          /\ Unheard' = Unheard /\ Text' = Text /\ Heard' = Heard /\ (One' <=> One)
          /\ from \in Nat /\ cursor \in Nat /\ audio \in Nat /\ MinTail \in Nat
          /\ runner' \in {"starting", "finish"}
      BY <1>10, AudioAssumption DEF Finalize, FirstPoll, WriteFails, Leaves, TypeOK, Course
    <3>1. 1 .. cursor \subseteq Heard \union Unheard /\ \A n \in Text : n <= cursor
      BY <1>10 DEF Finalize, Kept, Upto
    <3>2. Ordered' /\ Upto'
      BY <1>10, <3>0, <3>1 DEF Finalize, FirstPoll, WriteFails, Leaves, Upto, Working
    <3>3. ASSUME runner' = "finish", exit' = "stop", One'
          PROVE  mode' = "unread" \/ (~TailLeft /\ mode' = "segment")
      BY <1>10, <3>0, <3>3 DEF Finalize, FirstPoll, WriteFails, Course, Stops, Polled
    <3>4. mode' = "unread" \/ (~TailLeft /\ mode' = "segment")
              => 1 .. audio \subseteq Heard' \union PassedOver'
      <4>1. 1 .. audio \subseteq (1 .. cursor) \union (cursor + 1 .. audio)
        BY <3>0
      <4>2. mode' # "whole" => Unheard' \subseteq PassedOver'
        BY DEF PassedOver
      <4>3. mode' = "unread" => cursor + 1 .. audio \subseteq PassedOver'
        BY <3>0 DEF PassedOver
      <4>4. ~TailLeft /\ mode' = "segment" => cursor + 1 .. audio \subseteq PassedOver'
        BY <3>0 DEF PassedOver, TailLeft
      <4>5. QED
        BY <3>0, <3>1, <4>1, <4>2, <4>3, <4>4
    <3>5. Kept'
      BY <3>0, <3>1, <3>3, <3>4 DEF Kept, Working
    <3> QED
      BY <3>2, <3>5
  <2> QED
    BY <2>Kinds, <2>Course, <2>Registered, <2>Calls, <2>Stops, <2>Text
<1>11. CASE Finish
  <2>Kinds. TypeOK'
    <3>0. FlagsOK'
      BY <1>11 DEF Finish, TypeOK, FlagsOK
    <3>1. PlacesOK'
      BY <1>11 DEF Finish, TypeOK, StartPC, RunnerPC, CallPC, PlacesOK, Caller,
         Course, Working, Polled
    <3>2. ControlOK'
      BY <1>11 DEF Finish, TypeOK, ControlOK
    <3>3. TextOK'
      BY <1>11 DEF Finish, TypeOK, TextOK
    <3> QED
      BY <3>0, <3>1, <3>2, <3>3 DEF TypeOK, FlagsOK, PlacesOK, ControlOK, TextOK
  <2>Told. (Told => Told') /\ (Ended => Ended')
    BY <1>11 DEF Finish, TypeOK, Course, Working, Told, Ended, Polled
  <2>Course. Course'
    BY <1>11 DEF Finish, TypeOK, Course, Working, Polled
  <2>Registered. Registered'
    BY <1>11, <2>Told DEF Finish, TypeOK, Course, Registered, Unfinished, Caller
  <2>Calls. Calls'
    BY <1>11, <2>Told DEF Finish, TypeOK, Calls, Registered, Course, Permit, Caller
  <2>Stops. Stops'
    BY <1>11 DEF Finish, TypeOK, Stops, Asked, One, Course, Working, Polled, Caller
  <2>Text. Ordered' /\ Upto' /\ Kept'
    BY <1>11 DEF Finish, TypeOK, Course, Working, Upto, Kept, Stops, Polled
  <2> QED
    BY <2>Kinds, <2>Course, <2>Registered, <2>Calls, <2>Stops, <2>Text
<1>12. CASE Gone
  <2>Kinds. TypeOK'
    <3>0. FlagsOK'
      BY <1>12 DEF Gone, TypeOK, FlagsOK
    <3>1. PlacesOK'
      BY <1>12 DEF Gone, TypeOK, StartPC, RunnerPC, CallPC, PlacesOK, Caller, Course,
         Working, Polled
    <3>2. ControlOK'
      BY <1>12 DEF Gone, TypeOK, ControlOK
    <3>3. TextOK'
      BY <1>12 DEF Gone, TypeOK, TextOK
    <3> QED
      BY <3>0, <3>1, <3>2, <3>3 DEF TypeOK, FlagsOK, PlacesOK, ControlOK, TextOK
  <2>Told. (Told => Told') /\ (Ended => Ended')
    BY <1>12 DEF Gone, TypeOK, Course, Working, Told, Ended, Polled
  <2>Course. Course'
    BY <1>12 DEF Gone, TypeOK, Course, Working, Polled
  <2>Registered. Registered'
    BY <1>12, <2>Told DEF Gone, TypeOK, Course, Registered, Unfinished, Caller
  <2>Calls. Calls'
    BY <1>12, <2>Told DEF Gone, TypeOK, Calls, Registered, Course, Permit, Caller
  <2>Stops. Stops'
    BY <1>12 DEF Gone, TypeOK, Stops, Asked, One, Course, Working, Polled, Caller
  <2>Text. Ordered' /\ Upto' /\ Kept'
    BY <1>12 DEF Gone, TypeOK, Course, Working, Upto, Kept, Stops, Polled
  <2> QED
    BY <2>Kinds, <2>Course, <2>Registered, <2>Calls, <2>Stops, <2>Text
<1> QED
  BY <1>1, <1>2, <1>3, <1>4, <1>5, <1>6, <1>7, <1>8, <1>9, <1>10, <1>11, <1>12

\* stop, cancel and shutdown.
LEMMA CallKeeps ==
    ASSUME IInv, NEW k \in Caller,
           \/ NotFound(k) \/ BeginStop(k) \/ BeginCancel(k) \/ CloseGate(k) \/ StopTimesOut(k)
           \/ Kills(k) \/ Hears(k) \/ Grace(k) \/ TimesOut(k) \/ Removes(k)
           \/ Joins(k) \/ DrainSessions(k) \/ DrainProvisional(k) \/ CloseSends(k) \/ GateWaits(k)
    PROVE  IInv'
<1> USE Same DEF IInv, startVars, regVars, audioVars, textVars, jobVars
<1>1. CASE NotFound(k)
  <2>Kinds. TypeOK'
    <3>0. FlagsOK'
      BY <1>1 DEF NotFound, Moves, TypeOK, FlagsOK
    <3>1. PlacesOK'
      BY <1>1, CallAssumption DEF NotFound, Moves, TypeOK, StartPC, RunnerPC, CallPC,
         PlacesOK, Caller, Course, Working, Polled
    <3>2. ControlOK'
      BY <1>1 DEF NotFound, Moves, TypeOK, ControlOK
    <3>3. TextOK'
      BY <1>1 DEF NotFound, Moves, TypeOK, TextOK
    <3> QED
      BY <3>0, <3>1, <3>2, <3>3 DEF TypeOK, FlagsOK, PlacesOK, ControlOK, TextOK
  <2>Asks. Asked \subseteq Asked' /\ (One' => One)
    BY <1>1, CallAssumption DEF NotFound, Moves, Asked, One, TypeOK, Caller
  <2>Told. (Told => Told') /\ (Ended => Ended')
    BY <1>1 DEF NotFound, Moves, TypeOK, Course, Working, Told, Ended, Polled
  <2>Course. Course'
    BY <1>1 DEF NotFound, Moves, TypeOK, Course, Working, Polled
  <2>Registered. Registered'
    BY <1>1, CallAssumption, <2>Told DEF NotFound, Moves, TypeOK, Course, Registered,
       Unfinished, Caller
  <2>Calls. Calls'
    BY <1>1, CallAssumption, <2>Told DEF NotFound, Moves, TypeOK, Calls, Registered,
       Course, Permit, Caller
  <2>Stops. Stops'
    BY <1>1, CallAssumption DEF NotFound, Moves, TypeOK, Stops, Asked, One, Course,
       Working, Polled, Caller
  <2>Text. Ordered' /\ Upto' /\ Kept'
    BY <1>1, <2>Asks DEF NotFound, Moves, TypeOK, Course, Working, Upto, Kept, Stops, Polled
  <2> QED
    BY <2>Kinds, <2>Course, <2>Registered, <2>Calls, <2>Stops, <2>Text
<1>2. CASE BeginStop(k)
  <2>Kinds. TypeOK'
    <3>0. FlagsOK'
      BY <1>2 DEF BeginStop, Moves, TypeOK, FlagsOK
    <3>1. PlacesOK'
      BY <1>2, CallAssumption DEF BeginStop, Moves, TypeOK, StartPC, RunnerPC, CallPC,
         PlacesOK, Caller, Course, Working, Polled
    <3>2. ControlOK'
      BY <1>2, Channel DEF BeginStop, Moves, TypeOK, ControlOK
    <3>3. TextOK'
      BY <1>2 DEF BeginStop, Moves, TypeOK, TextOK
    <3> QED
      BY <3>0, <3>1, <3>2, <3>3 DEF TypeOK, FlagsOK, PlacesOK, ControlOK, TextOK
  <2>Asks. Asked \subseteq Asked' /\ (One' => One)
    BY <1>2, CallAssumption DEF BeginStop, Moves, Asked, One, TypeOK, Caller
  <2>Told. (Told => Told') /\ (Ended => Ended')
    BY <1>2, Channel DEF BeginStop, Moves, TypeOK, Course, Working, Told, Ended, Polled
  <2>Course. Course'
    BY <1>2, Channel DEF BeginStop, Moves, TypeOK, Course, Working, Polled
  <2>Registered. Registered'
    BY <1>2, Channel, CallAssumption, <2>Told DEF BeginStop, Moves, TypeOK, Course,
       Registered, Unfinished, Caller
  <2>Calls. Calls'
    BY <1>2, Channel, CallAssumption, <2>Told DEF BeginStop, Moves, TypeOK, Calls,
       Registered, Course, Permit, Caller
  <2>Stops. Stops'
    BY <1>2, Channel, CallAssumption DEF BeginStop, Moves, TypeOK, Stops, Asked, One,
       Course, Working, Polled, Caller
  <2>Text. Ordered' /\ Upto' /\ Kept'
    BY <1>2, Channel, <2>Asks DEF BeginStop, Moves, TypeOK, Course, Working, Upto, Kept,
       Stops, Polled
  <2> QED
    BY <2>Kinds, <2>Course, <2>Registered, <2>Calls, <2>Stops, <2>Text
<1>3. CASE BeginCancel(k)
  <2>Kinds. TypeOK'
    <3>0. FlagsOK'
      BY <1>3 DEF BeginCancel, Moves, TypeOK, FlagsOK
    <3>1. PlacesOK'
      BY <1>3, CallAssumption DEF BeginCancel, Moves, TypeOK, StartPC, RunnerPC, CallPC,
         PlacesOK, Caller, Course, Working, Polled
    <3>2. ControlOK'
      BY <1>3, Channel DEF BeginCancel, Moves, TypeOK, ControlOK
    <3>3. TextOK'
      BY <1>3 DEF BeginCancel, Moves, TypeOK, TextOK
    <3> QED
      BY <3>0, <3>1, <3>2, <3>3 DEF TypeOK, FlagsOK, PlacesOK, ControlOK, TextOK
  <2>Asks. Asked \subseteq Asked' /\ (One' => One)
    BY <1>3, CallAssumption DEF BeginCancel, Moves, Asked, One, TypeOK, Caller
  <2>Told. (Told => Told') /\ (Ended => Ended')
    BY <1>3, Channel DEF BeginCancel, Moves, TypeOK, Course, Working, Told, Ended, Polled
  <2>Course. Course'
    BY <1>3, Channel DEF BeginCancel, Moves, TypeOK, Course, Working, Polled
  <2>Registered. Registered'
    BY <1>3, Channel, CallAssumption, <2>Told DEF BeginCancel, Moves, TypeOK, Course,
       Registered, Unfinished, Caller
  <2>Calls. Calls'
    BY <1>3, Channel, CallAssumption, <2>Told DEF BeginCancel, Moves, TypeOK, Calls,
       Registered, Course, Permit, Caller
  <2>Stops. Stops'
    BY <1>3, Channel, CallAssumption DEF BeginCancel, Moves, TypeOK, Stops, Asked, One,
       Course, Working, Polled, Caller
  <2>Text. Ordered' /\ Upto' /\ Kept'
    BY <1>3, Channel, <2>Asks DEF BeginCancel, Moves, TypeOK, Course, Working, Upto, Kept,
       Stops, Polled
  <2> QED
    BY <2>Kinds, <2>Course, <2>Registered, <2>Calls, <2>Stops, <2>Text
<1>4. CASE CloseGate(k)
  <2>Kinds. TypeOK'
    <3>0. FlagsOK'
      BY <1>4 DEF CloseGate, Moves, TypeOK, FlagsOK
    <3>1. PlacesOK'
      BY <1>4, CallAssumption DEF CloseGate, Moves, TypeOK, StartPC, RunnerPC, CallPC,
         PlacesOK, Caller, Course, Working, Polled
    <3>2. ControlOK'
      BY <1>4 DEF CloseGate, Moves, TypeOK, ControlOK
    <3>3. TextOK'
      BY <1>4 DEF CloseGate, Moves, TypeOK, TextOK
    <3> QED
      BY <3>0, <3>1, <3>2, <3>3 DEF TypeOK, FlagsOK, PlacesOK, ControlOK, TextOK
  <2>Asks. Asked \subseteq Asked' /\ (One' => One)
    BY <1>4, CallAssumption DEF CloseGate, Moves, Asked, One, TypeOK, Caller
  <2>Told. (Told => Told') /\ (Ended => Ended')
    BY <1>4 DEF CloseGate, Moves, TypeOK, Course, Working, Told, Ended, Polled
  <2>Course. Course'
    BY <1>4 DEF CloseGate, Moves, TypeOK, Course, Working, Polled
  <2>Registered. Registered'
    BY <1>4, CallAssumption, <2>Told DEF CloseGate, Moves, TypeOK, Course, Registered,
       Unfinished, Caller
  <2>Calls. Calls'
    BY <1>4, CallAssumption, <2>Told DEF CloseGate, Moves, TypeOK, Calls, Registered,
       Course, Permit, Caller
  <2>Stops. Stops'
    BY <1>4, CallAssumption DEF CloseGate, Moves, TypeOK, Stops, Asked, One, Course,
       Working, Polled, Caller
  <2>Text. Ordered' /\ Upto' /\ Kept'
    BY <1>4, <2>Asks DEF CloseGate, Moves, TypeOK, Course, Working, Upto, Kept, Stops,
       Polled
  <2> QED
    BY <2>Kinds, <2>Course, <2>Registered, <2>Calls, <2>Stops, <2>Text
<1>5. CASE StopTimesOut(k)
  <2>Kinds. TypeOK'
    <3>0. FlagsOK'
      BY <1>5 DEF StopTimesOut, Moves, Ended, Told, TypeOK, FlagsOK
    <3>1. PlacesOK'
      BY <1>5, CallAssumption DEF StopTimesOut, Moves, Ended, Told, TypeOK, StartPC,
         RunnerPC, CallPC, PlacesOK, Caller, Course, Working, Polled
    <3>2. ControlOK'
      BY <1>5, Channel DEF StopTimesOut, Moves, Ended, Told, TypeOK, ControlOK
    <3>3. TextOK'
      BY <1>5 DEF StopTimesOut, Moves, Ended, Told, TypeOK, TextOK
    <3> QED
      BY <3>0, <3>1, <3>2, <3>3 DEF TypeOK, FlagsOK, PlacesOK, ControlOK, TextOK
  <2>Asks. Asked \subseteq Asked' /\ (One' => One)
    BY <1>5, CallAssumption DEF StopTimesOut, Moves, Ended, Told, Asked, One, TypeOK, Caller
  <2>Told. (Told => Told') /\ (Ended => Ended')
    BY <1>5, Channel DEF StopTimesOut, Moves, Ended, Told, TypeOK, Course, Working, Told,
       Ended, Polled
  <2>Course. Course'
    BY <1>5, Channel DEF StopTimesOut, Moves, Ended, Told, TypeOK, Course, Working, Polled
  <2>Registered. Registered'
    BY <1>5, Channel, CallAssumption, <2>Told DEF StopTimesOut, Moves, Ended, Told, TypeOK,
       Course, Registered, Unfinished, Caller
  <2>Calls. Calls'
    BY <1>5, Channel, CallAssumption, <2>Told DEF StopTimesOut, Moves, Ended, Told, TypeOK,
       Calls, Registered, Course, Permit, Caller
  <2>Stops. Stops'
    BY <1>5, Channel, CallAssumption DEF StopTimesOut, Moves, Ended, Told, TypeOK, Stops,
       Asked, One, Course, Working, Polled, Caller
  <2>Text. Ordered' /\ Upto' /\ Kept'
    BY <1>5, Channel, <2>Asks DEF StopTimesOut, Moves, Ended, Told, TypeOK, Course,
       Working, Upto, Kept, Stops, Polled
  <2> QED
    BY <2>Kinds, <2>Course, <2>Registered, <2>Calls, <2>Stops, <2>Text
<1>6. CASE Kills(k)
  <2>Kinds. TypeOK'
    <3>0. FlagsOK'
      BY <1>6 DEF Kills, Moves, KillActive, TypeOK, FlagsOK
    <3>1. PlacesOK'
      BY <1>6, CallAssumption DEF Kills, Moves, KillActive, TypeOK, StartPC, RunnerPC,
         CallPC, PlacesOK, Caller, Course, Working, Polled
    <3>2. ControlOK'
      BY <1>6 DEF Kills, Moves, KillActive, TypeOK, ControlOK
    <3>3. TextOK'
      BY <1>6 DEF Kills, Moves, KillActive, TypeOK, TextOK
    <3> QED
      BY <3>0, <3>1, <3>2, <3>3 DEF TypeOK, FlagsOK, PlacesOK, ControlOK, TextOK
  <2>Asks. Asked \subseteq Asked' /\ (One' => One)
    BY <1>6, CallAssumption DEF Kills, Moves, KillActive, Asked, One, TypeOK, Caller
  <2>Told. (Told => Told') /\ (Ended => Ended')
    BY <1>6 DEF Kills, Moves, KillActive, TypeOK, Course, Working, Told, Ended, Polled
  <2>Course. Course'
    BY <1>6 DEF Kills, Moves, KillActive, TypeOK, Course, Working, Polled
  <2>Registered. Registered'
    BY <1>6, CallAssumption, <2>Told DEF Kills, Moves, KillActive, TypeOK, Course,
       Registered, Unfinished, Caller
  <2>Calls. Calls'
    BY <1>6, CallAssumption, <2>Told DEF Kills, Moves, KillActive, TypeOK, Calls,
       Registered, Course, Permit, Caller
  <2>Stops. Stops'
    BY <1>6, CallAssumption DEF Kills, Moves, KillActive, TypeOK, Stops, Asked, One,
       Course, Working, Polled, Caller
  <2>Text. Ordered' /\ Upto' /\ Kept'
    BY <1>6, <2>Asks DEF Kills, Moves, KillActive, TypeOK, Course, Working, Upto, Kept,
       Stops, Polled
  <2> QED
    BY <2>Kinds, <2>Course, <2>Registered, <2>Calls, <2>Stops, <2>Text
<1>7. CASE Hears(k)
  <2>Kinds. TypeOK'
    <3>0. FlagsOK'
      BY <1>7 DEF Hears, Moves, Ended, Told, TypeOK, FlagsOK
    <3>1. PlacesOK'
      BY <1>7, CallAssumption DEF Hears, Moves, Ended, Told, TypeOK, StartPC, RunnerPC,
         CallPC, PlacesOK, Caller, Course, Working, Polled
    <3>2. ControlOK'
      BY <1>7 DEF Hears, Moves, Ended, Told, TypeOK, ControlOK
    <3>3. TextOK'
      BY <1>7 DEF Hears, Moves, Ended, Told, TypeOK, TextOK
    <3> QED
      BY <3>0, <3>1, <3>2, <3>3 DEF TypeOK, FlagsOK, PlacesOK, ControlOK, TextOK
  <2>Asks. Asked \subseteq Asked' /\ (One' => One)
    BY <1>7, CallAssumption DEF Hears, Moves, Ended, Told, Asked, One, TypeOK, Caller
  <2>Told. (Told => Told') /\ (Ended => Ended')
    BY <1>7 DEF Hears, Moves, Ended, Told, TypeOK, Course, Working, Told, Ended, Polled
  <2>Course. Course'
    BY <1>7 DEF Hears, Moves, Ended, Told, TypeOK, Course, Working, Polled
  <2>Registered. Registered'
    BY <1>7, CallAssumption, <2>Told DEF Hears, Moves, Ended, Told, TypeOK, Course,
       Registered, Unfinished, Caller
  <2>Calls. Calls'
    BY <1>7, CallAssumption, <2>Told DEF Hears, Moves, Ended, Told, TypeOK, Calls,
       Registered, Course, Permit, Caller
  <2>Stops. Stops'
    BY <1>7, CallAssumption DEF Hears, Moves, Ended, Told, TypeOK, Stops, Asked, One,
       Course, Working, Polled, Caller
  <2>Text. Ordered' /\ Upto' /\ Kept'
    BY <1>7, <2>Asks DEF Hears, Moves, Ended, Told, TypeOK, Course, Working, Upto, Kept,
       Stops, Polled
  <2> QED
    BY <2>Kinds, <2>Course, <2>Registered, <2>Calls, <2>Stops, <2>Text
<1>8. CASE Grace(k)
  <2>Kinds. TypeOK'
    <3>0. FlagsOK'
      BY <1>8 DEF Grace, Moves, TypeOK, FlagsOK
    <3>1. PlacesOK'
      BY <1>8, CallAssumption DEF Grace, Moves, TypeOK, StartPC, RunnerPC, CallPC,
         PlacesOK, Caller, Course, Working, Polled
    <3>2. ControlOK'
      BY <1>8 DEF Grace, Moves, TypeOK, ControlOK
    <3>3. TextOK'
      BY <1>8 DEF Grace, Moves, TypeOK, TextOK
    <3> QED
      BY <3>0, <3>1, <3>2, <3>3 DEF TypeOK, FlagsOK, PlacesOK, ControlOK, TextOK
  <2>Asks. Asked \subseteq Asked' /\ (One' => One)
    BY <1>8, CallAssumption DEF Grace, Moves, Asked, One, TypeOK, Caller
  <2>Told. (Told => Told') /\ (Ended => Ended')
    BY <1>8 DEF Grace, Moves, TypeOK, Course, Working, Told, Ended, Polled
  <2>Course. Course'
    BY <1>8 DEF Grace, Moves, TypeOK, Course, Working, Polled
  <2>Registered. Registered'
    BY <1>8, CallAssumption, <2>Told DEF Grace, Moves, TypeOK, Course, Registered,
       Unfinished, Caller
  <2>Calls. Calls'
    BY <1>8, CallAssumption, <2>Told DEF Grace, Moves, TypeOK, Calls, Registered, Course,
       Permit, Caller
  <2>Stops. Stops'
    BY <1>8, CallAssumption DEF Grace, Moves, TypeOK, Stops, Asked, One, Course, Working,
       Polled, Caller
  <2>Text. Ordered' /\ Upto' /\ Kept'
    BY <1>8, <2>Asks DEF Grace, Moves, TypeOK, Course, Working, Upto, Kept, Stops, Polled
  <2> QED
    BY <2>Kinds, <2>Course, <2>Registered, <2>Calls, <2>Stops, <2>Text
<1>9. CASE TimesOut(k)
  <2>Kinds. TypeOK'
    <3>0. FlagsOK'
      BY <1>9 DEF TimesOut, Moves, TypeOK, FlagsOK
    <3>1. PlacesOK'
      BY <1>9, CallAssumption DEF TimesOut, Moves, TypeOK, StartPC, RunnerPC, CallPC,
         PlacesOK, Caller, Course, Working, Polled
    <3>2. ControlOK'
      BY <1>9 DEF TimesOut, Moves, TypeOK, ControlOK
    <3>3. TextOK'
      BY <1>9 DEF TimesOut, Moves, TypeOK, TextOK
    <3> QED
      BY <3>0, <3>1, <3>2, <3>3 DEF TypeOK, FlagsOK, PlacesOK, ControlOK, TextOK
  <2>Asks. Asked \subseteq Asked' /\ (One' => One)
    BY <1>9, CallAssumption DEF TimesOut, Moves, Asked, One, TypeOK, Caller
  <2>Told. (Told => Told') /\ (Ended => Ended')
    BY <1>9 DEF TimesOut, Moves, TypeOK, Course, Working, Told, Ended, Polled
  <2>Course. Course'
    BY <1>9 DEF TimesOut, Moves, TypeOK, Course, Working, Polled
  <2>Registered. Registered'
    BY <1>9, CallAssumption, <2>Told DEF TimesOut, Moves, TypeOK, Course, Registered,
       Unfinished, Caller
  <2>Calls. Calls'
    BY <1>9, CallAssumption, <2>Told DEF TimesOut, Moves, TypeOK, Calls, Registered,
       Course, Permit, Caller
  <2>Stops. Stops'
    BY <1>9, CallAssumption DEF TimesOut, Moves, TypeOK, Stops, Asked, One, Course,
       Working, Polled, Caller
  <2>Text. Ordered' /\ Upto' /\ Kept'
    BY <1>9, <2>Asks DEF TimesOut, Moves, TypeOK, Course, Working, Upto, Kept, Stops, Polled
  <2> QED
    BY <2>Kinds, <2>Course, <2>Registered, <2>Calls, <2>Stops, <2>Text
<1>10. CASE Removes(k)
  <2>Kinds. TypeOK'
    <3>0. FlagsOK'
      BY <1>10 DEF Removes, Moves, TypeOK, FlagsOK
    <3>1. PlacesOK'
      BY <1>10, CallAssumption DEF Removes, Moves, TypeOK, StartPC, RunnerPC, CallPC,
         PlacesOK, Caller, Course, Working, Polled
    <3>2. ControlOK'
      BY <1>10 DEF Removes, Moves, TypeOK, ControlOK
    <3>3. TextOK'
      BY <1>10 DEF Removes, Moves, TypeOK, TextOK
    <3> QED
      BY <3>0, <3>1, <3>2, <3>3 DEF TypeOK, FlagsOK, PlacesOK, ControlOK, TextOK
  <2>Asks. Asked \subseteq Asked' /\ (One' => One)
    BY <1>10, CallAssumption DEF Removes, Moves, Asked, One, TypeOK, Caller
  <2>Told. (Told => Told') /\ (Ended => Ended')
    BY <1>10 DEF Removes, Moves, TypeOK, Course, Working, Told, Ended, Polled
  <2>Course. Course'
    BY <1>10 DEF Removes, Moves, TypeOK, Course, Working, Polled
  <2>Registered. Registered'
    <3>1. provisional' => start' \in {"registered", "withdraw"}
      BY <1>10 DEF Removes, Moves, TypeOK, Registered
    <3>2. holds' \subseteq Close /\ \A j \in holds' : call'[j] \in {"drain", "send"}
      BY <1>10, CallAssumption DEF Removes, Moves, TypeOK, Registered, Caller, Calls
    <3>3. Unfinished' => session' \/ provisional' \/ holds' # {} \/ start' = "spawned" \/ Told'
      BY <1>10, <2>Told, Channel, CallAssumption DEF Removes, Moves, TypeOK, Registered,
         Course, Caller, Calls, Unfinished, Told, Ended
    <3> QED
      BY <3>1, <3>2, <3>3 DEF Registered
  <2>Calls. Calls'
    BY <1>10, CallAssumption, <2>Told DEF Removes, Moves, TypeOK, Calls, Registered,
       Course, Permit, Caller
  <2>Stops. Stops'
    BY <1>10, CallAssumption DEF Removes, Moves, TypeOK, Stops, Asked, One, Course,
       Working, Polled, Caller
  <2>Text. Ordered' /\ Upto' /\ Kept'
    BY <1>10, <2>Asks DEF Removes, Moves, TypeOK, Course, Working, Upto, Kept, Stops, Polled
  <2> QED
    BY <2>Kinds, <2>Course, <2>Registered, <2>Calls, <2>Stops, <2>Text
<1>11. CASE Joins(k)
  <2>Kinds. TypeOK'
    <3>0. FlagsOK'
      BY <1>11 DEF Joins, Moves, TypeOK, FlagsOK
    <3>1. PlacesOK'
      BY <1>11, CallAssumption DEF Joins, Moves, TypeOK, StartPC, RunnerPC, CallPC,
         PlacesOK, Caller, Course, Working, Polled
    <3>2. ControlOK'
      BY <1>11 DEF Joins, Moves, TypeOK, ControlOK
    <3>3. TextOK'
      BY <1>11 DEF Joins, Moves, TypeOK, TextOK
    <3> QED
      BY <3>0, <3>1, <3>2, <3>3 DEF TypeOK, FlagsOK, PlacesOK, ControlOK, TextOK
  <2>Asks. Asked \subseteq Asked' /\ (One' => One)
    BY <1>11, CallAssumption DEF Joins, Moves, Asked, One, TypeOK, Caller
  <2>Told. (Told => Told') /\ (Ended => Ended')
    BY <1>11 DEF Joins, Moves, TypeOK, Course, Working, Told, Ended, Polled
  <2>Course. Course'
    BY <1>11 DEF Joins, Moves, TypeOK, Course, Working, Polled
  <2>Registered. Registered'
    BY <1>11, CallAssumption, <2>Told DEF Joins, Moves, TypeOK, Course, Registered,
       Unfinished, Caller
  <2>Calls. Calls'
    BY <1>11, CallAssumption, <2>Told DEF Joins, Moves, TypeOK, Calls, Registered, Course,
       Permit, Caller
  <2>Stops. Stops'
    BY <1>11, CallAssumption DEF Joins, Moves, TypeOK, Stops, Asked, One, Course, Working,
       Polled, Caller
  <2>Text. Ordered' /\ Upto' /\ Kept'
    BY <1>11, <2>Asks DEF Joins, Moves, TypeOK, Course, Working, Upto, Kept, Stops, Polled
  <2> QED
    BY <2>Kinds, <2>Course, <2>Registered, <2>Calls, <2>Stops, <2>Text
<1>12. CASE DrainSessions(k)
  <2>Kinds. TypeOK'
    <3>0. FlagsOK'
      BY <1>12 DEF DrainSessions, Moves, Drained, TypeOK, FlagsOK
    <3>1. PlacesOK'
      BY <1>12, CallAssumption DEF DrainSessions, Moves, Drained, TypeOK, StartPC,
         RunnerPC, CallPC, PlacesOK, Caller, Course, Working, Polled, Calls
    <3>2. ControlOK'
      BY <1>12 DEF DrainSessions, Moves, Drained, TypeOK, ControlOK
    <3>3. TextOK'
      BY <1>12 DEF DrainSessions, Moves, Drained, TypeOK, TextOK
    <3> QED
      BY <3>0, <3>1, <3>2, <3>3 DEF TypeOK, FlagsOK, PlacesOK, ControlOK, TextOK
  <2>Asks. Asked \subseteq Asked' /\ (One' => One)
    BY <1>12, CallAssumption DEF DrainSessions, Moves, Drained, Asked, One, TypeOK, Caller
  <2>Told. (Told => Told') /\ (Ended => Ended')
    BY <1>12 DEF DrainSessions, Moves, Drained, TypeOK, Course, Working, Told, Ended, Polled
  <2>Course. Course'
    BY <1>12 DEF DrainSessions, Moves, Drained, TypeOK, Course, Working, Polled
  <2>Registered. Registered'
    <3>1. provisional' => start' \in {"registered", "withdraw"}
      BY <1>12 DEF DrainSessions, Moves, Drained, TypeOK, Registered
    <3>2. holds' \subseteq Close /\ \A j \in holds' : call'[j] \in {"drain", "send"}
      BY <1>12, CallAssumption DEF DrainSessions, Moves, Drained, TypeOK, Registered,
         Caller, Calls
    <3>3. Unfinished' => session' \/ provisional' \/ holds' # {} \/ start' = "spawned" \/ Told'
      BY <1>12, <2>Told, Channel, CallAssumption DEF DrainSessions, Moves, Drained, TypeOK,
         Registered, Course, Caller, Calls, Unfinished, Told, Ended
    <3> QED
      BY <3>1, <3>2, <3>3 DEF Registered
  <2>Calls. Calls'
    BY <1>12, CallAssumption, <2>Told DEF DrainSessions, Moves, Drained, TypeOK, Calls,
       Registered, Course, Permit, Caller
  <2>Stops. Stops'
    BY <1>12, CallAssumption DEF DrainSessions, Moves, Drained, TypeOK, Stops, Asked, One,
       Course, Working, Polled, Caller
  <2>Text. Ordered' /\ Upto' /\ Kept'
    BY <1>12, <2>Asks DEF DrainSessions, Moves, Drained, TypeOK, Course, Working, Upto,
       Kept, Stops, Polled
  <2> QED
    BY <2>Kinds, <2>Course, <2>Registered, <2>Calls, <2>Stops, <2>Text
<1>13. CASE DrainProvisional(k)
  <2>Kinds. TypeOK'
    <3>0. FlagsOK'
      BY <1>13 DEF DrainProvisional, Moves, Drained, TypeOK, FlagsOK
    <3>1. PlacesOK'
      BY <1>13, CallAssumption DEF DrainProvisional, Moves, Drained, TypeOK, StartPC,
         RunnerPC, CallPC, PlacesOK, Caller, Course, Working, Polled, Calls
    <3>2. ControlOK'
      BY <1>13 DEF DrainProvisional, Moves, Drained, TypeOK, ControlOK
    <3>3. TextOK'
      BY <1>13 DEF DrainProvisional, Moves, Drained, TypeOK, TextOK
    <3> QED
      BY <3>0, <3>1, <3>2, <3>3 DEF TypeOK, FlagsOK, PlacesOK, ControlOK, TextOK
  <2>Asks. Asked \subseteq Asked' /\ (One' => One)
    BY <1>13, CallAssumption DEF DrainProvisional, Moves, Drained, Asked, One, TypeOK,
       Caller
  <2>Told. (Told => Told') /\ (Ended => Ended')
    BY <1>13 DEF DrainProvisional, Moves, Drained, TypeOK, Course, Working, Told, Ended,
       Polled
  <2>Course. Course'
    BY <1>13 DEF DrainProvisional, Moves, Drained, TypeOK, Course, Working, Polled
  <2>Registered. Registered'
    <3>1. provisional' => start' \in {"registered", "withdraw"}
      BY <1>13 DEF DrainProvisional, Moves, Drained, TypeOK, Registered
    <3>2. holds' \subseteq Close /\ \A j \in holds' : call'[j] \in {"drain", "send"}
      BY <1>13, CallAssumption DEF DrainProvisional, Moves, Drained, TypeOK, Registered,
         Caller, Calls
    <3>3. Unfinished' => session' \/ provisional' \/ holds' # {} \/ start' = "spawned" \/ Told'
      BY <1>13, <2>Told, Channel, CallAssumption DEF DrainProvisional, Moves, Drained,
         TypeOK, Registered, Course, Caller, Calls, Unfinished, Told, Ended
    <3> QED
      BY <3>1, <3>2, <3>3 DEF Registered
  <2>Calls. Calls'
    BY <1>13, CallAssumption, <2>Told DEF DrainProvisional, Moves, Drained, TypeOK, Calls,
       Registered, Course, Permit, Caller
  <2>Stops. Stops'
    BY <1>13, CallAssumption DEF DrainProvisional, Moves, Drained, TypeOK, Stops, Asked,
       One, Course, Working, Polled, Caller
  <2>Text. Ordered' /\ Upto' /\ Kept'
    BY <1>13, <2>Asks DEF DrainProvisional, Moves, Drained, TypeOK, Course, Working, Upto,
       Kept, Stops, Polled
  <2> QED
    BY <2>Kinds, <2>Course, <2>Registered, <2>Calls, <2>Stops, <2>Text
<1>14. CASE CloseSends(k)
  <2>Kinds. TypeOK'
    <3>0. FlagsOK'
      BY <1>14 DEF CloseSends, Moves, TypeOK, FlagsOK
    <3>1. PlacesOK'
      BY <1>14, CallAssumption DEF CloseSends, Moves, TypeOK, StartPC, RunnerPC, CallPC,
         PlacesOK, Caller, Course, Working, Polled
    <3>2. ControlOK'
      BY <1>14, Channel DEF CloseSends, Moves, TypeOK, ControlOK
    <3>3. TextOK'
      BY <1>14 DEF CloseSends, Moves, TypeOK, TextOK
    <3> QED
      BY <3>0, <3>1, <3>2, <3>3 DEF TypeOK, FlagsOK, PlacesOK, ControlOK, TextOK
  <2>Asks. Asked \subseteq Asked' /\ (One' => One)
    BY <1>14, CallAssumption DEF CloseSends, Moves, Asked, One, TypeOK, Caller
  <2>Told. (Told => Told') /\ (Ended => Ended')
    BY <1>14, Channel DEF CloseSends, Moves, TypeOK, Course, Working, Told, Ended, Polled
  <2>Course. Course'
    BY <1>14, Channel DEF CloseSends, Moves, TypeOK, Course, Working, Polled
  <2>Registered. Registered'
    <3>1. provisional' => start' \in {"registered", "withdraw"}
      BY <1>14 DEF CloseSends, Moves, TypeOK, Registered
    <3>2. holds' \subseteq Close /\ \A j \in holds' : call'[j] \in {"drain", "send"}
      BY <1>14, CallAssumption DEF CloseSends, Moves, TypeOK, Registered, Caller, Calls
    <3>3. Unfinished' => session' \/ provisional' \/ holds' # {} \/ start' = "spawned" \/ Told'
      BY <1>14, <2>Told, Channel, CallAssumption DEF CloseSends, Moves, TypeOK, Registered,
         Course, Caller, Calls, Unfinished, Told, Ended
    <3> QED
      BY <3>1, <3>2, <3>3 DEF Registered
  <2>Calls. Calls'
    BY <1>14, Channel, CallAssumption, <2>Told DEF CloseSends, Moves, TypeOK, Calls,
       Registered, Course, Permit, Caller
  <2>Stops. Stops'
    BY <1>14, Channel, CallAssumption DEF CloseSends, Moves, TypeOK, Stops, Asked, One,
       Course, Working, Polled, Caller
  <2>Text. Ordered' /\ Upto' /\ Kept'
    BY <1>14, Channel, <2>Asks DEF CloseSends, Moves, TypeOK, Course, Working, Upto, Kept,
       Stops, Polled
  <2> QED
    BY <2>Kinds, <2>Course, <2>Registered, <2>Calls, <2>Stops, <2>Text
<1>15. CASE GateWaits(k)
  <2>Kinds. TypeOK'
    <3>0. FlagsOK'
      BY <1>15 DEF GateWaits, Moves, TypeOK, FlagsOK
    <3>1. PlacesOK'
      BY <1>15, CallAssumption DEF GateWaits, Moves, TypeOK, StartPC, RunnerPC, CallPC,
         PlacesOK, Caller, Course, Working, Polled
    <3>2. ControlOK'
      BY <1>15 DEF GateWaits, Moves, TypeOK, ControlOK
    <3>3. TextOK'
      BY <1>15 DEF GateWaits, Moves, TypeOK, TextOK
    <3> QED
      BY <3>0, <3>1, <3>2, <3>3 DEF TypeOK, FlagsOK, PlacesOK, ControlOK, TextOK
  <2>Asks. Asked \subseteq Asked' /\ (One' => One)
    BY <1>15, CallAssumption DEF GateWaits, Moves, Asked, One, TypeOK, Caller
  <2>Told. (Told => Told') /\ (Ended => Ended')
    BY <1>15 DEF GateWaits, Moves, TypeOK, Course, Working, Told, Ended, Polled
  <2>Course. Course'
    BY <1>15 DEF GateWaits, Moves, TypeOK, Course, Working, Polled
  <2>Registered. Registered'
    BY <1>15, CallAssumption, <2>Told DEF GateWaits, Moves, TypeOK, Course, Registered,
       Unfinished, Caller
  <2>Calls. Calls'
    BY <1>15, CallAssumption, <2>Told DEF GateWaits, Moves, TypeOK, Calls, Registered,
       Course, Permit, Caller
  <2>Stops. Stops'
    BY <1>15, CallAssumption DEF GateWaits, Moves, TypeOK, Stops, Asked, One, Course,
       Working, Polled, Caller
  <2>Text. Ordered' /\ Upto' /\ Kept'
    BY <1>15, <2>Asks DEF GateWaits, Moves, TypeOK, Course, Working, Upto, Kept, Stops,
       Polled
  <2> QED
    BY <2>Kinds, <2>Course, <2>Registered, <2>Calls, <2>Stops, <2>Text
<1> QED
  BY <1>1, <1>2, <1>3, <1>4, <1>5, <1>6, <1>7, <1>8, <1>9, <1>10, <1>11, <1>12, <1>13,
     <1>14, <1>15

\* The text of a transcription is taken.
LEMMA TextTaken ==
    ASSUME IInv, runner = "waiting", TakeText
    PROVE  /\ partials' \in Seq(1 .. audio) /\ quiet' \subseteq 1 .. audio
           /\ Ordered' /\ Heard' = Heard \union (First .. Last)
           /\ mode = "segment" => \A n \in Text' : n <= cursor
<1> USE Same, AudioAssumption DEF IInv
<1>1. /\ First \in Nat \ {0} /\ Last \in Nat /\ First <= Last + 1 /\ First .. Last \subseteq 1 .. audio
      /\ \A n \in Text : n < First
      /\ mode = "segment" => Last = cursor
  <2>0. runner = "waiting" /\ mode \in {"segment", "tail", "whole"}
        /\ from \in 0 .. cursor /\ cursor \in 0 .. audio /\ audio \in Nat /\ Text \subseteq Nat
    BY Recorded DEF TypeOK, Course, Working
  <2>1. CASE mode = "segment"
    BY <2>0, <2>1 DEF First, Last, Course, Working, Upto
  <2>2. CASE mode = "tail"
    BY <2>0, <2>2 DEF First, Last, Upto, Working
  <2>3. CASE mode = "whole"
    <3>1. Text = {}
      BY <2>0, <2>3, EmptySeq DEF Upto, Working, Text, Said
    <3>2. QED
      BY <2>0, <2>3, <3>1 DEF First, Last
  <2>4. QED
    BY <2>0, <2>1, <2>2, <2>3
<1>2. partials \in Seq(1 .. audio) /\ quiet \subseteq 1 .. audio /\ audio \in Nat /\ cursor \in Nat
  BY DEF TypeOK
<1>3. CASE /\ partials' = partials \o [i \in 1 .. Last + 1 - First |-> First + i - 1]
           /\ UNCHANGED quiet
  <2>1. /\ partials' \in Seq(1 .. audio)
        /\ Text' = Text \union (First .. Last)
        /\ \A i \in 1 .. Len(partials') :
              partials'[i] = IF i <= Len(partials) THEN partials[i] ELSE First + i - Len(partials) - 1
        /\ Len(partials') = Len(partials) + (Last + 1 - First) /\ Len(partials) \in Nat
    <3> DEFINE e == [i \in 1 .. Last + 1 - First |-> First + i - 1]
    <3>1. partials' = partials \o e
      BY <1>3
    <3>2. e \in Seq(1 .. audio) /\ Counts(e, First, Last)
      <4>1. e \in [1 .. Last + 1 - First -> 1 .. audio] /\ Last + 1 - First \in Nat
        BY <1>1, <1>2
      <4>2. e \in Seq(1 .. audio)
        BY <4>1, Listed
      <4>3. QED
        BY <4>1, <4>2, LenProperties DEF Counts
    <3> HIDE DEF e
    <3>3. Text' = Said(partials') /\ Text = Said(partials)
      BY DEF Text, Said
    <3>4. /\ partials \o e \in Seq(1 .. audio)
          /\ Said(partials \o e) = Said(partials) \union (First .. Last)
          /\ \A i \in 1 .. Len(partials \o e) :
                (partials \o e)[i]
                    = IF i <= Len(partials) THEN partials[i] ELSE First + i - Len(partials) - 1
          /\ Len(partials \o e) = Len(partials) + (Last + 1 - First) /\ Len(partials) \in Nat
      <4>1. partials \in Seq(1 .. audio) /\ First \in Nat /\ Last \in Nat /\ First <= Last + 1
        BY <1>1, <1>2
      <4> HIDE Same, AudioAssumption DEF IInv
      <4>2. QED
        BY <4>1, <3>2, SaidAfter
    <3>5. QED
      BY <3>1, <3>3, <3>4
  <2>2. \A i \in 1 .. Len(partials) : partials[i] \in 1 .. audio /\ partials[i] < First
    BY <1>1, <1>2, ElementOfSeq DEF Text, Said
  <2>3. ASSUME NEW i \in 1 .. Len(partials'), NEW j \in 1 .. Len(partials'), i < j
        PROVE  partials'[i] < partials'[j]
    <3>1. CASE j <= Len(partials)
      <4>1. i \in 1 .. Len(partials) /\ j \in 1 .. Len(partials)
        BY <3>1, <2>3, <2>1, <1>1
      <4>2. QED
        BY <4>1, <3>1, <2>1, <2>3 DEF Ordered
    <3>2. CASE i <= Len(partials) /\ j > Len(partials)
      <4>1. i \in 1 .. Len(partials) /\ partials'[i] = partials[i]
            /\ partials'[j] = First + j - Len(partials) - 1
        BY <3>2, <2>3, <2>1, <1>1
      <4>2. QED
        BY <4>1, <3>2, <2>1, <2>2, <2>3, <1>1
    <3>3. CASE i > Len(partials) /\ j > Len(partials)
      BY <3>3, <2>1, <2>3, <1>1
    <3>4. QED
      BY <3>1, <3>2, <3>3, <2>1, <2>3, <1>1
  <2>4. Heard' = Heard \union (First .. Last)
    BY <2>1, <1>3 DEF Heard
  <2>5. mode = "segment" => \A n \in Text' : n <= cursor
    BY <1>1, <1>2, <2>1, Recorded
  <2>6. QED
    BY <1>2, <1>3, <2>1, <2>3, <2>4, <2>5 DEF Ordered
<1>4. CASE quiet' = quiet \union (First .. Last) /\ UNCHANGED partials
  <2>1. Text' = Text /\ (Ordered' <=> Ordered)
    BY <1>4 DEF Text, Said, Ordered
  <2>2. Heard' = Heard \union (First .. Last)
    BY <1>4, <2>1 DEF Heard
  <2>3. mode = "segment" => \A n \in Text' : n <= cursor
    BY <1>1, <1>2, <2>1, Recorded
  <2>4. QED
    BY <1>1, <1>2, <1>4, <2>1, <2>2, <2>3
<1>5. QED
  BY <1>3, <1>4 DEF TakeText

\* job.wait returns with text.
LEMMA TranscribedKeeps ==
    ASSUME IInv, Transcribed
    PROVE  IInv'
<1> USE Same DEF IInv, startVars, regVars, audioVars, textVars, jobVars
<1>1. /\ partials' \in Seq(1 .. audio) /\ quiet' \subseteq 1 .. audio
      /\ Ordered' /\ Heard \subseteq Heard'
      /\ Polled # "cancel" => First .. Last \subseteq Heard'
      /\ mode = "segment" => \A n \in Text' : n <= cursor
  <2>1. CASE Polled = "cancel"
    <3>1. Text' = Text /\ Heard' = Heard /\ (Ordered' <=> Ordered)
      BY <2>1 DEF Transcribed
    <3>2. mode = "segment" => \A n \in Text : n <= cursor
      BY Recorded DEF Transcribed, Upto, Working, TypeOK
    <3>3. QED
      BY <2>1, <3>1, <3>2 DEF Transcribed, TypeOK
  <2>2. CASE Polled # "cancel"
    BY <2>2, TextTaken DEF Transcribed
  <2>3. QED
    BY <2>1, <2>2
<1>2. TypeOK'
  <2>1. FlagsOK'
    BY DEF Transcribed, TypeOK, FlagsOK
  <2>2. PlacesOK'
    BY DEF Transcribed, TypeOK, PlacesOK, StartPC, RunnerPC, CallPC, Caller, Polled,
       Course, Working, Leaves
  <2>3. ControlOK'
    BY Channel DEF Transcribed, ControlOK
  <2>4. TextOK'
    <3>1. from' \in 0 .. cursor
      BY AudioAssumption DEF Transcribed, TakeText, TypeOK
    <3>2. QED
      BY <1>1, <3>1 DEF Transcribed, TypeOK, TextOK
  <2>5. QED
    BY <2>1, <2>2, <2>3, <2>4 DEF TypeOK, FlagsOK, PlacesOK, ControlOK, TextOK
<1>3. (Told => Told') /\ (Ended => Ended')
  BY Channel DEF Transcribed, TypeOK, Course, Working, Told, Ended, Polled
<1>4. Course'
  BY Channel DEF Transcribed, Leaves, TypeOK, Course, Working, Polled
<1>5. Registered'
  BY <1>3 DEF Transcribed, Leaves, TypeOK, Registered, Unfinished
<1>6. Calls'
  BY <1>3 DEF Transcribed, TypeOK, Calls, Permit
<1>7. Stops'
  BY Channel DEF Transcribed, Stops, Polled, Course, Working
<1>8. Upto'
  BY <1>1 DEF Transcribed, Leaves, Upto, Working, Course, TypeOK
<1>9. Kept'
  <2>0. /\ from \in Nat /\ cursor \in Nat /\ audio \in Nat /\ from <= cursor /\ cursor <= audio
        /\ mode \in {"segment", "tail", "whole"}
        /\ UNCHANGED <<mode, audio, cursor>>
    BY AudioAssumption DEF Transcribed, TypeOK, Course, Working
  <2>1. 1 .. cursor \subseteq Heard \union Unheard
    BY DEF Transcribed, Kept, Working
  <2>2. Polled # "cancel" /\ mode = "segment" => 1 .. cursor \subseteq Heard'
    BY <1>1, <2>0, <2>1 DEF First, Last, Unheard
  <2>3. Polled # "cancel" /\ mode = "tail" => 1 .. audio \subseteq Heard' \union Unheard'
    <3>1. ASSUME Polled # "cancel", mode = "tail"
          PROVE  cursor + 1 .. audio \subseteq Heard' /\ UNCHANGED from
      BY <1>1, <3>1 DEF First, Last, Transcribed, TakeText
    <3>2. 1 .. audio \subseteq (1 .. cursor) \union (cursor + 1 .. audio)
      BY <2>0
    <3>3. QED
      BY <1>1, <2>0, <2>1, <3>1, <3>2
  <2>4. Polled # "cancel" /\ mode = "whole" => 1 .. audio \subseteq Heard'
    BY <1>1, <2>0 DEF First, Last
  <2>5. runner' \in {"unborn", "loop", "ready"} => 1 .. cursor' \subseteq Heard'
    BY <2>0, <2>2 DEF Transcribed, Leaves, Polled
  <2>6. runner' \in {"exiting", "final"} \/ Working' => 1 .. cursor' \subseteq Heard' \union Unheard'
    <3>1. CASE Polled = "cancel"
      BY <1>1, <2>0, <2>1, <3>1 DEF Transcribed
    <3>2. CASE Polled # "cancel"
      BY <2>0, <2>2, <3>2 DEF Transcribed, Leaves, Working
    <3>3. QED
      BY <3>1, <3>2
  <2>7. runner' \in {"finish", "cleanup", "gone"} /\ exit' = "stop" /\ One'
            => 1 .. audio' \subseteq Heard' \union PassedOver'
    <3>1. runner' = "finish" => mode # "segment" /\ (exit' = "stop" => Polled # "cancel")
      BY DEF Transcribed, Leaves, Polled
    <3>2. mode' = "tail" => Unheard' \subseteq PassedOver'
      BY DEF PassedOver
    <3>3. QED
      BY <2>0, <2>3, <2>4, <3>1, <3>2 DEF Transcribed, Leaves
  <2>8. QED
    BY <2>5, <2>6, <2>7 DEF Kept
<1>10. QED
  BY <1>1, <1>2, <1>4, <1>5, <1>6, <1>7, <1>8, <1>9

\* The recorder writes a piece, the job ends: nobody moves.
LEMMA OthersKeep ==
    ASSUME IInv, Record \/ JobEnds
    PROVE  IInv'
<1> USE Same, AudioAssumption DEF IInv, startVars, regVars, audioVars, textVars, jobVars
<1>1. CASE Record
  <2>1. partials' \in Seq(1 .. audio') /\ quiet' \subseteq 1 .. audio' /\ audio' \in 0 .. MaxAudio
    <3>1. 1 .. audio \subseteq 1 .. audio' /\ audio' \in 0 .. MaxAudio
      BY <1>1 DEF Record, TypeOK
    <3>2. QED
      BY <1>1, <3>1, SeqMonotonic DEF Record, TypeOK
  <2>2. TypeOK'
    BY <1>1, <2>1 DEF Record, TypeOK
  <2>3. Course' /\ Registered' /\ Calls' /\ Stops'
    BY <1>1 DEF Record, Course, Working, Registered, Calls, Stops, Unfinished, Told, Ended,
       Permit
  <2>4. Ordered' /\ Upto' /\ Kept'
    BY <1>1 DEF Record, Course, Working, Upto, Kept, TypeOK
  <2>5. QED
    BY <2>2, <2>3, <2>4
<1>2. CASE JobEnds
  <2>1. TypeOK'
    BY <1>2 DEF JobEnds, TypeOK
  <2>2. Course' /\ Registered' /\ Calls' /\ Stops'
    BY <1>2 DEF JobEnds, Course, Working, Registered, Calls, Stops, Unfinished, Told,
       Ended, Permit
  <2>3. Ordered' /\ Upto' /\ Kept'
    BY <1>2 DEF JobEnds, Working, Upto, Kept
  <2>4. QED
    BY <2>1, <2>2, <2>3
<1>3. QED
  BY <1>1, <1>2

-----------------------------------------------------------------------------
(* The theorems                                                              *)

\* The inductive invariant.
THEOREM VoiceInvariant == Spec => []IInv
<1>1. Init => IInv
  <2>1. Init => TypeOK
    <3>1. <<>> \in Seq(1 .. 0)
      BY EmptySeq
    <3>2. Init => FlagsOK
      BY DEF Init, FlagsOK
    <3>3. Init => PlacesOK
      BY DEF Init, PlacesOK, StartPC, RunnerPC, CallPC
    <3>4. Init => ControlOK
      BY <3>1 DEF Init, ControlOK
    <3>5. Init => TextOK
      BY <3>1, AudioAssumption DEF Init, TextOK
    <3>6. QED
      BY <3>2, <3>3, <3>4, <3>5 DEF TypeOK, FlagsOK, PlacesOK, ControlOK, TextOK
  <2>2. Init => Course /\ Registered /\ Calls
    BY DEF Init, Course, Working, Registered, Unfinished, Calls, Caller, Permit
  <2>3. Init => Stops /\ Ordered /\ Upto /\ Kept
    BY DEF Init, Stops, Asked, Caller, Ordered, Upto, Working, Text, Said, Kept
  <2>4. QED
    BY <2>1, <2>2, <2>3 DEF IInv
<1>2. IInv /\ [Next]_vars => IInv'
  <2> SUFFICES ASSUME IInv, [Next]_vars
               PROVE  IInv'
    OBVIOUS
  <2>1. CASE Begin \/ Starts
    BY <2>1, StartKeeps DEF Starts
  <2>2. CASE Record \/ JobEnds
    BY <2>2, OthersKeep
  <2>3. CASE Runner
    BY <2>3, RunnerKeeps, TranscribedKeeps DEF Runner
  <2>4. CASE \E k \in Caller : Begins(k) \/ Proceeds(k)
    BY <2>4, CallKeeps DEF Begins, Proceeds
  <2>5. CASE UNCHANGED vars
    <3> USE Same DEF IInv, vars, startVars, regVars, audioVars, textVars, jobVars
    <3>1. TypeOK'
      BY <2>5 DEF TypeOK
    <3>2. Course' /\ Registered' /\ Calls' /\ Stops'
      BY <2>5 DEF Course, Working, Registered, Calls, Stops, Unfinished, Told, Ended, Permit
    <3>3. Ordered' /\ Upto' /\ Kept'
      BY <2>5 DEF Working, Upto, Kept
    <3>4. QED
      BY <3>1, <3>2, <3>3
  <2>6. QED
    BY <2>1, <2>2, <2>3, <2>4, <2>5 DEF Next
<1>3. QED
  BY <1>1, <1>2, PTL DEF Spec

\* No runner escapes shutdown: until it is done it is in a registry, held by
\* start or by a shutdown, or told to cancel, and a shutdown that has returned
\* leaves nothing registered and no start in flight.
THEOREM VoiceShutdownReachesAll == Spec => []ShutdownReachesAll
<1>1. IInv => ShutdownReachesAll
  BY DEF IInv, Registered, Calls, Permit, ShutdownReachesAll
<1>2. QED
  BY <1>1, VoiceInvariant, PTL

\* The transcript has the recording in its order, and of a session that a single
\* stop has ended nothing is missing but the segment the stop found about to be
\* transcribed, and a tail that is shorter than half a second or in a capture
\* that cannot be read when the recording is over.
THEOREM VoiceTranscriptFollows == Spec => []TranscriptFollowsAudio
<1>1. ASSUME IInv
      PROVE  TranscriptFollowsAudio
  <2>1. \A i, j \in 1 .. Len(partials) : i < j => partials[i] < partials[j]
    BY <1>1 DEF IInv, Ordered
  <2>2. OneStop => One
    <3>1. SUFFICES ASSUME Cardinality(Asked) = 1
                   PROVE  One
      BY DEF OneStop, Asked
    <3>2. IsFiniteSet(Asked)
      BY CallAssumption, FS_Subset DEF Asked
    <3>3. QED
      BY <3>1, <3>2, FS_Singleton DEF One
  <2>3. completion = "done" /\ One => 1 .. audio \subseteq Heard \union PassedOver
    BY <1>1 DEF IInv, Kept, Course, TypeOK
  <2>4. Missing = (1 .. audio) \ Heard
    BY DEF Missing, Heard, Text, Said
  <2>5. QED
    BY <2>1, <2>2, <2>3, <2>4 DEF TranscriptFollowsAudio
<1>2. QED
  BY <1>1, VoiceInvariant, PTL

=============================================================================
