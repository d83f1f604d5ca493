------------------------- MODULE RemoteLease_proofs -------------------------
(***************************************************************************)
(* Theorems about RemoteLease for any finite set of controls, any TTL and  *)
(* any payload.                                                            *)
(***************************************************************************)
EXTENDS RemoteLease, FiniteSetTheorems, TLAPS

\* TypeOK in parts: flags, files, locks, places, controls.
FlagsOK == dir \in BOOLEAN /\ fifo \in BOOLEAN /\ stopReq \in BOOLEAN /\ epoch \in BOOLEAN

FilesOK == /\ st \in State \union {None} /\ lockIno \in Nat
           /\ live \in {"none", "original", "fresh"}

LocksOK == ino \in [Process -> Nat] /\ held \in SUBSET Process

PlacesOK ==
    /\ client \in {"new", "prepared", "launched", "beating", "stopped", "finished", "gone"}
    /\ boot \in {"none", "ready", "delivered", "gone"}
    /\ sup \in SupPC /\ dog \in DogPC
    /\ leader \in {"none", "alive", "zombie", "reaped"}
    /\ kid \in {"none", "alive", "dead"}
    /\ polled \in SUBSET {"sup", "dog"}

CtlOK ==
    /\ ctl \in [Control -> [pc : {"idle", "sent", "opened", "writing", "done", "lost"},
                            act : {"beat", "stop"}, view : State \union {None}]]
    /\ \A k \in Control : ctl[k].pc = "writing" => ctl[k].view \in State

\* Nobody has begun to clean up: which is so as long as the payload lives.
Young == {"none", "loading", "reading", "delivered", "starting"}
Up == {"starting", "forked", "recorded", "loop", "terminating", "grace"}
Watches == {"polling", "marking", "terminating", "grace"}

Intact ==
    \/ leader = "alive"
    \/ sup \in Young \union Up /\ dog \in Watches \union {"none", "starting"}

\* The order in which the three come and go.
Course ==
    /\ client \in {"new", "prepared"} => sup = "none"
    /\ leader = "alive" => /\ sup \in (Up \ {"starting"}) \union {"crashed"}
                           /\ dog \in Watches \union {"none", "starting", "exited"}
    /\ sup \in Young => leader = "none"
    /\ sup \in Up \ {"starting"} => leader # "none"
    /\ sup \in Young \union {"forked", "recorded"} => dog = "none"
    /\ sup \in Young \ {"starting"} => st = None

\* Who holds a lock is known from where it is.
Holding ==
    /\ "sup" \in held <=> sup = "forked"
    /\ "dog" \in held <=> dog = "marking"
    /\ \A k \in Control : k \in held <=> ctl[k].pc = "writing"

\* There is one state.lock, and so one holder.
OneLock ==
    Intact => /\ \A p \in Process : ino[p] \in {0, lockIno}
              /\ sup \in Up => ino["sup"] = lockIno /\ lockIno # 0
              /\ dog \in Watches => ino["dog"] = lockIno /\ lockIno # 0
              /\ \A k \in Control : ctl[k].pc \in {"opened", "writing"} =>
                     ino[k] = lockIno /\ lockIno # 0
              /\ \A p, q \in held : p = q

\* The files are there.
Kept ==
    /\ Intact /\ (sup \in Up \/ leader = "alive") => st # None /\ lockIno # 0
    /\ Intact /\ (sup \in Up \union {"reading", "delivered"} \/ leader = "alive")
           => dir /\ live = "original"

\* What a control is about to write comes from the state that is there.
Fresh ==
    \A k \in Control : Intact /\ ctl[k].pc = "writing" =>
        /\ st # None /\ Accepted(ctl[k].act) /\ ctl[k].view.payload = st.payload
        /\ ctl[k].view.state = IF ctl[k].act = "beat" THEN "running" ELSE "stopping"
        /\ leader = "alive" => st.payload

\* A payload that lives is on record, or is about to be, or never will be.
Recorded ==
    /\ sup = "forked" => st # None /\ st.state = "starting"
    /\ leader = "alive" => \/ st # None /\ st.payload
                           \/ st # None /\ st.state = "starting" /\ sup \in {"forked", "crashed"}

Marked == Intact /\ dog = "marking" => st # None /\ st.state = "running" /\ st.left = 0

\* A monitor that has polled since the last tick has found time left, in the
\* state and in whatever will replace it.
TimeLeft ==
    /\ st # None /\ st.left > 0
    /\ \A k \in Control : ctl[k].pc = "writing" => ctl[k].view.left > 0

Polled ==
    /\ "sup" \in polled => sup \notin Young \union {"forked", "recorded"}
    /\ "dog" \in polled => dog \notin {"none", "starting"}
    /\ leader = "alive" /\ sup = "loop" /\ "sup" \in polled => TimeLeft
    /\ leader = "alive" /\ dog = "polling" /\ "dog" \in polled => TimeLeft

IInv == /\ FlagsOK /\ FilesOK /\ LocksOK /\ PlacesOK /\ CtlOK
        /\ Course /\ Holding /\ OneLock /\ Kept /\ Fresh /\ Recorded /\ Marked /\ Polled

-----------------------------------------------------------------------------
(* Frames                                                                    *)

\* A part that mentions only what a step leaves alone is kept.
LEMMA Frame ==
    /\ UNCHANGED <<dir, fifo, stopReq, epoch>> /\ FlagsOK => FlagsOK'
    /\ UNCHANGED <<st, lockIno, live>> /\ FilesOK => FilesOK'
    /\ UNCHANGED <<ino, held>> /\ LocksOK => LocksOK'
    /\ UNCHANGED <<client, boot, sup, dog, leader, kid, polled>> /\ PlacesOK => PlacesOK'
    /\ UNCHANGED <<ctl>> /\ CtlOK => CtlOK'
    /\ UNCHANGED <<client, leader, sup, dog, st>> /\ Course => Course'
    /\ UNCHANGED <<held, sup, dog, ctl>> /\ Holding => Holding'
    /\ UNCHANGED <<leader, sup, dog, ino, lockIno, ctl, held>> /\ OneLock => OneLock'
    /\ UNCHANGED <<leader, sup, dog, st, lockIno, dir, live>> /\ Kept => Kept'
    /\ UNCHANGED <<leader, sup, dog, ctl, st>> /\ Fresh => Fresh'
    /\ UNCHANGED <<leader, sup, st>> /\ Recorded => Recorded'
    /\ UNCHANGED <<leader, sup, dog, st>> /\ Marked => Marked'
    /\ UNCHANGED <<polled, leader, sup, dog, st, ctl>> /\ Polled => Polled'
BY DEF FlagsOK, FilesOK, LocksOK, PlacesOK, CtlOK, Course, Holding, OneLock, Kept, Fresh,
   Accepted, Recorded, Marked, Polled, TimeLeft, Intact

-----------------------------------------------------------------------------
(* The lock                                                                  *)

\* OpenLock finds an inode number that is not 0.
LEMMA FreshInode ==
    ASSUME LocksOK, FilesOK
    PROVE  FreshIno \in Nat \ {0}
<1>1. IsFiniteSet(Process) /\ Cardinality(Process) \in Nat
  <2>1. IsFiniteSet({"sup"}) /\ IsFiniteSet({"dog"})
    BY FS_Singleton
  <2>2. IsFiniteSet({"sup"} \union {"dog"})
    BY <2>1, FS_Union
  <2>3. {"sup", "dog"} = {"sup"} \union {"dog"}
    OBVIOUS
  <2>4. IsFiniteSet(Process)
    BY <2>2, <2>3, FS_Union, ControlAssumption DEF Process
  <2>5. QED
    BY <2>4, FS_CardinalityType
<1> DEFINE open == {ino[p] : p \in Process}
           used == open \union {lockIno}
           n == Cardinality(Process)
<1>2. IsFiniteSet(used) /\ Cardinality(used) \in Nat /\ Cardinality(used) <= n + 1
  <2>1. ino \in Surjection(Process, open)
    BY DEF LocksOK, Surjection
  <2>2. IsFiniteSet(open) /\ Cardinality(open) <= n
    BY <1>1, <2>1, FS_Surjection
  <2>3. /\ IsFiniteSet(used)
        /\ Cardinality(used) = IF lockIno \in open THEN Cardinality(open)
                               ELSE Cardinality(open) + 1
    BY <2>2, FS_AddElement
  <2>4. Cardinality(open) \in Nat
    BY <2>2, FS_CardinalityType
  <2>5. QED
    BY <1>1, <2>2, <2>3, <2>4
<1>3. IsFiniteSet(1 .. n + 2) /\ Cardinality(1 .. n + 2) = n + 2
  BY <1>1, FS_Interval
<1>4. \E m \in 1 .. n + 2 : m \notin used
  <2> SUFFICES ASSUME 1 .. n + 2 \subseteq used
               PROVE  FALSE
    OBVIOUS
  <2> HIDE DEF used, n
  <2>1. Cardinality(1 .. n + 2) <= Cardinality(used)
    BY <1>2, FS_Subset
  <2>2. n \in Nat
    BY <1>1 DEF n
  <2>3. QED
    BY <2>1, <2>2, <1>2, <1>3
<1>5. \E m \in 1 .. n + 2 : m # lockIno /\ \A p \in Process : ino[p] # m
  BY <1>4
<1>6. FreshIno \in 1 .. n + 2
  BY <1>5 DEF FreshIno
<1>7. QED
  BY <1>1, <1>6

\* Whoever opens the lock has the one that is there.
LEMMA Opened ==
    ASSUME LocksOK, FilesOK, NEW p \in Process, OpenLock(p)
    PROVE  /\ lockIno' \in Nat \ {0} /\ ino' \in [Process -> Nat] /\ ino'[p] = lockIno'
           /\ \A q \in Process \ {p} : ino'[q] = ino[q]
           /\ lockIno # 0 => lockIno' = lockIno
BY FreshInode DEF OpenLock, LocksOK, FilesOK

\* Who can lock an inode that everybody has open finds it free.
LEMMA Free ==
    ASSUME LocksOK, FilesOK, CtlOK, Holding, OneLock, Intact, NEW p \in Process, CanLock(p),
           \/ p = "sup" /\ sup \in Up
           \/ p = "dog" /\ dog \in Watches
           \/ p \in Control /\ ctl[p].pc = "opened"
    PROVE  held = {}
<1>1. ino[p] = lockIno
  BY DEF OneLock
<1>2. \A q \in held : ino[q] = lockIno
  BY DEF Holding, OneLock, LocksOK, Process, Up, Watches
<1>3. QED
  BY <1>1, <1>2 DEF CanLock

\* What a tick leaves of a state.
LEMMA Ages ==
    ASSUME NEW s \in State \union {None}
    PROVE  /\ Aged(s) \in State \union {None}
           /\ Aged(s) = None <=> s = None
           /\ s # None => /\ Aged(s) \in State
                          /\ Aged(s).state = s.state /\ Aged(s).payload = s.payload
                          /\ Aged(s).left = IF s.left = 0 THEN 0 ELSE s.left - 1
BY NoneAssumption, TTLAssumption DEF Aged, State

-----------------------------------------------------------------------------
(* The steps                                                                 *)

\* The desktop, on its own.
LEMMA HandleKeeps ==
    ASSUME IInv,
           \/ Prepare \/ Launch \/ StartHeartbeat \/ FinishNatural
           \/ ClientCrash
    PROVE  IInv'
<1> USE DEF IInv
<1>1. CASE Prepare
  <2>1. /\ FilesOK' /\ LocksOK' /\ CtlOK' /\ Holding' /\ OneLock'
        /\ Fresh' /\ Recorded' /\ Marked' /\ Polled'
    BY <1>1, Frame DEF Prepare, lockVars, groupVars, timeVars
  <2>2. FlagsOK'
    BY <1>1 DEF Prepare, lockVars, groupVars, timeVars, FlagsOK
  <2>3. PlacesOK'
    BY <1>1 DEF Prepare, lockVars, groupVars, timeVars, PlacesOK, SupPC, DogPC
  <2>4. Course'
    BY <1>1 DEF Prepare, lockVars, groupVars, timeVars, Course, PlacesOK, SupPC, DogPC,
       Young, Up, Watches
  <2>5. Kept'
    BY <1>1 DEF Prepare, lockVars, groupVars, timeVars, Kept, Course, OneLock, FilesOK,
       FlagsOK, CtlOK, Intact, Young, Up, Watches
  <2>6. QED
    BY <2>1, <2>2, <2>3, <2>4, <2>5
<1>2. CASE Launch
  <2>1. FlagsOK' /\ FilesOK' /\ LocksOK' /\ CtlOK'
    BY <1>2, Frame DEF Launch, fileVars, lockVars, groupVars, timeVars
  <2>2. PlacesOK'
    BY <1>2 DEF Launch, fileVars, lockVars, groupVars, timeVars, PlacesOK, SupPC, DogPC
  <2>3. Course'
    BY <1>2 DEF Launch, fileVars, lockVars, groupVars, timeVars, Course, PlacesOK, SupPC,
       DogPC, Young, Up, Watches
  <2>4. Holding'
    BY <1>2, ControlAssumption DEF Launch, fileVars, lockVars, groupVars, timeVars,
       Holding, CtlOK, LocksOK, Process, Course
  <2>5. OneLock'
    BY <1>2, ControlAssumption DEF Launch, fileVars, lockVars, groupVars, timeVars,
       OneLock, Course, Holding, LocksOK, CtlOK, Process, Intact, Young, Up, Watches
  <2>6. Kept'
    BY <1>2 DEF Launch, fileVars, lockVars, groupVars, timeVars, Kept, Course, OneLock,
       FilesOK, FlagsOK, CtlOK, Intact, Young, Up, Watches
  <2>7. Fresh'
    BY <1>2 DEF Launch, fileVars, lockVars, groupVars, timeVars, Fresh, Accepted, Course,
       Holding, FilesOK, CtlOK, Intact, Young, Up, Watches
  <2>8. Recorded'
    BY <1>2 DEF Launch, fileVars, lockVars, groupVars, timeVars, Recorded, Course, FilesOK,
       Young, Up
  <2>9. Marked'
    BY <1>2 DEF Launch, fileVars, lockVars, groupVars, timeVars, Marked, Course, FilesOK,
       Intact, Young, Up, Watches
  <2>10. Polled'
    BY <1>2 DEF Launch, fileVars, lockVars, groupVars, timeVars, Polled, TimeLeft, Course,
       FilesOK, CtlOK, Young, Up
  <2>11. QED
    BY <2>1, <2>2, <2>3, <2>4, <2>5, <2>6, <2>7, <2>8, <2>9, <2>10
<1>3. CASE StartHeartbeat
  <2>1. /\ FlagsOK' /\ FilesOK' /\ LocksOK' /\ CtlOK' /\ Holding'
        /\ OneLock' /\ Kept' /\ Fresh' /\ Recorded' /\ Marked' /\ Polled'
    BY <1>3, Frame DEF StartHeartbeat, clientOnly, fileVars, lockVars, groupVars, timeVars
  <2>2. PlacesOK'
    BY <1>3 DEF StartHeartbeat, clientOnly, fileVars, lockVars, groupVars, timeVars,
       PlacesOK, SupPC, DogPC
  <2>3. Course'
    BY <1>3 DEF StartHeartbeat, clientOnly, fileVars, lockVars, groupVars, timeVars,
       Course, PlacesOK, SupPC, DogPC, Young, Up, Watches
  <2>4. QED
    BY <2>1, <2>2, <2>3
<1>4. CASE FinishNatural
  <2>1. /\ FlagsOK' /\ FilesOK' /\ LocksOK' /\ CtlOK' /\ Holding'
        /\ OneLock' /\ Kept' /\ Fresh' /\ Recorded' /\ Marked' /\ Polled'
    BY <1>4, Frame DEF FinishNatural, clientOnly, fileVars, lockVars, groupVars, timeVars
  <2>2. PlacesOK'
    BY <1>4 DEF FinishNatural, clientOnly, fileVars, lockVars, groupVars, timeVars,
       PlacesOK, SupPC, DogPC
  <2>3. Course'
    BY <1>4 DEF FinishNatural, clientOnly, fileVars, lockVars, groupVars, timeVars, Course,
       PlacesOK, SupPC, DogPC, Young, Up, Watches
  <2>4. QED
    BY <2>1, <2>2, <2>3
<1>5. CASE ClientCrash
  <2>1. /\ FlagsOK' /\ FilesOK' /\ LocksOK' /\ CtlOK' /\ Holding'
        /\ OneLock' /\ Kept' /\ Fresh' /\ Recorded' /\ Marked' /\ Polled'
    BY <1>5, Frame DEF ClientCrash, clientOnly, fileVars, lockVars, groupVars, timeVars
  <2>2. PlacesOK'
    BY <1>5 DEF ClientCrash, clientOnly, fileVars, lockVars, groupVars, timeVars, PlacesOK,
       SupPC, DogPC
  <2>3. Course'
    BY <1>5 DEF ClientCrash, clientOnly, fileVars, lockVars, groupVars, timeVars, Course,
       PlacesOK, SupPC, DogPC, Young, Up, Watches
  <2>4. QED
    BY <2>1, <2>2, <2>3
<1>6. QED
  BY <1>1, <1>2, <1>3, <1>4, <1>5

\* The desktop sends a control.
LEMMA SendsKeep ==
    ASSUME IInv, NEW k \in Control,
           \/ PrepareTimesOut(k) \/ SendBeat(k) \/ Stop(k)
    PROVE  IInv'
<1> USE DEF IInv
<1>1. CASE PrepareTimesOut(k)
  <2>1. k \in Process /\ k \notin {"sup", "dog"}
    BY ControlAssumption DEF Process
  <2>2. FilesOK' /\ LocksOK' /\ Recorded' /\ Marked'
    BY <1>1, Frame DEF PrepareTimesOut, Send, lockVars, groupVars, timeVars
  <2>3. FlagsOK'
    BY <1>1, <2>1 DEF PrepareTimesOut, Send, lockVars, groupVars, timeVars, FlagsOK
  <2>4. PlacesOK'
    BY <1>1, <2>1 DEF PrepareTimesOut, Send, lockVars, groupVars, timeVars, PlacesOK,
       SupPC, DogPC
  <2>5. CtlOK'
    BY <1>1, <2>1 DEF PrepareTimesOut, Send, lockVars, groupVars, timeVars, CtlOK, FilesOK,
       State
  <2>6. Course'
    BY <1>1, <2>1 DEF PrepareTimesOut, Send, lockVars, groupVars, timeVars, Course,
       PlacesOK, SupPC, DogPC, Young, Up, Watches
  <2>7. Holding'
    BY <1>1, <2>1, ControlAssumption DEF PrepareTimesOut, Send, lockVars, groupVars,
       timeVars, Holding, CtlOK, LocksOK, Process
  <2>8. OneLock'
    BY <1>1, <2>1, ControlAssumption DEF PrepareTimesOut, Send, lockVars, groupVars,
       timeVars, OneLock, Course, Holding, LocksOK, CtlOK, Process, Intact, Young, Up,
       Watches
  <2>9. Kept'
    BY <1>1, <2>1 DEF PrepareTimesOut, Send, lockVars, groupVars, timeVars, Kept, Course,
       OneLock, FilesOK, FlagsOK, CtlOK, Intact, Young, Up, Watches
  <2>10. Fresh'
    BY <1>1, <2>1 DEF PrepareTimesOut, Send, lockVars, groupVars, timeVars, Fresh,
       Accepted, Course, Holding, FilesOK, CtlOK, Intact, Young, Up, Watches
  <2>11. Polled'
    BY <1>1, <2>1 DEF PrepareTimesOut, Send, lockVars, groupVars, timeVars, Polled,
       TimeLeft, Course, FilesOK, CtlOK, Young, Up
  <2>12. QED
    BY <2>2, <2>3, <2>4, <2>5, <2>6, <2>7, <2>8, <2>9, <2>10, <2>11
<1>2. CASE SendBeat(k)
  <2>1. k \in Process /\ k \notin {"sup", "dog"}
    BY ControlAssumption DEF Process
  <2>2. /\ FlagsOK' /\ FilesOK' /\ LocksOK' /\ PlacesOK' /\ Course'
        /\ Kept' /\ Recorded' /\ Marked'
    BY <1>2, Frame DEF SendBeat, Send, clientOnly, fileVars, lockVars, groupVars, timeVars
  <2>3. CtlOK'
    BY <1>2, <2>1 DEF SendBeat, Send, clientOnly, fileVars, lockVars, groupVars, timeVars,
       CtlOK, FilesOK, State
  <2>4. Holding'
    BY <1>2, <2>1, ControlAssumption DEF SendBeat, Send, clientOnly, fileVars, lockVars,
       groupVars, timeVars, Holding, CtlOK, LocksOK, Process
  <2>5. OneLock'
    BY <1>2, <2>1, ControlAssumption DEF SendBeat, Send, clientOnly, fileVars, lockVars,
       groupVars, timeVars, OneLock, Course, Holding, LocksOK, CtlOK, Process, Intact,
       Young, Up, Watches
  <2>6. Fresh'
    BY <1>2, <2>1 DEF SendBeat, Send, clientOnly, fileVars, lockVars, groupVars, timeVars,
       Fresh, Accepted, Course, Holding, FilesOK, CtlOK, Intact, Young, Up, Watches
  <2>7. Polled'
    BY <1>2, <2>1 DEF SendBeat, Send, clientOnly, fileVars, lockVars, groupVars, timeVars,
       Polled, TimeLeft, Course, FilesOK, CtlOK, Young, Up
  <2>8. QED
    BY <2>2, <2>3, <2>4, <2>5, <2>6, <2>7
<1>3. CASE Stop(k)
  <2>1. k \in Process /\ k \notin {"sup", "dog"}
    BY ControlAssumption DEF Process
  <2>2. FlagsOK' /\ FilesOK' /\ LocksOK' /\ Kept' /\ Recorded' /\ Marked'
    BY <1>3, Frame DEF Stop, Send, clientOnly, fileVars, lockVars, groupVars, timeVars
  <2>3. PlacesOK'
    BY <1>3, <2>1 DEF Stop, Send, clientOnly, fileVars, lockVars, groupVars, timeVars,
       PlacesOK, SupPC, DogPC
  <2>4. CtlOK'
    BY <1>3, <2>1 DEF Stop, Send, clientOnly, fileVars, lockVars, groupVars, timeVars,
       CtlOK, FilesOK, State
  <2>5. Course'
    BY <1>3, <2>1 DEF Stop, Send, clientOnly, fileVars, lockVars, groupVars, timeVars,
       Course, PlacesOK, SupPC, DogPC, Young, Up, Watches
  <2>6. Holding'
    BY <1>3, <2>1, ControlAssumption DEF Stop, Send, clientOnly, fileVars, lockVars,
       groupVars, timeVars, Holding, CtlOK, LocksOK, Process
  <2>7. OneLock'
    BY <1>3, <2>1, ControlAssumption DEF Stop, Send, clientOnly, fileVars, lockVars,
       groupVars, timeVars, OneLock, Course, Holding, LocksOK, CtlOK, Process, Intact,
       Young, Up, Watches
  <2>8. Fresh'
    BY <1>3, <2>1 DEF Stop, Send, clientOnly, fileVars, lockVars, groupVars, timeVars,
       Fresh, Accepted, Course, Holding, FilesOK, CtlOK, Intact, Young, Up, Watches
  <2>9. Polled'
    BY <1>3, <2>1 DEF Stop, Send, clientOnly, fileVars, lockVars, groupVars, timeVars,
       Polled, TimeLeft, Course, FilesOK, CtlOK, Young, Up
  <2>10. QED
    BY <2>2, <2>3, <2>4, <2>5, <2>6, <2>7, <2>8, <2>9
<1>4. QED
  BY <1>1, <1>2, <1>3

\* The bootstrap helper.
LEMMA BootKeeps ==
    ASSUME IInv,
           \/ Deliver \/ BootGivesUp
    PROVE  IInv'
<1> USE DEF IInv
<1>1. CASE Deliver
  <2>1. FilesOK' /\ LocksOK' /\ CtlOK'
    BY <1>1, Frame DEF Deliver, lockVars, groupVars, timeVars
  <2>2. FlagsOK'
    BY <1>1 DEF Deliver, lockVars, groupVars, timeVars, FlagsOK
  <2>3. PlacesOK'
    BY <1>1 DEF Deliver, lockVars, groupVars, timeVars, PlacesOK, SupPC, DogPC
  <2>4. Course'
    BY <1>1 DEF Deliver, lockVars, groupVars, timeVars, Course, PlacesOK, SupPC, DogPC,
       Young, Up, Watches
  <2>5. Holding'
    BY <1>1, ControlAssumption DEF Deliver, lockVars, groupVars, timeVars, Holding, CtlOK,
       LocksOK, Process
  <2>6. OneLock'
    BY <1>1, ControlAssumption DEF Deliver, lockVars, groupVars, timeVars, OneLock, Course,
       Holding, LocksOK, CtlOK, Process, Intact, Young, Up, Watches
  <2>7. Kept'
    BY <1>1 DEF Deliver, lockVars, groupVars, timeVars, Kept, Course, OneLock, FilesOK,
       FlagsOK, CtlOK, Intact, Young, Up, Watches
  <2>8. Fresh'
    BY <1>1 DEF Deliver, lockVars, groupVars, timeVars, Fresh, Accepted, Course, Holding,
       FilesOK, CtlOK, Intact, Young, Up, Watches
  <2>9. Recorded'
    BY <1>1 DEF Deliver, lockVars, groupVars, timeVars, Recorded, Course, FilesOK, Young, Up
  <2>10. Marked'
    BY <1>1 DEF Deliver, lockVars, groupVars, timeVars, Marked, Course, FilesOK, Intact,
       Young, Up, Watches
  <2>11. Polled'
    BY <1>1 DEF Deliver, lockVars, groupVars, timeVars, Polled, TimeLeft, Course, FilesOK,
       CtlOK, Young, Up
  <2>12. QED
    BY <2>1, <2>2, <2>3, <2>4, <2>5, <2>6, <2>7, <2>8, <2>9, <2>10, <2>11
<1>2. CASE BootGivesUp
  <2>1. /\ FilesOK' /\ LocksOK' /\ CtlOK' /\ Course' /\ Holding'
        /\ OneLock' /\ Fresh' /\ Recorded' /\ Marked' /\ Polled'
    BY <1>2, Frame DEF BootGivesUp, Rmdir, lockVars, groupVars, timeVars
  <2>2. FlagsOK'
    BY <1>2 DEF BootGivesUp, Rmdir, lockVars, groupVars, timeVars, FlagsOK
  <2>3. PlacesOK'
    BY <1>2 DEF BootGivesUp, Rmdir, lockVars, groupVars, timeVars, PlacesOK, SupPC, DogPC
  <2>4. Kept'
    BY <1>2 DEF BootGivesUp, Rmdir, lockVars, groupVars, timeVars, Kept, Course, OneLock,
       FilesOK, FlagsOK, CtlOK, Intact, Young, Up, Watches
  <2>5. QED
    BY <2>1, <2>2, <2>3, <2>4
<1>3. QED
  BY <1>1, <1>2

\* A control.
LEMMA CtlKeeps ==
    ASSUME IInv, NEW k \in Control,
           \/ CtlLost(k) \/ CtlOpen(k) \/ CtlRead(k) \/ CtlWrite(k)
           \/ CtlEnd(k)
    PROVE  IInv'
<1> USE DEF IInv
<1>1. CASE CtlLost(k)
  <2>1. k \in Process /\ k \notin {"sup", "dog"}
    BY ControlAssumption DEF Process
  <2>2. /\ FlagsOK' /\ FilesOK' /\ LocksOK' /\ PlacesOK' /\ Course'
        /\ Kept' /\ Recorded' /\ Marked'
    BY <1>1, Frame DEF CtlLost, CtlGoto, ctlOnly, groupVars, timeVars, fileVars, lockVars
  <2>3. CtlOK'
    BY <1>1, <2>1 DEF CtlLost, CtlGoto, ctlOnly, groupVars, timeVars, fileVars, lockVars,
       CtlOK, FilesOK, State
  <2>4. Holding'
    BY <1>1, <2>1, ControlAssumption DEF CtlLost, CtlGoto, ctlOnly, groupVars, timeVars,
       fileVars, lockVars, Holding, CtlOK, LocksOK, Process
  <2>5. OneLock'
    BY <1>1, <2>1, ControlAssumption DEF CtlLost, CtlGoto, ctlOnly, groupVars, timeVars,
       fileVars, lockVars, OneLock, Course, Holding, LocksOK, CtlOK, Process, Intact,
       Young, Up, Watches
  <2>6. Fresh'
    BY <1>1, <2>1 DEF CtlLost, CtlGoto, ctlOnly, groupVars, timeVars, fileVars, lockVars,
       Fresh, Accepted, Course, Holding, FilesOK, CtlOK, Intact, Young, Up, Watches
  <2>7. Polled'
    BY <1>1, <2>1 DEF CtlLost, CtlGoto, ctlOnly, groupVars, timeVars, fileVars, lockVars,
       Polled, TimeLeft, Course, FilesOK, CtlOK, Young, Up
  <2>8. QED
    BY <2>2, <2>3, <2>4, <2>5, <2>6, <2>7
<1>2. CASE CtlOpen(k)
  <2>1. k \in Process /\ k \notin {"sup", "dog"}
    BY ControlAssumption DEF Process
  <2>2. dir => /\ lockIno' \in Nat \ {0} /\ ino' \in [Process -> Nat]
               /\ ino'[k] = lockIno' /\ \A q \in Process \ {k} : ino'[q] = ino[q]
               /\ lockIno # 0 => lockIno' = lockIno
    BY <1>2, <2>1, Opened DEF CtlOpen
  <2>3. ~dir => UNCHANGED <<lockIno, ino>>
    BY <1>2 DEF CtlOpen
  <2>4. FlagsOK' /\ PlacesOK' /\ Course' /\ Recorded' /\ Marked'
    BY <1>2, Frame DEF CtlOpen, CtlGoto, ctlOnly, groupVars, timeVars
  <2>5. FilesOK'
    BY <1>2, <2>1, <2>2, <2>3 DEF CtlOpen, CtlGoto, ctlOnly, groupVars, timeVars, FilesOK,
       State, CtlOK
  <2>6. LocksOK'
    BY <1>2, <2>1, <2>2, <2>3 DEF CtlOpen, CtlGoto, ctlOnly, groupVars, timeVars, LocksOK,
       Process, Holding
  <2>7. CtlOK'
    BY <1>2, <2>1, <2>2, <2>3 DEF CtlOpen, CtlGoto, ctlOnly, groupVars, timeVars, CtlOK,
       FilesOK, State
  <2>8. Holding'
    BY <1>2, <2>1, <2>2, <2>3, ControlAssumption DEF CtlOpen, CtlGoto, ctlOnly, groupVars,
       timeVars, Holding, CtlOK, LocksOK, Process
  <2>9. OneLock'
    BY <1>2, <2>1, <2>2, <2>3, ControlAssumption, SMTT(30) DEF CtlOpen, CtlGoto, ctlOnly, groupVars,
       timeVars, OneLock, Course, Holding, LocksOK, CtlOK, Process, Intact, Young, Up,
       Watches
  <2>10. Kept'
    BY <1>2, <2>1, <2>2, <2>3 DEF CtlOpen, CtlGoto, ctlOnly, groupVars, timeVars, Kept,
       Course, OneLock, FilesOK, FlagsOK, CtlOK, Intact, Young, Up, Watches
  <2>11. Fresh'
    BY <1>2, <2>1, <2>2, <2>3 DEF CtlOpen, CtlGoto, ctlOnly, groupVars, timeVars, Fresh,
       Accepted, Course, Holding, FilesOK, CtlOK, Intact, Young, Up, Watches
  <2>12. Polled'
    BY <1>2, <2>1, <2>2, <2>3 DEF CtlOpen, CtlGoto, ctlOnly, groupVars, timeVars, Polled,
       TimeLeft, Course, FilesOK, CtlOK, Young, Up
  <2>13. QED
    BY <2>4, <2>5, <2>6, <2>7, <2>8, <2>9, <2>10, <2>11, <2>12
<1>3. CASE CtlRead(k)
  <2>1. k \in Process /\ k \notin {"sup", "dog"}
    BY ControlAssumption DEF Process
  <2>2. Intact => held = {}
    BY <1>3, <2>1, Free DEF CtlRead
  <2>3. Authentic /\ Accepted(ctl[k].act) =>
          /\ st \in State /\ st # None /\ SupAlive
          /\ Rewritten(ctl[k].act) \in State
          /\ Rewritten(ctl[k].act).payload = st.payload
          /\ Rewritten(ctl[k].act).state = IF ctl[k].act = "beat" THEN "running" ELSE "stopping"
          /\ st.left > 0 => Rewritten(ctl[k].act).left > 0
    BY TTLAssumption, NoneAssumption DEF Authentic, Matches, Accepted, Rewritten, FilesOK,
       CtlOK, State
  <2>4. UNCHANGED <<st, leader, sup, dog, polled>>
    BY <1>3 DEF CtlRead, ctlOnly, groupVars, timeVars
  <2>5. Intact => \A j \in Control : ctl'[j].pc = "writing" =>
          /\ j = k /\ Authentic /\ Accepted(ctl[k].act)
          /\ ctl'[k].act = ctl[k].act /\ ctl'[k].view = Rewritten(ctl[k].act)
    BY <1>3, <2>2 DEF CtlRead, CtlGoto, CtlOK, Holding
  <2>6. Intact /\ SupAlive /\ leader = "alive" => st.payload
    BY <2>2 DEF Recorded, Holding, SupAlive
  <2>7. FlagsOK' /\ PlacesOK' /\ Course' /\ Recorded' /\ Marked'
    BY <1>3, Frame DEF CtlRead, CtlGoto, Authentic, Rewritten, Matches, SupAlive, ctlOnly,
       groupVars, timeVars
  <2>8. FilesOK'
    BY <1>3, <2>1, <2>2, <2>3, <2>4, <2>5, <2>6 DEF CtlRead, CtlGoto, Authentic, Rewritten,
       Matches, SupAlive, ctlOnly, groupVars, timeVars, FilesOK, State, CtlOK
  <2>9. LocksOK'
    BY <1>3, <2>1, <2>2, <2>3, <2>4, <2>5, <2>6 DEF CtlRead, CtlGoto, Authentic, Rewritten,
       Matches, SupAlive, ctlOnly, groupVars, timeVars, LocksOK, Process, Holding
  <2>10. CtlOK'
    BY <1>3, <2>1, <2>2, <2>3, <2>4, <2>5, <2>6 DEF CtlRead, CtlGoto, Authentic, Rewritten,
       Matches, SupAlive, ctlOnly, groupVars, timeVars, CtlOK, FilesOK, State
  <2>11. Holding'
    BY <1>3, <2>1, <2>2, <2>3, <2>4, <2>5, <2>6, ControlAssumption DEF CtlRead, CtlGoto,
       Authentic, Rewritten, Matches, SupAlive, ctlOnly, groupVars, timeVars, Holding,
       CtlOK, LocksOK, Process
  <2>12. OneLock'
    BY <1>3, <2>1, <2>2, <2>3, <2>4, <2>5, <2>6, ControlAssumption DEF CtlRead, CtlGoto,
       Authentic, Rewritten, Matches, SupAlive, ctlOnly, groupVars, timeVars, OneLock,
       Course, Holding, LocksOK, CtlOK, Process, Intact, Young, Up, Watches
  <2>13. Kept'
    BY <1>3, <2>1, <2>2, <2>3, <2>4, <2>5, <2>6 DEF CtlRead, CtlGoto, Authentic, Rewritten,
       Matches, SupAlive, ctlOnly, groupVars, timeVars, Kept, Course, OneLock, FilesOK,
       FlagsOK, CtlOK, Intact, Young, Up, Watches
  <2>14. Fresh'
    BY <2>3, <2>4, <2>5, <2>6 DEF Fresh, Accepted, Intact
  <2>15. Polled'
    BY <2>3, <2>4, <2>5 DEF Polled, TimeLeft, Intact
  <2>16. QED
    BY <2>7, <2>8, <2>9, <2>10, <2>11, <2>12, <2>13, <2>14, <2>15
<1>4. CASE CtlWrite(k)
  <2>1. k \in Process /\ k \notin {"sup", "dog"}
    BY ControlAssumption DEF Process
  <2>2. Intact => held = {k}
    BY <1>4 DEF CtlWrite, Holding, OneLock, LocksOK
  <2>3. ctl[k].view \in State /\ ctl[k].view # None
    BY <1>4, NoneAssumption DEF CtlWrite, CtlOK
  <2>4. Intact =>
          /\ st # None /\ st \in State /\ sup # "forked" /\ sup \notin Young \ {"starting"}
          /\ dog # "marking" /\ st.payload = ctl[k].view.payload
          /\ leader = "alive" => st.payload /\ dir
    BY <1>4, <2>1, <2>2, <2>3 DEF CtlWrite, Fresh, Holding, Course, FilesOK, Kept
  <2>5. sup \in Young \union {"forked"} => Intact
    BY DEF Course, Intact, Young, Up
  <2>6. st' = (IF dir THEN ctl[k].view ELSE st) /\ UNCHANGED <<client, leader, sup, dog>>
    BY <1>4 DEF CtlWrite, ctlOnly, groupVars
  <2>7. FlagsOK' /\ PlacesOK'
    BY <1>4, Frame DEF CtlWrite, CtlGoto, ctlOnly, groupVars, timeVars
  <2>8. FilesOK'
    BY <1>4, <2>1, <2>2, <2>3, <2>4, <2>5, <2>6 DEF CtlWrite, CtlGoto, ctlOnly, groupVars,
       timeVars, FilesOK, State, CtlOK
  <2>9. LocksOK'
    BY <1>4, <2>1, <2>2, <2>3, <2>4, <2>5, <2>6 DEF CtlWrite, CtlGoto, ctlOnly, groupVars,
       timeVars, LocksOK, Process, Holding
  <2>10. CtlOK'
    BY <1>4, <2>1, <2>2, <2>3, <2>4, <2>5, <2>6 DEF CtlWrite, CtlGoto, ctlOnly, groupVars,
       timeVars, CtlOK, FilesOK, State
  <2>11. Course'
    BY <2>4, <2>5, <2>6 DEF Course, Young, Up, Watches
  <2>12. Holding'
    BY <1>4, <2>1, <2>2, <2>3, <2>4, <2>5, <2>6, ControlAssumption DEF CtlWrite, CtlGoto,
       ctlOnly, groupVars, timeVars, Holding, CtlOK, LocksOK, Process
  <2>13. OneLock'
    BY <1>4, <2>1, <2>2, <2>3, <2>4, <2>5, <2>6, ControlAssumption DEF CtlWrite, CtlGoto,
       ctlOnly, groupVars, timeVars, OneLock, Course, Holding, LocksOK, CtlOK, Process,
       Intact, Young, Up, Watches
  <2>14. Kept'
    BY <1>4, <2>1, <2>2, <2>3, <2>4, <2>5, <2>6 DEF CtlWrite, CtlGoto, ctlOnly, groupVars,
       timeVars, Kept, Course, OneLock, FilesOK, FlagsOK, CtlOK, Intact, Young, Up, Watches
  <2>15. Fresh'
    BY <1>4, <2>1, <2>2, <2>3, <2>4, <2>5, <2>6 DEF CtlWrite, CtlGoto, ctlOnly, groupVars,
       timeVars, Fresh, Accepted, Course, Holding, FilesOK, CtlOK, Intact, Young, Up,
       Watches
  <2>16. Recorded'
    BY <2>3, <2>4, <2>5, <2>6 DEF Recorded, Intact
  <2>17. Marked'
    BY <2>4, <2>6 DEF Marked, Intact
  <2>18. Polled'
    BY <1>4, <2>1, <2>2, <2>3, <2>4, <2>5, <2>6 DEF CtlWrite, CtlGoto, ctlOnly, groupVars,
       timeVars, Polled, TimeLeft, Course, FilesOK, CtlOK, Young, Up
  <2>19. QED
    BY <2>7, <2>8, <2>9, <2>10, <2>11, <2>12, <2>13, <2>14, <2>15, <2>16, <2>17, <2>18
<1>5. CASE CtlEnd(k)
  <2>1. k \in Process /\ k \notin {"sup", "dog"}
    BY ControlAssumption DEF Process
  <2>2. FlagsOK' /\ FilesOK' /\ PlacesOK' /\ Course' /\ Kept' /\ Recorded' /\ Marked'
    BY <1>5, Frame DEF CtlEnd, ctlOnly, groupVars, timeVars, fileVars
  <2>3. LocksOK'
    BY <1>5, <2>1 DEF CtlEnd, ctlOnly, groupVars, timeVars, fileVars, LocksOK, Process,
       Holding, Idle
  <2>4. CtlOK'
    BY <1>5, <2>1 DEF CtlEnd, ctlOnly, groupVars, timeVars, fileVars, CtlOK, FilesOK,
       State, Idle
  <2>5. Holding'
    BY <1>5, <2>1, ControlAssumption DEF CtlEnd, ctlOnly, groupVars, timeVars, fileVars,
       Holding, CtlOK, LocksOK, Process, Idle
  <2>6. OneLock'
    BY <1>5, <2>1, ControlAssumption DEF CtlEnd, ctlOnly, groupVars, timeVars, fileVars,
       OneLock, Course, Holding, LocksOK, CtlOK, Process, Intact, Young, Up, Watches, Idle
  <2>7. Fresh'
    BY <1>5, <2>1 DEF CtlEnd, ctlOnly, groupVars, timeVars, fileVars, Fresh, Accepted,
       Course, Holding, FilesOK, CtlOK, Intact, Young, Up, Watches, Idle
  <2>8. Polled'
    BY <1>5, <2>1 DEF CtlEnd, ctlOnly, groupVars, timeVars, fileVars, Polled, TimeLeft,
       Course, FilesOK, CtlOK, Young, Up, Idle
  <2>9. QED
    BY <2>2, <2>3, <2>4, <2>5, <2>6, <2>7, <2>8
<1>6. QED
  BY <1>1, <1>2, <1>3, <1>4, <1>5

\* The payload.
LEMMA GroupKeeps ==
    ASSUME IInv,
           \/ LeaderExits \/ LeaderForks \/ InitReaps
    PROVE  IInv'
<1> USE DEF IInv
<1>1. CASE LeaderExits
  <2>1. FlagsOK' /\ FilesOK' /\ LocksOK' /\ CtlOK' /\ Holding'
    BY <1>1, Frame DEF LeaderExits, fileVars, lockVars, timeVars
  <2>2. PlacesOK'
    BY <1>1 DEF LeaderExits, fileVars, lockVars, timeVars, PlacesOK, SupPC, DogPC
  <2>3. Course'
    BY <1>1 DEF LeaderExits, fileVars, lockVars, timeVars, Course, PlacesOK, SupPC, DogPC,
       Young, Up, Watches
  <2>4. OneLock'
    BY <1>1, ControlAssumption DEF LeaderExits, fileVars, lockVars, timeVars, OneLock,
       Course, Holding, LocksOK, CtlOK, Process, Intact, Young, Up, Watches
  <2>5. Kept'
    BY <1>1 DEF LeaderExits, fileVars, lockVars, timeVars, Kept, Course, OneLock, FilesOK,
       FlagsOK, CtlOK, Intact, Young, Up, Watches
  <2>6. Fresh'
    BY <1>1 DEF LeaderExits, fileVars, lockVars, timeVars, Fresh, Accepted, Course,
       Holding, FilesOK, CtlOK, Intact, Young, Up, Watches
  <2>7. Recorded'
    BY <1>1 DEF LeaderExits, fileVars, lockVars, timeVars, Recorded, Course, FilesOK,
       Young, Up
  <2>8. Marked'
    BY <1>1 DEF LeaderExits, fileVars, lockVars, timeVars, Marked, Course, FilesOK, Intact,
       Young, Up, Watches
  <2>9. Polled'
    BY <1>1 DEF LeaderExits, fileVars, lockVars, timeVars, Polled, TimeLeft, Course,
       FilesOK, CtlOK, Young, Up
  <2>10. QED
    BY <2>1, <2>2, <2>3, <2>4, <2>5, <2>6, <2>7, <2>8, <2>9
<1>2. CASE LeaderForks
  <2>1. /\ FlagsOK' /\ FilesOK' /\ LocksOK' /\ CtlOK' /\ Course'
        /\ Holding' /\ OneLock' /\ Kept' /\ Fresh' /\ Recorded' /\ Marked' /\ Polled'
    BY <1>2, Frame DEF LeaderForks, fileVars, lockVars, timeVars
  <2>2. PlacesOK'
    BY <1>2 DEF LeaderForks, fileVars, lockVars, timeVars, PlacesOK, SupPC, DogPC
  <2>3. QED
    BY <2>1, <2>2
<1>3. CASE InitReaps
  <2>1. FlagsOK' /\ FilesOK' /\ LocksOK' /\ CtlOK' /\ Holding'
    BY <1>3, Frame DEF InitReaps, SupAlive, fileVars, lockVars, timeVars
  <2>2. PlacesOK'
    BY <1>3 DEF InitReaps, SupAlive, fileVars, lockVars, timeVars, PlacesOK, SupPC, DogPC
  <2>3. Course'
    BY <1>3 DEF InitReaps, SupAlive, fileVars, lockVars, timeVars, Course, PlacesOK, SupPC,
       DogPC, Young, Up, Watches
  <2>4. OneLock'
    BY <1>3, ControlAssumption DEF InitReaps, SupAlive, fileVars, lockVars, timeVars,
       OneLock, Course, Holding, LocksOK, CtlOK, Process, Intact, Young, Up, Watches
  <2>5. Kept'
    BY <1>3 DEF InitReaps, SupAlive, fileVars, lockVars, timeVars, Kept, Course, OneLock,
       FilesOK, FlagsOK, CtlOK, Intact, Young, Up, Watches
  <2>6. Fresh'
    BY <1>3 DEF InitReaps, SupAlive, fileVars, lockVars, timeVars, Fresh, Accepted, Course,
       Holding, FilesOK, CtlOK, Intact, Young, Up, Watches
  <2>7. Recorded'
    BY <1>3 DEF InitReaps, SupAlive, fileVars, lockVars, timeVars, Recorded, Course,
       FilesOK, Young, Up
  <2>8. Marked'
    BY <1>3 DEF InitReaps, SupAlive, fileVars, lockVars, timeVars, Marked, Course, FilesOK,
       Intact, Young, Up, Watches
  <2>9. Polled'
    BY <1>3 DEF InitReaps, SupAlive, fileVars, lockVars, timeVars, Polled, TimeLeft,
       Course, FilesOK, CtlOK, Young, Up
  <2>10. QED
    BY <2>1, <2>2, <2>3, <2>4, <2>5, <2>6, <2>7, <2>8, <2>9
<1>4. QED
  BY <1>1, <1>2, <1>3

\* The supervisor.
LEMMA SupKeeps ==
    ASSUME IInv,
           \/ SupStart \/ SupReadFails \/ SupWriteStarting \/ SupLaunch
           \/ SupRecordFails \/ SupRecord \/ SupForksDog \/ SupReaps
           \/ SupPoll \/ SupSignalled \/ SupTerminates \/ SupGraceEnds
           \/ SupCrash \/ SupCleans \/ SupExits
    PROVE  IInv'
<1> USE DEF IInv
<1>1. CASE SupStart
  <2>1. FlagsOK' /\ LocksOK' /\ CtlOK'
    BY <1>1, Frame DEF SupStart, supOnly, lockVars, groupVars, timeVars
  <2>2. FilesOK'
    BY <1>1 DEF SupStart, supOnly, lockVars, groupVars, timeVars, FilesOK, State, CtlOK
  <2>3. PlacesOK'
    BY <1>1 DEF SupStart, supOnly, lockVars, groupVars, timeVars, PlacesOK, SupPC, DogPC
  <2>4. Course'
    BY <1>1 DEF SupStart, supOnly, lockVars, groupVars, timeVars, Course, PlacesOK, SupPC,
       DogPC, Young, Up, Watches
  <2>5. Holding'
    BY <1>1, ControlAssumption DEF SupStart, supOnly, lockVars, groupVars, timeVars,
       Holding, CtlOK, LocksOK, Process
  <2>6. OneLock'
    BY <1>1, ControlAssumption DEF SupStart, supOnly, lockVars, groupVars, timeVars,
       OneLock, Course, Holding, LocksOK, CtlOK, Process, Intact, Young, Up, Watches
  <2>7. Kept'
    BY <1>1 DEF SupStart, supOnly, lockVars, groupVars, timeVars, Kept, Course, OneLock,
       FilesOK, FlagsOK, CtlOK, Intact, Young, Up, Watches
  <2>8. Fresh'
    BY <1>1 DEF SupStart, supOnly, lockVars, groupVars, timeVars, Fresh, Accepted, Course,
       Holding, FilesOK, CtlOK, Intact, Young, Up, Watches
  <2>9. Recorded'
    BY <1>1 DEF SupStart, supOnly, lockVars, groupVars, timeVars, Recorded, Course,
       FilesOK, Young, Up
  <2>10. Marked'
    BY <1>1 DEF SupStart, supOnly, lockVars, groupVars, timeVars, Marked, Course, FilesOK,
       Intact, Young, Up, Watches
  <2>11. Polled'
    BY <1>1 DEF SupStart, supOnly, lockVars, groupVars, timeVars, Polled, TimeLeft, Course,
       FilesOK, CtlOK, Young, Up
  <2>12. QED
    BY <2>1, <2>2, <2>3, <2>4, <2>5, <2>6, <2>7, <2>8, <2>9, <2>10, <2>11
<1>2. CASE SupReadFails
  <2>1. FlagsOK' /\ FilesOK' /\ LocksOK' /\ CtlOK'
    BY <1>2, Frame DEF SupReadFails, supOnly, fileVars, lockVars, groupVars, timeVars
  <2>2. PlacesOK'
    BY <1>2 DEF SupReadFails, supOnly, fileVars, lockVars, groupVars, timeVars, PlacesOK,
       SupPC, DogPC
  <2>3. Course'
    BY <1>2 DEF SupReadFails, supOnly, fileVars, lockVars, groupVars, timeVars, Course,
       PlacesOK, SupPC, DogPC, Young, Up, Watches
  <2>4. Holding'
    BY <1>2, ControlAssumption DEF SupReadFails, supOnly, fileVars, lockVars, groupVars,
       timeVars, Holding, CtlOK, LocksOK, Process
  <2>5. OneLock'
    BY <1>2, ControlAssumption DEF SupReadFails, supOnly, fileVars, lockVars, groupVars,
       timeVars, OneLock, Course, Holding, LocksOK, CtlOK, Process, Intact, Young, Up,
       Watches
  <2>6. Kept'
    BY <1>2 DEF SupReadFails, supOnly, fileVars, lockVars, groupVars, timeVars, Kept,
       Course, OneLock, FilesOK, FlagsOK, CtlOK, Intact, Young, Up, Watches
  <2>7. Fresh'
    BY <1>2 DEF SupReadFails, supOnly, fileVars, lockVars, groupVars, timeVars, Fresh,
       Accepted, Course, Holding, FilesOK, CtlOK, Intact, Young, Up, Watches
  <2>8. Recorded'
    BY <1>2 DEF SupReadFails, supOnly, fileVars, lockVars, groupVars, timeVars, Recorded,
       Course, FilesOK, Young, Up
  <2>9. Marked'
    BY <1>2 DEF SupReadFails, supOnly, fileVars, lockVars, groupVars, timeVars, Marked,
       Course, FilesOK, Intact, Young, Up, Watches
  <2>10. Polled'
    BY <1>2 DEF SupReadFails, supOnly, fileVars, lockVars, groupVars, timeVars, Polled,
       TimeLeft, Course, FilesOK, CtlOK, Young, Up
  <2>11. QED
    BY <2>1, <2>2, <2>3, <2>4, <2>5, <2>6, <2>7, <2>8, <2>9, <2>10
<1>3. CASE SupWriteStarting
  <2>1. /\ lockIno' \in Nat \ {0} /\ ino' \in [Process -> Nat]
        /\ ino'["sup"] = lockIno' /\ \A q \in Process \ {"sup"} : ino'[q] = ino[q]
        /\ lockIno # 0 => lockIno' = lockIno
    BY <1>3, Opened DEF SupWriteStarting, Process
  <2>2. st' = [state |-> "starting", left |-> TTL, payload |-> FALSE]
    BY <1>3 DEF SupWriteStarting
  <2>3. st' \in State /\ lockIno' # 0
    BY <2>1, <2>2, TTLAssumption DEF State
  <2>4. st' # None
    BY <2>3, NoneAssumption
  <2>5. FlagsOK' /\ CtlOK'
    BY <1>3, Frame DEF SupWriteStarting, supOnly, groupVars, timeVars
  <2>6. FilesOK'
    BY <1>3, <2>1, <2>2, <2>3, <2>4 DEF SupWriteStarting, supOnly, groupVars, timeVars,
       FilesOK, State, CtlOK
  <2>7. LocksOK'
    BY <1>3, <2>1, <2>2, <2>3, <2>4 DEF SupWriteStarting, supOnly, groupVars, timeVars,
       LocksOK, Process, Holding
  <2>8. PlacesOK'
    BY <1>3, <2>1, <2>2, <2>3, <2>4 DEF SupWriteStarting, supOnly, groupVars, timeVars,
       PlacesOK, SupPC, DogPC
  <2>9. Course'
    BY <1>3, <2>1, <2>2, <2>3, <2>4 DEF SupWriteStarting, supOnly, groupVars, timeVars,
       Course, PlacesOK, SupPC, DogPC, Young, Up, Watches
  <2>10. Holding'
    BY <1>3, <2>1, <2>2, <2>3, <2>4, ControlAssumption DEF SupWriteStarting, supOnly,
       groupVars, timeVars, Holding, CtlOK, LocksOK, Process
  <2>11. OneLock'
    BY <1>3, <2>1, <2>2, <2>3, <2>4, ControlAssumption DEF SupWriteStarting, supOnly,
       groupVars, timeVars, OneLock, Course, Holding, LocksOK, CtlOK, Process, Intact,
       Young, Up, Watches
  <2>12. Kept'
    BY <1>3, <2>1, <2>2, <2>3, <2>4 DEF SupWriteStarting, supOnly, groupVars, timeVars,
       Kept, Course, OneLock, FilesOK, FlagsOK, CtlOK, Intact, Young, Up, Watches
  <2>13. Fresh'
    BY <1>3, <2>1, <2>2, <2>3, <2>4 DEF SupWriteStarting, supOnly, groupVars, timeVars,
       Fresh, Accepted, Course, Holding, FilesOK, CtlOK, Intact, Young, Up, Watches
  <2>14. Recorded'
    BY <1>3, <2>1, <2>2, <2>3, <2>4 DEF SupWriteStarting, supOnly, groupVars, timeVars,
       Recorded, Course, FilesOK, Young, Up
  <2>15. Marked'
    BY <1>3, <2>1, <2>2, <2>3, <2>4 DEF SupWriteStarting, supOnly, groupVars, timeVars,
       Marked, Course, FilesOK, Intact, Young, Up, Watches
  <2>16. Polled'
    BY <1>3, <2>1, <2>2, <2>3, <2>4 DEF SupWriteStarting, supOnly, groupVars, timeVars,
       Polled, TimeLeft, Course, FilesOK, CtlOK, Young, Up
  <2>17. QED
    BY <2>5, <2>6, <2>7, <2>8, <2>9, <2>10, <2>11, <2>12, <2>13, <2>14, <2>15, <2>16
<1>4. CASE SupLaunch
  <2>1. Intact /\ leader = "none" /\ dog = "none"
    BY <1>4 DEF SupLaunch, Course, Intact, Young, Up, Watches
  <2>2. held = {}
    BY <1>4, <2>1, Free DEF SupLaunch, Process, Up
  <2>3. FlagsOK' /\ FilesOK' /\ CtlOK'
    BY <1>4, Frame DEF SupLaunch, supOnly, fileVars, timeVars
  <2>4. LocksOK'
    BY <1>4, <2>1, <2>2 DEF SupLaunch, supOnly, fileVars, timeVars, LocksOK, Process,
       Holding
  <2>5. PlacesOK'
    BY <1>4, <2>1, <2>2 DEF SupLaunch, supOnly, fileVars, timeVars, PlacesOK, SupPC, DogPC
  <2>6. Course'
    BY <1>4, <2>1, <2>2 DEF SupLaunch, supOnly, fileVars, timeVars, Course, PlacesOK,
       SupPC, DogPC, Young, Up, Watches
  <2>7. Holding'
    BY <1>4, <2>1, <2>2, ControlAssumption DEF SupLaunch, supOnly, fileVars, timeVars,
       Holding, CtlOK, LocksOK, Process
  <2>8. OneLock'
    BY <1>4, <2>1, <2>2, ControlAssumption DEF SupLaunch, supOnly, fileVars, timeVars,
       OneLock, Course, Holding, LocksOK, CtlOK, Process, Intact, Young, Up, Watches
  <2>9. Kept'
    BY <1>4, <2>1, <2>2 DEF SupLaunch, supOnly, fileVars, timeVars, Kept, Course, OneLock,
       FilesOK, FlagsOK, CtlOK, Intact, Young, Up, Watches
  <2>10. Fresh'
    BY <1>4, <2>1, <2>2 DEF SupLaunch, supOnly, fileVars, timeVars, Fresh, Accepted,
       Course, Holding, FilesOK, CtlOK, Intact, Young, Up, Watches
  <2>11. Recorded'
    BY <1>4, <2>1, <2>2 DEF SupLaunch, supOnly, fileVars, timeVars, Recorded, Course,
       FilesOK, Young, Up
  <2>12. Marked'
    BY <1>4, <2>1, <2>2 DEF SupLaunch, supOnly, fileVars, timeVars, Marked, Course,
       FilesOK, Intact, Young, Up, Watches
  <2>13. Polled'
    BY <1>4, <2>1, <2>2 DEF SupLaunch, supOnly, fileVars, timeVars, Polled, TimeLeft,
       Course, FilesOK, CtlOK, Young, Up
  <2>14. QED
    BY <2>3, <2>4, <2>5, <2>6, <2>7, <2>8, <2>9, <2>10, <2>11, <2>12, <2>13
<1>5. CASE SupRecordFails
  <2>1. Intact /\ dog = "none"
    BY <1>5 DEF SupRecordFails, Course, Intact, Young, Up, Watches
  <2>2. held = {"sup"}
    BY <1>5, <2>1 DEF SupRecordFails, Holding, OneLock, LocksOK
  <2>3. FlagsOK' /\ FilesOK' /\ CtlOK'
    BY <1>5, Frame DEF SupRecordFails, supOnly, fileVars, timeVars
  <2>4. LocksOK'
    BY <1>5, <2>1, <2>2 DEF SupRecordFails, supOnly, fileVars, timeVars, LocksOK, Process,
       Holding
  <2>5. PlacesOK'
    BY <1>5, <2>1, <2>2 DEF SupRecordFails, supOnly, fileVars, timeVars, PlacesOK, SupPC,
       DogPC
  <2>6. Course'
    BY <1>5, <2>1, <2>2 DEF SupRecordFails, supOnly, fileVars, timeVars, Course, PlacesOK,
       SupPC, DogPC, Young, Up, Watches
  <2>7. Holding'
    BY <1>5, <2>1, <2>2, ControlAssumption DEF SupRecordFails, supOnly, fileVars, timeVars,
       Holding, CtlOK, LocksOK, Process
  <2>8. OneLock'
    BY <1>5, <2>1, <2>2, ControlAssumption DEF SupRecordFails, supOnly, fileVars, timeVars,
       OneLock, Course, Holding, LocksOK, CtlOK, Process, Intact, Young, Up, Watches
  <2>9. Kept'
    BY <1>5, <2>1, <2>2 DEF SupRecordFails, supOnly, fileVars, timeVars, Kept, Course,
       OneLock, FilesOK, FlagsOK, CtlOK, Intact, Young, Up, Watches
  <2>10. Fresh'
    BY <1>5, <2>1, <2>2 DEF SupRecordFails, supOnly, fileVars, timeVars, Fresh, Accepted,
       Course, Holding, FilesOK, CtlOK, Intact, Young, Up, Watches
  <2>11. Recorded'
    BY <1>5, <2>1, <2>2 DEF SupRecordFails, supOnly, fileVars, timeVars, Recorded, Course,
       FilesOK, Young, Up
  <2>12. Marked'
    BY <1>5, <2>1, <2>2 DEF SupRecordFails, supOnly, fileVars, timeVars, Marked, Course,
       FilesOK, Intact, Young, Up, Watches
  <2>13. Polled'
    BY <1>5, <2>1, <2>2 DEF SupRecordFails, supOnly, fileVars, timeVars, Polled, TimeLeft,
       Course, FilesOK, CtlOK, Young, Up
  <2>14. QED
    BY <2>3, <2>4, <2>5, <2>6, <2>7, <2>8, <2>9, <2>10, <2>11, <2>12, <2>13
<1>6. CASE SupRecord
  <2>1. Intact /\ dog = "none"
    BY <1>6 DEF SupRecord, Course, Intact, Young, Up, Watches
  <2>2. held = {"sup"}
    BY <1>6, <2>1 DEF SupRecord, Holding, OneLock, LocksOK
  <2>3. st \in State /\ st # None /\ st.state = "starting"
    BY <1>6 DEF SupRecord, Recorded, FilesOK
  <2>4. st' \in State /\ st' # None /\ st'.state = "running" /\ st'.payload /\ st'.left = st.left
    BY <1>6, <2>3, NoneAssumption DEF SupRecord, State
  <2>5. \A k \in Control : ctl[k].pc # "writing"
    BY <2>2, ControlAssumption DEF Holding
  <2>6. FlagsOK' /\ CtlOK'
    BY <1>6, Frame DEF SupRecord, supOnly, groupVars, timeVars
  <2>7. FilesOK'
    BY <1>6, <2>1, <2>2, <2>3, <2>4, <2>5 DEF SupRecord, supOnly, groupVars, timeVars,
       FilesOK, State, CtlOK
  <2>8. LocksOK'
    BY <1>6, <2>1, <2>2, <2>3, <2>4, <2>5 DEF SupRecord, supOnly, groupVars, timeVars,
       LocksOK, Process, Holding
  <2>9. PlacesOK'
    BY <1>6, <2>1, <2>2, <2>3, <2>4, <2>5 DEF SupRecord, supOnly, groupVars, timeVars,
       PlacesOK, SupPC, DogPC
  <2>10. Course'
    BY <1>6, <2>1, <2>2, <2>3, <2>4, <2>5 DEF SupRecord, supOnly, groupVars, timeVars,
       Course, PlacesOK, SupPC, DogPC, Young, Up, Watches
  <2>11. Holding'
    BY <1>6, <2>1, <2>2, <2>3, <2>4, <2>5, ControlAssumption DEF SupRecord, supOnly,
       groupVars, timeVars, Holding, CtlOK, LocksOK, Process
  <2>12. OneLock'
    BY <1>6, <2>1, <2>2, <2>3, <2>4, <2>5, ControlAssumption DEF SupRecord, supOnly,
       groupVars, timeVars, OneLock, Course, Holding, LocksOK, CtlOK, Process, Intact,
       Young, Up, Watches
  <2>13. Kept'
    BY <1>6, <2>1, <2>2, <2>3, <2>4, <2>5 DEF SupRecord, supOnly, groupVars, timeVars,
       Kept, Course, OneLock, FilesOK, FlagsOK, CtlOK, Intact, Young, Up, Watches
  <2>14. Fresh'
    BY <1>6, <2>1, <2>2, <2>3, <2>4, <2>5 DEF SupRecord, supOnly, groupVars, timeVars,
       Fresh, Accepted, Course, Holding, FilesOK, CtlOK, Intact, Young, Up, Watches
  <2>15. Recorded'
    BY <1>6, <2>1, <2>2, <2>3, <2>4, <2>5 DEF SupRecord, supOnly, groupVars, timeVars,
       Recorded, Course, FilesOK, Young, Up
  <2>16. Marked'
    BY <1>6, <2>1, <2>2, <2>3, <2>4, <2>5 DEF SupRecord, supOnly, groupVars, timeVars,
       Marked, Course, FilesOK, Intact, Young, Up, Watches
  <2>17. Polled'
    BY <1>6, <2>1, <2>2, <2>3, <2>4, <2>5 DEF SupRecord, supOnly, groupVars, timeVars,
       Polled, TimeLeft, Course, FilesOK, CtlOK, Young, Up
  <2>18. QED
    BY <2>6, <2>7, <2>8, <2>9, <2>10, <2>11, <2>12, <2>13, <2>14, <2>15, <2>16, <2>17
<1>7. CASE SupForksDog
  <2>1. dog = "none"
    BY <1>7 DEF SupForksDog, Course
  <2>2. FlagsOK' /\ FilesOK' /\ LocksOK' /\ CtlOK'
    BY <1>7, Frame DEF SupForksDog, fileVars, lockVars, groupVars, timeVars
  <2>3. PlacesOK'
    BY <1>7, <2>1 DEF SupForksDog, fileVars, lockVars, groupVars, timeVars, PlacesOK,
       SupPC, DogPC
  <2>4. Course'
    BY <1>7, <2>1 DEF SupForksDog, fileVars, lockVars, groupVars, timeVars, Course,
       PlacesOK, SupPC, DogPC, Young, Up, Watches
  <2>5. Holding'
    BY <1>7, <2>1, ControlAssumption DEF SupForksDog, fileVars, lockVars, groupVars,
       timeVars, Holding, CtlOK, LocksOK, Process, Course, Young
  <2>6. OneLock'
    BY <1>7, <2>1, ControlAssumption DEF SupForksDog, fileVars, lockVars, groupVars,
       timeVars, OneLock, Course, Holding, LocksOK, CtlOK, Process, Intact, Young, Up,
       Watches
  <2>7. Kept'
    BY <1>7, <2>1 DEF SupForksDog, fileVars, lockVars, groupVars, timeVars, Kept, Course,
       OneLock, FilesOK, FlagsOK, CtlOK, Intact, Young, Up, Watches
  <2>8. Fresh'
    BY <1>7, <2>1 DEF SupForksDog, fileVars, lockVars, groupVars, timeVars, Fresh,
       Accepted, Course, Holding, FilesOK, CtlOK, Intact, Young, Up, Watches
  <2>9. Recorded'
    BY <1>7, <2>1 DEF SupForksDog, fileVars, lockVars, groupVars, timeVars, Recorded,
       Course, FilesOK, Young, Up
  <2>10. Marked'
    BY <1>7, <2>1 DEF SupForksDog, fileVars, lockVars, groupVars, timeVars, Marked, Course,
       FilesOK, Intact, Young, Up, Watches
  <2>11. Polled'
    BY <1>7, <2>1 DEF SupForksDog, fileVars, lockVars, groupVars, timeVars, Polled,
       TimeLeft, Course, FilesOK, CtlOK, Young, Up
  <2>12. QED
    BY <2>2, <2>3, <2>4, <2>5, <2>6, <2>7, <2>8, <2>9, <2>10, <2>11
<1>8. CASE SupReaps
  <2>1. FlagsOK' /\ FilesOK' /\ LocksOK' /\ CtlOK'
    BY <1>8, Frame DEF SupReaps, supOnly, fileVars, lockVars, timeVars
  <2>2. PlacesOK'
    BY <1>8 DEF SupReaps, supOnly, fileVars, lockVars, timeVars, PlacesOK, SupPC, DogPC
  <2>3. Course'
    BY <1>8 DEF SupReaps, supOnly, fileVars, lockVars, timeVars, Course, PlacesOK, SupPC,
       DogPC, Young, Up, Watches
  <2>4. Holding'
    BY <1>8, ControlAssumption DEF SupReaps, supOnly, fileVars, lockVars, timeVars,
       Holding, CtlOK, LocksOK, Process
  <2>5. OneLock'
    BY <1>8, ControlAssumption DEF SupReaps, supOnly, fileVars, lockVars, timeVars,
       OneLock, Course, Holding, LocksOK, CtlOK, Process, Intact, Young, Up, Watches
  <2>6. Kept'
    BY <1>8 DEF SupReaps, supOnly, fileVars, lockVars, timeVars, Kept, Course, OneLock,
       FilesOK, FlagsOK, CtlOK, Intact, Young, Up, Watches
  <2>7. Fresh'
    BY <1>8 DEF SupReaps, supOnly, fileVars, lockVars, timeVars, Fresh, Accepted, Course,
       Holding, FilesOK, CtlOK, Intact, Young, Up, Watches
  <2>8. Recorded'
    BY <1>8 DEF SupReaps, supOnly, fileVars, lockVars, timeVars, Recorded, Course, FilesOK,
       Young, Up
  <2>9. Marked'
    BY <1>8 DEF SupReaps, supOnly, fileVars, lockVars, timeVars, Marked, Course, FilesOK,
       Intact, Young, Up, Watches
  <2>10. Polled'
    BY <1>8 DEF SupReaps, supOnly, fileVars, lockVars, timeVars, Polled, TimeLeft, Course,
       FilesOK, CtlOK, Young, Up
  <2>11. QED
    BY <2>1, <2>2, <2>3, <2>4, <2>5, <2>6, <2>7, <2>8, <2>9, <2>10
<1>9. CASE SupPoll
  <2>1. held = {}
    BY <1>9, Free DEF SupPoll, Process, Up, Intact
  <2>2. st \in State => [st EXCEPT !.state = "stopping"] \in State
    BY DEF State
  <2>3. st \in State \union {None} /\ stopReq' = (stopReq \/ st = None \/ Expired)
    BY <1>9 DEF SupPoll, FilesOK
  <2>4. st # None /\ (st.left # 0 \/ st.state # "running") => st' = st
    BY <1>9 DEF SupPoll
  <2>5. st = None => st' = None
    BY <1>9 DEF SupPoll
  <2>6. st # None /\ st.left = 0 /\ st.state = "running" =>
          st' = [st EXCEPT !.state = "stopping"]
    BY <1>9 DEF SupPoll
  <2>7. /\ st' \in State \union {None} /\ (st' = None <=> st = None)
        /\ st # None => st'.payload = st.payload /\ st'.left = st.left
    BY <2>2, <2>3, <2>4, <2>5, <2>6, NoneAssumption DEF State
  <2>8. \A k \in Control : ctl[k].pc # "writing"
    BY <2>1 DEF Holding
  <2>9. dog # "marking"
    BY <2>1 DEF Holding
  <2>10. ~stopReq' => st # None /\ ~Expired
    BY <1>9 DEF SupPoll
  <2>11. ~stopReq' => st \in State /\ st.state = "running" /\ st.left # 0
    BY <2>3, <2>10 DEF Expired
  <2>12. ~stopReq' => st.left > 0 /\ st' = st
    BY <2>4, <2>10, <2>11 DEF State
  <2>13. LocksOK' /\ CtlOK'
    BY <1>9, Frame DEF SupPoll, Expired, supOnly, lockVars, groupVars
  <2>14. FlagsOK'
    BY <1>9, <2>1, <2>2, <2>3, <2>4, <2>5, <2>6, <2>7, <2>8, <2>9, <2>10, <2>11,
       <2>12 DEF SupPoll, Expired, supOnly, lockVars, groupVars, FlagsOK
  <2>15. FilesOK'
    BY <1>9, <2>1, <2>2, <2>3, <2>4, <2>5, <2>6, <2>7, <2>8, <2>9, <2>10, <2>11,
       <2>12 DEF SupPoll, Expired, supOnly, lockVars, groupVars, FilesOK, State, CtlOK
  <2>16. PlacesOK'
    BY <1>9, <2>1, <2>2, <2>3, <2>4, <2>5, <2>6, <2>7, <2>8, <2>9, <2>10, <2>11,
       <2>12 DEF SupPoll, Expired, supOnly, lockVars, groupVars, PlacesOK, SupPC, DogPC
  <2>17. Course'
    BY <1>9, <2>1, <2>2, <2>3, <2>4, <2>5, <2>6, <2>7, <2>8, <2>9, <2>10, <2>11,
       <2>12 DEF SupPoll, Expired, supOnly, lockVars, groupVars, Course, PlacesOK, SupPC,
       DogPC, Young, Up, Watches
  <2>18. Holding'
    BY <1>9, <2>1, <2>2, <2>3, <2>4, <2>5, <2>6, <2>7, <2>8, <2>9, <2>10, <2>11, <2>12,
       ControlAssumption DEF SupPoll, Expired, supOnly, lockVars, groupVars, Holding,
       CtlOK, LocksOK, Process
  <2>19. OneLock'
    BY <1>9, <2>1, <2>2, <2>3, <2>4, <2>5, <2>6, <2>7, <2>8, <2>9, <2>10, <2>11, <2>12,
       ControlAssumption DEF SupPoll, Expired, supOnly, lockVars, groupVars, OneLock,
       Course, Holding, LocksOK, CtlOK, Process, Intact, Young, Up, Watches
  <2>20. Kept'
    BY <1>9, <2>1, <2>2, <2>3, <2>4, <2>5, <2>6, <2>7, <2>8, <2>9, <2>10, <2>11,
       <2>12 DEF SupPoll, Expired, supOnly, lockVars, groupVars, Kept, Course, OneLock,
       FilesOK, FlagsOK, CtlOK, Intact, Young, Up, Watches
  <2>21. Fresh'
    BY <1>9, <2>1, <2>2, <2>3, <2>4, <2>5, <2>6, <2>7, <2>8, <2>9, <2>10, <2>11,
       <2>12 DEF SupPoll, Expired, supOnly, lockVars, groupVars, Fresh, Accepted, Course,
       Holding, FilesOK, CtlOK, Intact, Young, Up, Watches
  <2>22. Recorded'
    BY <1>9, <2>1, <2>2, <2>3, <2>4, <2>5, <2>6, <2>7, <2>8, <2>9, <2>10, <2>11,
       <2>12 DEF SupPoll, Expired, supOnly, lockVars, groupVars, Recorded, Course, FilesOK,
       Young, Up
  <2>23. Marked'
    BY <1>9, <2>1, <2>2, <2>3, <2>4, <2>5, <2>6, <2>7, <2>8, <2>9, <2>10, <2>11,
       <2>12 DEF SupPoll, Expired, supOnly, lockVars, groupVars, Marked, Course, FilesOK,
       Intact, Young, Up, Watches
  <2>24. Polled'
    BY <1>9, <2>1, <2>2, <2>3, <2>4, <2>5, <2>6, <2>7, <2>8, <2>9, <2>10, <2>11,
       <2>12 DEF SupPoll, Expired, supOnly, lockVars, groupVars, Polled, TimeLeft, Course,
       FilesOK, CtlOK, Young, Up
  <2>25. QED
    BY <2>13, <2>14, <2>15, <2>16, <2>17, <2>18, <2>19, <2>20, <2>21, <2>22, <2>23, <2>24
<1>10. CASE SupSignalled
  <2>1. /\ FilesOK' /\ LocksOK' /\ PlacesOK' /\ CtlOK' /\ Course'
        /\ Holding' /\ OneLock' /\ Kept' /\ Fresh' /\ Recorded' /\ Marked' /\ Polled'
    BY <1>10, Frame DEF SupSignalled, supOnly, fileVars, lockVars, groupVars, timeVars
  <2>2. FlagsOK'
    BY <1>10 DEF SupSignalled, supOnly, fileVars, lockVars, groupVars, timeVars, FlagsOK
  <2>3. QED
    BY <2>1, <2>2
<1>11. CASE SupTerminates
  <2>1. FlagsOK' /\ FilesOK' /\ LocksOK' /\ CtlOK'
    BY <1>11, Frame DEF SupTerminates, TermGroup, supOnly, fileVars, lockVars, timeVars
  <2>2. PlacesOK'
    BY <1>11 DEF SupTerminates, TermGroup, supOnly, fileVars, lockVars, timeVars, PlacesOK,
       SupPC, DogPC
  <2>3. Course'
    BY <1>11 DEF SupTerminates, TermGroup, supOnly, fileVars, lockVars, timeVars, Course,
       PlacesOK, SupPC, DogPC, Young, Up, Watches
  <2>4. Holding'
    BY <1>11, ControlAssumption DEF SupTerminates, TermGroup, supOnly, fileVars, lockVars,
       timeVars, Holding, CtlOK, LocksOK, Process
  <2>5. OneLock'
    BY <1>11, ControlAssumption DEF SupTerminates, TermGroup, supOnly, fileVars, lockVars,
       timeVars, OneLock, Course, Holding, LocksOK, CtlOK, Process, Intact, Young, Up,
       Watches
  <2>6. Kept'
    BY <1>11 DEF SupTerminates, TermGroup, supOnly, fileVars, lockVars, timeVars, Kept,
       Course, OneLock, FilesOK, FlagsOK, CtlOK, Intact, Young, Up, Watches
  <2>7. Fresh'
    BY <1>11 DEF SupTerminates, TermGroup, supOnly, fileVars, lockVars, timeVars, Fresh,
       Accepted, Course, Holding, FilesOK, CtlOK, Intact, Young, Up, Watches
  <2>8. Recorded'
    BY <1>11 DEF SupTerminates, TermGroup, supOnly, fileVars, lockVars, timeVars, Recorded,
       Course, FilesOK, Young, Up
  <2>9. Marked'
    BY <1>11 DEF SupTerminates, TermGroup, supOnly, fileVars, lockVars, timeVars, Marked,
       Course, FilesOK, Intact, Young, Up, Watches
  <2>10. Polled'
    BY <1>11 DEF SupTerminates, TermGroup, supOnly, fileVars, lockVars, timeVars, Polled,
       TimeLeft, Course, FilesOK, CtlOK, Young, Up
  <2>11. QED
    BY <2>1, <2>2, <2>3, <2>4, <2>5, <2>6, <2>7, <2>8, <2>9, <2>10
<1>12. CASE SupGraceEnds
  <2>1. FlagsOK' /\ FilesOK' /\ LocksOK' /\ CtlOK'
    BY <1>12, Frame DEF SupGraceEnds, KillGroup, supOnly, fileVars, lockVars, timeVars
  <2>2. PlacesOK'
    BY <1>12 DEF SupGraceEnds, KillGroup, supOnly, fileVars, lockVars, timeVars, PlacesOK,
       SupPC, DogPC
  <2>3. Course'
    BY <1>12 DEF SupGraceEnds, KillGroup, supOnly, fileVars, lockVars, timeVars, Course,
       PlacesOK, SupPC, DogPC, Young, Up, Watches
  <2>4. Holding'
    BY <1>12, ControlAssumption DEF SupGraceEnds, KillGroup, supOnly, fileVars, lockVars,
       timeVars, Holding, CtlOK, LocksOK, Process
  <2>5. OneLock'
    BY <1>12, ControlAssumption DEF SupGraceEnds, KillGroup, supOnly, fileVars, lockVars,
       timeVars, OneLock, Course, Holding, LocksOK, CtlOK, Process, Intact, Young, Up,
       Watches
  <2>6. Kept'
    BY <1>12 DEF SupGraceEnds, KillGroup, supOnly, fileVars, lockVars, timeVars, Kept,
       Course, OneLock, FilesOK, FlagsOK, CtlOK, Intact, Young, Up, Watches
  <2>7. Fresh'
    BY <1>12 DEF SupGraceEnds, KillGroup, supOnly, fileVars, lockVars, timeVars, Fresh,
       Accepted, Course, Holding, FilesOK, CtlOK, Intact, Young, Up, Watches
  <2>8. Recorded'
    BY <1>12 DEF SupGraceEnds, KillGroup, supOnly, fileVars, lockVars, timeVars, Recorded,
       Course, FilesOK, Young, Up
  <2>9. Marked'
    BY <1>12 DEF SupGraceEnds, KillGroup, supOnly, fileVars, lockVars, timeVars, Marked,
       Course, FilesOK, Intact, Young, Up, Watches
  <2>10. Polled'
    BY <1>12 DEF SupGraceEnds, KillGroup, supOnly, fileVars, lockVars, timeVars, Polled,
       TimeLeft, Course, FilesOK, CtlOK, Young, Up
  <2>11. QED
    BY <2>1, <2>2, <2>3, <2>4, <2>5, <2>6, <2>7, <2>8, <2>9, <2>10
<1>13. CASE SupCrash
  <2>1. FlagsOK' /\ FilesOK' /\ CtlOK'
    BY <1>13, Frame DEF SupCrash, SupAlive, supOnly, fileVars, groupVars, timeVars
  <2>2. LocksOK'
    BY <1>13 DEF SupCrash, SupAlive, supOnly, fileVars, groupVars, timeVars, LocksOK,
       Process, Holding
  <2>3. PlacesOK'
    BY <1>13 DEF SupCrash, SupAlive, supOnly, fileVars, groupVars, timeVars, PlacesOK,
       SupPC, DogPC
  <2>4. Course'
    BY <1>13 DEF SupCrash, SupAlive, supOnly, fileVars, groupVars, timeVars, Course,
       PlacesOK, SupPC, DogPC, Young, Up, Watches
  <2>5. Holding'
    BY <1>13, ControlAssumption DEF SupCrash, SupAlive, supOnly, fileVars, groupVars,
       timeVars, Holding, CtlOK, LocksOK, Process
  <2>6. OneLock'
    BY <1>13, ControlAssumption DEF SupCrash, SupAlive, supOnly, fileVars, groupVars,
       timeVars, OneLock, Course, Holding, LocksOK, CtlOK, Process, Intact, Young, Up,
       Watches
  <2>7. Kept'
    BY <1>13 DEF SupCrash, SupAlive, supOnly, fileVars, groupVars, timeVars, Kept, Course,
       OneLock, FilesOK, FlagsOK, CtlOK, Intact, Young, Up, Watches
  <2>8. Fresh'
    BY <1>13 DEF SupCrash, SupAlive, supOnly, fileVars, groupVars, timeVars, Fresh,
       Accepted, Course, Holding, FilesOK, CtlOK, Intact, Young, Up, Watches
  <2>9. Recorded'
    BY <1>13 DEF SupCrash, SupAlive, supOnly, fileVars, groupVars, timeVars, Recorded,
       Course, FilesOK, Young, Up
  <2>10. Marked'
    BY <1>13 DEF SupCrash, SupAlive, supOnly, fileVars, groupVars, timeVars, Marked,
       Course, FilesOK, Intact, Young, Up, Watches
  <2>11. Polled'
    BY <1>13 DEF SupCrash, SupAlive, supOnly, fileVars, groupVars, timeVars, Polled,
       TimeLeft, Course, FilesOK, CtlOK, Young, Up
  <2>12. QED
    BY <2>1, <2>2, <2>3, <2>4, <2>5, <2>6, <2>7, <2>8, <2>9, <2>10, <2>11
<1>14. CASE SupCleans
  <2>1. leader # "alive"
    BY <1>14 DEF SupCleans, CleanupStep, Course, Up
  <2>2. LocksOK' /\ CtlOK'
    BY <1>14, Frame DEF SupCleans, CleanupStep, UnlinkState, UnlinkLocks, RemoveDir, Rmdir,
       supOnly, lockVars, groupVars, timeVars
  <2>3. FlagsOK'
    BY <1>14, <2>1 DEF SupCleans, CleanupStep, UnlinkState, UnlinkLocks, RemoveDir, Rmdir,
       supOnly, lockVars, groupVars, timeVars, FlagsOK
  <2>4. FilesOK'
    BY <1>14, <2>1 DEF SupCleans, CleanupStep, UnlinkState, UnlinkLocks, RemoveDir, Rmdir,
       supOnly, lockVars, groupVars, timeVars, FilesOK, State, CtlOK
  <2>5. PlacesOK'
    BY <1>14, <2>1 DEF SupCleans, CleanupStep, UnlinkState, UnlinkLocks, RemoveDir, Rmdir,
       supOnly, lockVars, groupVars, timeVars, PlacesOK, SupPC, DogPC
  <2>6. Course'
    BY <1>14, <2>1 DEF SupCleans, CleanupStep, UnlinkState, UnlinkLocks, RemoveDir, Rmdir,
       supOnly, lockVars, groupVars, timeVars, Course, PlacesOK, SupPC, DogPC, Young, Up,
       Watches
  <2>7. Holding'
    BY <1>14, <2>1, ControlAssumption DEF SupCleans, CleanupStep, UnlinkState, UnlinkLocks,
       RemoveDir, Rmdir, supOnly, lockVars, groupVars, timeVars, Holding, CtlOK, LocksOK,
       Process
  <2>8. OneLock'
    BY <1>14, <2>1, ControlAssumption DEF SupCleans, CleanupStep, UnlinkState, UnlinkLocks,
       RemoveDir, Rmdir, supOnly, lockVars, groupVars, timeVars, OneLock, Course, Holding,
       LocksOK, CtlOK, Process, Intact, Young, Up, Watches
  <2>9. Kept'
    BY <1>14, <2>1 DEF SupCleans, CleanupStep, UnlinkState, UnlinkLocks, RemoveDir, Rmdir,
       supOnly, lockVars, groupVars, timeVars, Kept, Course, OneLock, FilesOK, FlagsOK,
       CtlOK, Intact, Young, Up, Watches
  <2>10. Fresh'
    BY <1>14, <2>1 DEF SupCleans, CleanupStep, UnlinkState, UnlinkLocks, RemoveDir, Rmdir,
       supOnly, lockVars, groupVars, timeVars, Fresh, Accepted, Course, Holding, FilesOK,
       CtlOK, Intact, Young, Up, Watches
  <2>11. Recorded'
    BY <1>14, <2>1 DEF SupCleans, CleanupStep, UnlinkState, UnlinkLocks, RemoveDir, Rmdir,
       supOnly, lockVars, groupVars, timeVars, Recorded, Course, FilesOK, Young, Up
  <2>12. Marked'
    BY <1>14, <2>1 DEF SupCleans, CleanupStep, UnlinkState, UnlinkLocks, RemoveDir, Rmdir,
       supOnly, lockVars, groupVars, timeVars, Marked, Course, FilesOK, Intact, Young, Up,
       Watches
  <2>13. Polled'
    BY <1>14, <2>1 DEF SupCleans, CleanupStep, UnlinkState, UnlinkLocks, RemoveDir, Rmdir,
       supOnly, lockVars, groupVars, timeVars, Polled, TimeLeft, Course, FilesOK, CtlOK,
       Young, Up
  <2>14. QED
    BY <2>2, <2>3, <2>4, <2>5, <2>6, <2>7, <2>8, <2>9, <2>10, <2>11, <2>12, <2>13
<1>15. CASE SupExits
  <2>1. FlagsOK' /\ FilesOK' /\ CtlOK'
    BY <1>15, Frame DEF SupExits, supOnly, fileVars, groupVars, timeVars
  <2>2. LocksOK'
    BY <1>15 DEF SupExits, supOnly, fileVars, groupVars, timeVars, LocksOK, Process, Holding
  <2>3. PlacesOK'
    BY <1>15 DEF SupExits, supOnly, fileVars, groupVars, timeVars, PlacesOK, SupPC, DogPC
  <2>4. Course'
    BY <1>15 DEF SupExits, supOnly, fileVars, groupVars, timeVars, Course, PlacesOK, SupPC,
       DogPC, Young, Up, Watches
  <2>5. Holding'
    BY <1>15, ControlAssumption DEF SupExits, supOnly, fileVars, groupVars, timeVars,
       Holding, CtlOK, LocksOK, Process
  <2>6. OneLock'
    BY <1>15, ControlAssumption DEF SupExits, supOnly, fileVars, groupVars, timeVars,
       OneLock, Course, Holding, LocksOK, CtlOK, Process, Intact, Young, Up, Watches
  <2>7. Kept'
    BY <1>15 DEF SupExits, supOnly, fileVars, groupVars, timeVars, Kept, Course, OneLock,
       FilesOK, FlagsOK, CtlOK, Intact, Young, Up, Watches
  <2>8. Fresh'
    BY <1>15 DEF SupExits, supOnly, fileVars, groupVars, timeVars, Fresh, Accepted, Course,
       Holding, FilesOK, CtlOK, Intact, Young, Up, Watches
  <2>9. Recorded'
    BY <1>15 DEF SupExits, supOnly, fileVars, groupVars, timeVars, Recorded, Course,
       FilesOK, Young, Up
  <2>10. Marked'
    BY <1>15 DEF SupExits, supOnly, fileVars, groupVars, timeVars, Marked, Course, FilesOK,
       Intact, Young, Up, Watches
  <2>11. Polled'
    BY <1>15 DEF SupExits, supOnly, fileVars, groupVars, timeVars, Polled, TimeLeft,
       Course, FilesOK, CtlOK, Young, Up
  <2>12. QED
    BY <2>1, <2>2, <2>3, <2>4, <2>5, <2>6, <2>7, <2>8, <2>9, <2>10, <2>11
<1>16. QED
  BY <1>1, <1>2, <1>3, <1>4, <1>5, <1>6, <1>7, <1>8, <1>9, <1>10, <1>11, <1>12, <1>13,
     <1>14, <1>15

\* The watchdog.
LEMMA DogKeeps ==
    ASSUME IInv,
           \/ DogStarts \/ DogPolls \/ DogMarks \/ DogTerminates
           \/ DogGraceEnds \/ DogCleans
    PROVE  IInv'
<1> USE DEF IInv
<1>1. CASE DogStarts
  <2>1. dir => /\ lockIno' \in Nat \ {0} /\ ino' \in [Process -> Nat]
               /\ ino'["dog"] = lockIno' /\ \A q \in Process \ {"dog"} : ino'[q] = ino[q]
               /\ lockIno # 0 => lockIno' = lockIno
    BY <1>1, Opened DEF DogStarts, Process
  <2>2. FlagsOK' /\ CtlOK' /\ Recorded'
    BY <1>1, Frame DEF DogStarts, dogOnly, groupVars, timeVars
  <2>3. FilesOK'
    BY <1>1, <2>1 DEF DogStarts, dogOnly, groupVars, timeVars, FilesOK, State, CtlOK
  <2>4. LocksOK'
    BY <1>1, <2>1 DEF DogStarts, dogOnly, groupVars, timeVars, LocksOK, Process, Holding
  <2>5. PlacesOK'
    BY <1>1, <2>1 DEF DogStarts, dogOnly, groupVars, timeVars, PlacesOK, SupPC, DogPC
  <2>6. Course'
    BY <1>1, <2>1 DEF DogStarts, dogOnly, groupVars, timeVars, Course, PlacesOK, SupPC,
       DogPC, Young, Up, Watches
  <2>7. Holding'
    BY <1>1, <2>1, ControlAssumption DEF DogStarts, dogOnly, groupVars, timeVars, Holding,
       CtlOK, LocksOK, Process
  <2>8. OneLock'
    BY <1>1, <2>1, ControlAssumption DEF DogStarts, dogOnly, groupVars, timeVars, OneLock,
       Course, Holding, LocksOK, CtlOK, Process, Intact, Young, Up, Watches
  <2>9. Kept'
    BY <1>1, <2>1 DEF DogStarts, dogOnly, groupVars, timeVars, Kept, Course, OneLock,
       FilesOK, FlagsOK, CtlOK, Intact, Young, Up, Watches
  <2>10. Fresh'
    BY <1>1, <2>1 DEF DogStarts, dogOnly, groupVars, timeVars, Fresh, Accepted, Course,
       Holding, FilesOK, CtlOK, Intact, Young, Up, Watches
  <2>11. Marked'
    BY <1>1, <2>1 DEF DogStarts, dogOnly, groupVars, timeVars, Marked, Course, FilesOK,
       Intact, Young, Up, Watches
  <2>12. Polled'
    BY <1>1, <2>1 DEF DogStarts, dogOnly, groupVars, timeVars, Polled, TimeLeft, Course,
       FilesOK, CtlOK, Young, Up
  <2>13. QED
    BY <2>2, <2>3, <2>4, <2>5, <2>6, <2>7, <2>8, <2>9, <2>10, <2>11, <2>12
<1>2. CASE DogPolls
  <2>1. Intact => held = {}
    BY <1>2, Free DEF DogPolls, Process, Watches
  <2>2. Intact => \A k \in Control : ctl[k].pc # "writing"
    BY <2>1 DEF Holding
  <2>3. dog' = "polling" => st # None /\ st \in State /\ st.left > 0
    BY <1>2 DEF DogPolls, FilesOK, State
  <2>4. FlagsOK' /\ FilesOK' /\ CtlOK' /\ Recorded'
    BY <1>2, Frame DEF DogPolls, dogOnly, fileVars, groupVars
  <2>5. LocksOK'
    BY <1>2, <2>1, <2>2, <2>3 DEF DogPolls, dogOnly, fileVars, groupVars, LocksOK, Process,
       Holding
  <2>6. PlacesOK'
    BY <1>2, <2>1, <2>2, <2>3 DEF DogPolls, dogOnly, fileVars, groupVars, PlacesOK, SupPC,
       DogPC
  <2>7. Course'
    BY <1>2, <2>1, <2>2, <2>3 DEF DogPolls, dogOnly, fileVars, groupVars, Course, PlacesOK,
       SupPC, DogPC, Young, Up, Watches
  <2>8. Holding'
    BY <1>2, <2>1, <2>2, <2>3, ControlAssumption DEF DogPolls, dogOnly, fileVars,
       groupVars, Holding, CtlOK, LocksOK, Process
  <2>9. OneLock'
    BY <1>2, <2>1, <2>2, <2>3, ControlAssumption DEF DogPolls, dogOnly, fileVars,
       groupVars, OneLock, Course, Holding, LocksOK, CtlOK, Process, Intact, Young, Up,
       Watches
  <2>10. Kept'
    BY <1>2, <2>1, <2>2, <2>3 DEF DogPolls, dogOnly, fileVars, groupVars, Kept, Course,
       OneLock, FilesOK, FlagsOK, CtlOK, Intact, Young, Up, Watches
  <2>11. Fresh'
    BY <1>2, <2>1, <2>2, <2>3 DEF DogPolls, dogOnly, fileVars, groupVars, Fresh, Accepted,
       Course, Holding, FilesOK, CtlOK, Intact, Young, Up, Watches
  <2>12. Marked'
    BY <1>2, <2>1, <2>2, <2>3 DEF DogPolls, dogOnly, fileVars, groupVars, Marked, Course,
       FilesOK, Intact, Young, Up, Watches
  <2>13. Polled'
    BY <1>2, <2>1, <2>2, <2>3 DEF DogPolls, dogOnly, fileVars, groupVars, Polled, TimeLeft,
       Course, FilesOK, CtlOK, Young, Up, Intact
  <2>14. QED
    BY <2>4, <2>5, <2>6, <2>7, <2>8, <2>9, <2>10, <2>11, <2>12, <2>13
<1>3. CASE DogMarks
  <2>1. Intact => held = {"dog"}
    BY <1>3 DEF DogMarks, Holding, OneLock, LocksOK
  <2>2. [state |-> "stopping", left |-> 0, payload |-> TRUE] \in State
    BY TTLAssumption DEF State
  <2>3. dir => st' = [state |-> "stopping", left |-> 0, payload |-> TRUE]
    BY <1>3 DEF DogMarks
  <2>4. dir => st' \in State /\ st' # None /\ st'.payload /\ st'.state = "stopping"
    BY <2>2, <2>3, NoneAssumption DEF State
  <2>5. Intact => \A k \in Control : ctl[k].pc # "writing"
    BY <2>1, ControlAssumption DEF Holding
  <2>6. sup \notin Young \union {"forked", "recorded"}
    BY <1>3 DEF DogMarks, Course
  <2>7. leader = "alive" => dog' # "polling" /\ sup \notin {"forked"}
    BY <1>3 DEF DogMarks, Course
  <2>8. "dog" \in polled => dog' \notin {"none", "starting"}
    BY <1>3 DEF DogMarks
  <2>9. FlagsOK' /\ CtlOK'
    BY <1>3, Frame DEF DogMarks, dogOnly, groupVars, timeVars
  <2>10. FilesOK'
    BY <1>3, <2>1, <2>2, <2>3, <2>4, <2>5, <2>6, <2>7, <2>8 DEF DogMarks, dogOnly,
       groupVars, timeVars, FilesOK, State, CtlOK
  <2>11. LocksOK'
    BY <1>3, <2>1, <2>2, <2>3, <2>4, <2>5, <2>6, <2>7, <2>8 DEF DogMarks, dogOnly,
       groupVars, timeVars, LocksOK, Process, Holding
  <2>12. PlacesOK'
    BY <1>3, <2>1, <2>2, <2>3, <2>4, <2>5, <2>6, <2>7, <2>8 DEF DogMarks, dogOnly,
       groupVars, timeVars, PlacesOK, SupPC, DogPC
  <2>13. Course'
    BY <1>3, <2>1, <2>2, <2>3, <2>4, <2>5, <2>6, <2>7, <2>8 DEF DogMarks, dogOnly,
       groupVars, timeVars, Course, PlacesOK, SupPC, DogPC, Young, Up, Watches
  <2>14. Holding'
    BY <1>3, <2>1, <2>2, <2>3, <2>4, <2>5, <2>6, <2>7, <2>8,
       ControlAssumption DEF DogMarks, dogOnly, groupVars, timeVars, Holding, CtlOK,
       LocksOK, Process
  <2>15. OneLock'
    BY <1>3, <2>1, <2>2, <2>3, <2>4, <2>5, <2>6, <2>7, <2>8,
       ControlAssumption DEF DogMarks, dogOnly, groupVars, timeVars, OneLock, Course,
       Holding, LocksOK, CtlOK, Process, Intact, Young, Up, Watches
  <2>16. Kept'
    BY <1>3, <2>1, <2>2, <2>3, <2>4, <2>5, <2>6, <2>7, <2>8 DEF DogMarks, dogOnly,
       groupVars, timeVars, Kept, Course, OneLock, FilesOK, FlagsOK, CtlOK, Intact, Young,
       Up, Watches
  <2>17. Fresh'
    BY <1>3, <2>1, <2>2, <2>3, <2>4, <2>5, <2>6, <2>7, <2>8 DEF DogMarks, dogOnly,
       groupVars, timeVars, Fresh, Accepted, Course, Holding, FilesOK, CtlOK, Intact,
       Young, Up, Watches
  <2>18. Recorded'
    BY <1>3, <2>1, <2>2, <2>3, <2>4, <2>5, <2>6, <2>7, <2>8 DEF DogMarks, dogOnly,
       groupVars, timeVars, Recorded, Course, FilesOK, Young, Up, Kept, Intact
  <2>19. Marked'
    BY <1>3, <2>1, <2>2, <2>3, <2>4, <2>5, <2>6, <2>7, <2>8 DEF DogMarks, dogOnly,
       groupVars, timeVars, Marked, Course, FilesOK, Intact, Young, Up, Watches
  <2>20. Polled'
    BY <1>3, <2>1, <2>2, <2>3, <2>4, <2>5, <2>6, <2>7, <2>8 DEF DogMarks, dogOnly,
       groupVars, timeVars, Polled, TimeLeft, Course, FilesOK, CtlOK, Young, Up, Intact,
       Marked
  <2>21. QED
    BY <2>9, <2>10, <2>11, <2>12, <2>13, <2>14, <2>15, <2>16, <2>17, <2>18, <2>19, <2>20
<1>4. CASE DogTerminates
  <2>1. FlagsOK' /\ FilesOK' /\ LocksOK' /\ CtlOK'
    BY <1>4, Frame DEF DogTerminates, TermGroup, GroupValid, dogOnly, fileVars, lockVars,
       timeVars
  <2>2. PlacesOK'
    BY <1>4 DEF DogTerminates, TermGroup, GroupValid, dogOnly, fileVars, lockVars,
       timeVars, PlacesOK, SupPC, DogPC
  <2>3. Course'
    BY <1>4 DEF DogTerminates, TermGroup, GroupValid, dogOnly, fileVars, lockVars,
       timeVars, Course, PlacesOK, SupPC, DogPC, Young, Up, Watches
  <2>4. Holding'
    BY <1>4, ControlAssumption DEF DogTerminates, TermGroup, GroupValid, dogOnly, fileVars,
       lockVars, timeVars, Holding, CtlOK, LocksOK, Process
  <2>5. OneLock'
    BY <1>4, ControlAssumption DEF DogTerminates, TermGroup, GroupValid, dogOnly, fileVars,
       lockVars, timeVars, OneLock, Course, Holding, LocksOK, CtlOK, Process, Intact,
       Young, Up, Watches
  <2>6. Kept'
    BY <1>4 DEF DogTerminates, TermGroup, GroupValid, dogOnly, fileVars, lockVars,
       timeVars, Kept, Course, OneLock, FilesOK, FlagsOK, CtlOK, Intact, Young, Up, Watches
  <2>7. Fresh'
    BY <1>4 DEF DogTerminates, TermGroup, GroupValid, dogOnly, fileVars, lockVars,
       timeVars, Fresh, Accepted, Course, Holding, FilesOK, CtlOK, Intact, Young, Up,
       Watches
  <2>8. Recorded'
    BY <1>4 DEF DogTerminates, TermGroup, GroupValid, dogOnly, fileVars, lockVars,
       timeVars, Recorded, Course, FilesOK, Young, Up
  <2>9. Marked'
    BY <1>4 DEF DogTerminates, TermGroup, GroupValid, dogOnly, fileVars, lockVars,
       timeVars, Marked, Course, FilesOK, Intact, Young, Up, Watches
  <2>10. Polled'
    BY <1>4 DEF DogTerminates, TermGroup, GroupValid, dogOnly, fileVars, lockVars,
       timeVars, Polled, TimeLeft, Course, FilesOK, CtlOK, Young, Up
  <2>11. QED
    BY <2>1, <2>2, <2>3, <2>4, <2>5, <2>6, <2>7, <2>8, <2>9, <2>10
<1>5. CASE DogGraceEnds
  <2>1. FlagsOK' /\ FilesOK' /\ LocksOK' /\ CtlOK'
    BY <1>5, Frame DEF DogGraceEnds, KillGroup, GroupValid, dogOnly, fileVars, lockVars,
       timeVars
  <2>2. PlacesOK'
    BY <1>5 DEF DogGraceEnds, KillGroup, GroupValid, dogOnly, fileVars, lockVars, timeVars,
       PlacesOK, SupPC, DogPC
  <2>3. Course'
    BY <1>5 DEF DogGraceEnds, KillGroup, GroupValid, dogOnly, fileVars, lockVars, timeVars,
       Course, PlacesOK, SupPC, DogPC, Young, Up, Watches
  <2>4. Holding'
    BY <1>5, ControlAssumption DEF DogGraceEnds, KillGroup, GroupValid, dogOnly, fileVars,
       lockVars, timeVars, Holding, CtlOK, LocksOK, Process
  <2>5. OneLock'
    BY <1>5, ControlAssumption DEF DogGraceEnds, KillGroup, GroupValid, dogOnly, fileVars,
       lockVars, timeVars, OneLock, Course, Holding, LocksOK, CtlOK, Process, Intact,
       Young, Up, Watches
  <2>6. Kept'
    BY <1>5 DEF DogGraceEnds, KillGroup, GroupValid, dogOnly, fileVars, lockVars, timeVars,
       Kept, Course, OneLock, FilesOK, FlagsOK, CtlOK, Intact, Young, Up, Watches
  <2>7. Fresh'
    BY <1>5 DEF DogGraceEnds, KillGroup, GroupValid, dogOnly, fileVars, lockVars, timeVars,
       Fresh, Accepted, Course, Holding, FilesOK, CtlOK, Intact, Young, Up, Watches
  <2>8. Recorded'
    BY <1>5 DEF DogGraceEnds, KillGroup, GroupValid, dogOnly, fileVars, lockVars, timeVars,
       Recorded, Course, FilesOK, Young, Up
  <2>9. Marked'
    BY <1>5 DEF DogGraceEnds, KillGroup, GroupValid, dogOnly, fileVars, lockVars, timeVars,
       Marked, Course, FilesOK, Intact, Young, Up, Watches
  <2>10. Polled'
    BY <1>5 DEF DogGraceEnds, KillGroup, GroupValid, dogOnly, fileVars, lockVars, timeVars,
       Polled, TimeLeft, Course, FilesOK, CtlOK, Young, Up
  <2>11. QED
    BY <2>1, <2>2, <2>3, <2>4, <2>5, <2>6, <2>7, <2>8, <2>9, <2>10
<1>6. CASE DogCleans
  <2>1. leader # "alive"
    BY <1>6 DEF DogCleans, CleanupStep, Course, Watches
  <2>2. LocksOK' /\ CtlOK'
    BY <1>6, Frame DEF DogCleans, CleanupStep, UnlinkState, UnlinkLocks, RemoveDir, Rmdir,
       dogOnly, lockVars, groupVars, timeVars
  <2>3. FlagsOK'
    BY <1>6, <2>1 DEF DogCleans, CleanupStep, UnlinkState, UnlinkLocks, RemoveDir, Rmdir,
       dogOnly, lockVars, groupVars, timeVars, FlagsOK
  <2>4. FilesOK'
    BY <1>6, <2>1 DEF DogCleans, CleanupStep, UnlinkState, UnlinkLocks, RemoveDir, Rmdir,
       dogOnly, lockVars, groupVars, timeVars, FilesOK, State, CtlOK
  <2>5. PlacesOK'
    BY <1>6, <2>1 DEF DogCleans, CleanupStep, UnlinkState, UnlinkLocks, RemoveDir, Rmdir,
       dogOnly, lockVars, groupVars, timeVars, PlacesOK, SupPC, DogPC
  <2>6. Course'
    BY <1>6, <2>1 DEF DogCleans, CleanupStep, UnlinkState, UnlinkLocks, RemoveDir, Rmdir,
       dogOnly, lockVars, groupVars, timeVars, Course, PlacesOK, SupPC, DogPC, Young, Up,
       Watches
  <2>7. Holding'
    BY <1>6, <2>1, ControlAssumption DEF DogCleans, CleanupStep, UnlinkState, UnlinkLocks,
       RemoveDir, Rmdir, dogOnly, lockVars, groupVars, timeVars, Holding, CtlOK, LocksOK,
       Process
  <2>8. OneLock'
    BY <1>6, <2>1, ControlAssumption DEF DogCleans, CleanupStep, UnlinkState, UnlinkLocks,
       RemoveDir, Rmdir, dogOnly, lockVars, groupVars, timeVars, OneLock, Course, Holding,
       LocksOK, CtlOK, Process, Intact, Young, Up, Watches
  <2>9. Kept'
    BY <1>6, <2>1 DEF DogCleans, CleanupStep, UnlinkState, UnlinkLocks, RemoveDir, Rmdir,
       dogOnly, lockVars, groupVars, timeVars, Kept, Course, OneLock, FilesOK, FlagsOK,
       CtlOK, Intact, Young, Up, Watches
  <2>10. Fresh'
    BY <1>6, <2>1 DEF DogCleans, CleanupStep, UnlinkState, UnlinkLocks, RemoveDir, Rmdir,
       dogOnly, lockVars, groupVars, timeVars, Fresh, Accepted, Course, Holding, FilesOK,
       CtlOK, Intact, Young, Up, Watches
  <2>11. Recorded'
    BY <1>6, <2>1 DEF DogCleans, CleanupStep, UnlinkState, UnlinkLocks, RemoveDir, Rmdir,
       dogOnly, lockVars, groupVars, timeVars, Recorded, Course, FilesOK, Young, Up
  <2>12. Marked'
    BY <1>6, <2>1 DEF DogCleans, CleanupStep, UnlinkState, UnlinkLocks, RemoveDir, Rmdir,
       dogOnly, lockVars, groupVars, timeVars, Marked, Course, FilesOK, Intact, Young, Up,
       Watches
  <2>13. Polled'
    BY <1>6, <2>1 DEF DogCleans, CleanupStep, UnlinkState, UnlinkLocks, RemoveDir, Rmdir,
       dogOnly, lockVars, groupVars, timeVars, Polled, TimeLeft, Course, FilesOK, CtlOK,
       Young, Up
  <2>14. QED
    BY <2>2, <2>3, <2>4, <2>5, <2>6, <2>7, <2>8, <2>9, <2>10, <2>11, <2>12, <2>13
<1>7. QED
  BY <1>1, <1>2, <1>3, <1>4, <1>5, <1>6

\* Time.
LEMMA TickKeeps ==
    ASSUME IInv,
           \/ Tick
    PROVE  IInv'
<1> USE DEF IInv
<1>1. CASE Tick
  <2>1. st' = Aged(st) /\ st \in State \union {None}
    BY <1>1 DEF Tick, FilesOK
  <2>2. /\ st' \in State \union {None} /\ (st' = None <=> st = None)
        /\ st # None => /\ st' \in State /\ st'.state = st.state /\ st'.payload = st.payload
                         /\ st'.left = IF st.left = 0 THEN 0 ELSE st.left - 1
    BY <2>1, Ages
  <2>3. \A k \in Control :
          /\ ctl'[k].pc = ctl[k].pc /\ ctl'[k].act = ctl[k].act
          /\ ctl'[k].view = Aged(ctl[k].view) /\ ctl[k].view \in State \union {None}
    BY <1>1 DEF Tick, CtlOK
  <2>4. \A k \in Control :
          /\ ctl'[k].view \in State \union {None}
          /\ ctl[k].pc = "writing" => /\ ctl'[k].view \in State
                                       /\ ctl'[k].view.state = ctl[k].view.state
                                       /\ ctl'[k].view.payload = ctl[k].view.payload
    BY <2>3, Ages, NoneAssumption DEF CtlOK
  <2>5. LocksOK'
    BY <1>1, Frame DEF Tick, Prompt, lockVars, groupVars
  <2>6. FlagsOK'
    BY <1>1, <2>1, <2>2, <2>3, <2>4 DEF Tick, Prompt, lockVars, groupVars, FlagsOK
  <2>7. FilesOK'
    BY <1>1, <2>1, <2>2, <2>3, <2>4 DEF Tick, Prompt, lockVars, groupVars, FilesOK, State,
       CtlOK
  <2>8. PlacesOK'
    BY <1>1, <2>1, <2>2, <2>3, <2>4 DEF Tick, Prompt, lockVars, groupVars, PlacesOK, SupPC,
       DogPC
  <2>9. CtlOK'
    BY <1>1, <2>1, <2>2, <2>3, <2>4, ZenonT(40) DEF Tick, Prompt, lockVars, groupVars, CtlOK, FilesOK,
       State
  <2>10. Course'
    BY <1>1, <2>1, <2>2, <2>3, <2>4 DEF Tick, Prompt, lockVars, groupVars, Course,
       PlacesOK, SupPC, DogPC, Young, Up, Watches
  <2>11. Holding'
    BY <1>1, <2>1, <2>2, <2>3, <2>4, ControlAssumption DEF Tick, Prompt, lockVars,
       groupVars, Holding, CtlOK, LocksOK, Process
  <2>12. OneLock'
    BY <1>1, <2>1, <2>2, <2>3, <2>4, ControlAssumption DEF Tick, Prompt, lockVars,
       groupVars, OneLock, Course, Holding, LocksOK, CtlOK, Process, Intact, Young, Up,
       Watches
  <2>13. Kept'
    BY <1>1, <2>1, <2>2, <2>3, <2>4 DEF Tick, Prompt, lockVars, groupVars, Kept, Course,
       OneLock, FilesOK, FlagsOK, CtlOK, Intact, Young, Up, Watches
  <2>14. Fresh'
    BY <1>1, <2>1, <2>2, <2>3, <2>4 DEF Tick, Prompt, lockVars, groupVars, Fresh, Accepted,
       Course, Holding, FilesOK, CtlOK, Intact, Young, Up, Watches
  <2>15. Recorded'
    BY <1>1, <2>1, <2>2, <2>3, <2>4 DEF Tick, Prompt, lockVars, groupVars, Recorded,
       Course, FilesOK, Young, Up
  <2>16. Marked'
    BY <1>1, <2>1, <2>2, <2>3, <2>4 DEF Tick, Prompt, lockVars, groupVars, Marked, Course,
       FilesOK, Intact, Young, Up, Watches
  <2>17. Polled'
    BY <1>1, <2>1, <2>2, <2>3, <2>4 DEF Tick, Prompt, lockVars, groupVars, Polled,
       TimeLeft, Course, FilesOK, CtlOK, Young, Up, Prompt
  <2>18. QED
    BY <2>5, <2>6, <2>7, <2>8, <2>9, <2>10, <2>11, <2>12, <2>13, <2>14, <2>15, <2>16, <2>17
<1>2. QED
  BY <1>1

-----------------------------------------------------------------------------
(* The theorems                                                              *)

\* The inductive invariant.
THEOREM LeaseInvariant == Spec => []IInv
<1>1. Init => IInv
  <2>1. Init => FlagsOK /\ LocksOK
    <3>1. Init => FlagsOK
      BY DEF Init, FlagsOK
    <3>2. Init => LocksOK
      BY DEF Init, LocksOK
    <3>3. QED
      BY <3>1, <3>2
  <2>2. Init => FilesOK /\ PlacesOK /\ CtlOK
    BY DEF Init, FilesOK, PlacesOK, CtlOK, SupPC, DogPC, Idle
  <2>3. Init => Course /\ Holding /\ OneLock /\ Kept
    BY DEF Init, Course, Holding, OneLock, Kept, Idle, Young, Up, Watches, Process
  <2>4. Init => Fresh /\ Recorded /\ Marked /\ Polled
    BY DEF Init, Fresh, Recorded, Marked, Polled, Idle
  <2>5. QED
    BY <2>1, <2>2, <2>3, <2>4 DEF IInv
<1>2. IInv /\ [Next]_vars => IInv'
  <2> SUFFICES ASSUME IInv, [Next]_vars
               PROVE  IInv'
    OBVIOUS
  <2>1. CASE ClientNext
    BY <2>1, HandleKeeps, SendsKeep DEF ClientNext
  <2>2. CASE BootNext
    BY <2>2, BootKeeps DEF BootNext
  <2>3. CASE \E k \in Control : CtlLost(k) \/ CtlNext(k)
    BY <2>3, CtlKeeps DEF CtlNext
  <2>4. CASE LeaderExits \/ LeaderForks \/ InitReaps
    BY <2>4, GroupKeeps
  <2>5. CASE SupNext \/ SupSignalled \/ SupCrash
    BY <2>5, SupKeeps DEF SupNext
  <2>6. CASE DogNext
    BY <2>6, DogKeeps DEF DogNext
  <2>7. CASE Tick
    BY <2>7, TickKeeps
  <2>8. CASE UNCHANGED vars
    BY <2>8, Frame DEF IInv, vars, fileVars, lockVars, groupVars, timeVars
  <2>9. QED
    BY <2>1, <2>2, <2>3, <2>4, <2>5, <2>6, <2>7, <2>8 DEF Next
<1>3. QED
  BY <1>1, <1>2, PTL DEF Spec

\* A lease that is running or stopping names its payload as long as it lives.
THEOREM LeaseRunningIsRecorded == Spec => []RunningIsRecorded
<1>1. IInv => RunningIsRecorded
  BY DEF IInv, FlagsOK, FilesOK, LocksOK, PlacesOK, CtlOK, Recorded, RunningIsRecorded,
     TypeOK
<1>2. QED
  BY <1>1, LeaseInvariant, PTL

-----------------------------------------------------------------------------
(* What no step does                                                         *)

\* Who writes the state, who launches, and who lets time pass.
LEMMA Writers ==
    ASSUME [Next]_vars
    PROVE  /\ \/ st' = st \/ SupWriteStarting \/ SupRecord \/ SupPoll \/ SupCleans
              \/ DogMarks \/ DogCleans \/ Tick \/ \E k \in Control : CtlWrite(k)
           /\ leader = "none" => leader' = "none" \/ SupLaunch \/ SupReaps \/ SupRecordFails
                                 \/ SupTerminates \/ SupGraceEnds
           /\ epoch' = epoch \/ Tick
<1>1. CASE ClientNext
  <2>1. UNCHANGED <<st, leader, epoch>>
    BY <1>1 DEF ClientNext, Prepare, Launch, StartHeartbeat, FinishNatural, ClientCrash,
          PrepareTimesOut, SendBeat, Stop, Send, clientOnly, fileVars, groupVars, timeVars
  <2>2. QED
    BY <2>1
<1>2. CASE BootNext
  <2>1. UNCHANGED <<st, leader, epoch>>
    BY <1>2 DEF BootNext, Deliver, BootGivesUp, groupVars, timeVars
  <2>2. QED
    BY <2>1
<1>3. CASE \E k \in Control : CtlLost(k) \/ CtlNext(k)
  <2>1. UNCHANGED <<leader, epoch>>
    BY <1>3 DEF CtlNext, CtlLost, CtlOpen, CtlRead, CtlWrite, CtlEnd, ctlOnly, groupVars,
          timeVars
  <2>2. st' = st \/ \E k \in Control : CtlWrite(k)
    BY <1>3 DEF CtlNext, CtlLost, CtlOpen, CtlRead, CtlEnd, fileVars
  <2>3. QED
    BY <2>1, <2>2
<1>4. CASE LeaderExits \/ LeaderForks \/ InitReaps
  <2>1. UNCHANGED <<st, epoch>> /\ (leader = "none" => leader' = "none")
    BY <1>4 DEF LeaderExits, LeaderForks, InitReaps, fileVars, timeVars
  <2>2. QED
    BY <2>1
<1>5. CASE SupNext \/ SupSignalled \/ SupCrash
  <2>1. epoch' = epoch
    BY <1>5 DEF SupNext, SupStart, SupReadFails, SupWriteStarting, SupLaunch,
       SupRecordFails,
          SupRecord, SupForksDog, SupReaps, SupPoll, SupTerminates, SupGraceEnds, SupCleans,
          SupExits, SupSignalled, SupCrash, timeVars
  <2>2. st' = st \/ SupWriteStarting \/ SupRecord \/ SupPoll \/ SupCleans
    BY <1>5 DEF SupNext, SupStart, SupReadFails, SupLaunch, SupRecordFails, SupForksDog,
          SupReaps, SupTerminates, SupGraceEnds, SupExits, SupSignalled, SupCrash, fileVars
  <2>3. leader' = leader \/ SupLaunch \/ SupReaps \/ SupRecordFails \/ SupTerminates
           \/ SupGraceEnds
    BY <1>5 DEF SupNext, SupStart, SupReadFails, SupWriteStarting, SupRecord, SupForksDog,
          SupPoll, SupCleans, SupExits, SupSignalled, SupCrash, groupVars
  <2>4. QED
    BY <2>1, <2>2, <2>3
<1>6. CASE DogNext
  <2>1. epoch' = epoch
    BY <1>6 DEF DogNext, DogStarts, DogPolls, DogMarks, DogTerminates, DogGraceEnds,
          DogCleans, timeVars
  <2>2. st' = st \/ DogMarks \/ DogCleans
    BY <1>6 DEF DogNext, DogStarts, DogPolls, DogTerminates, DogGraceEnds, fileVars
  <2>3. leader = "none" => leader' = "none"
    BY <1>6 DEF DogNext, DogStarts, DogPolls, DogMarks, DogTerminates, DogGraceEnds,
          DogCleans, TermGroup, KillGroup, GroupValid, groupVars
  <2>4. QED
    BY <2>1, <2>2, <2>3
<1>7. CASE Tick
  BY <1>7 DEF Tick, groupVars
<1>8. CASE UNCHANGED vars
  BY <1>8 DEF vars, fileVars, groupVars, timeVars
<1>9. QED
  BY <1>1, <1>2, <1>3, <1>4, <1>5, <1>6, <1>7, <1>8 DEF Next

\* A stop on record is never taken back: every writer of the state either
\* keeps "stopping" or cannot be where it would have to be.
THEOREM LeaseStopIsObeyed == Spec => StopIsObeyed
<1> DEFINE Obeyed == st # None /\ st.state = "stopping" =>
                       /\ leader = "none" => leader' = "none"
                       /\ leader = "alive" => st' # None /\ st'.state = "stopping"
<1>1. IInv /\ [Next]_vars => Obeyed
  <2> SUFFICES ASSUME IInv, [Next]_vars, st # None, st.state = "stopping"
               PROVE  /\ leader = "none" => leader' = "none"
                      /\ leader = "alive" => st' # None /\ st'.state = "stopping"
    OBVIOUS
  <2> USE DEF IInv
  <2>1. ASSUME leader = "none"
        PROVE  leader' = "none"
    <3>1. SupLaunch => leader' = leader
      BY DEF SupLaunch
    <3>2. ~SupReaps
      BY <2>1 DEF SupReaps
    <3>3. ~SupRecordFails
      BY DEF SupRecordFails, Recorded
    <3>4. ~SupTerminates /\ ~SupGraceEnds
      BY <2>1 DEF SupTerminates, SupGraceEnds, Course, Up
    <3>5. QED
      BY <2>1, <3>1, <3>2, <3>3, <3>4, Writers
  <2>2. ASSUME leader = "alive"
        PROVE  st' # None /\ st'.state = "stopping"
    <3>1. Intact
      BY <2>2 DEF Intact
    <3>2. CASE st' = st
      BY <3>2
    <3>3. CASE SupWriteStarting \/ SupRecord \/ SupCleans \/ DogCleans
      BY <3>3, <2>2 DEF SupWriteStarting, SupRecord, SupCleans, DogCleans, CleanupStep,
            Course, Recorded, Young, Up, Watches
    <3>4. CASE SupPoll
      BY <3>4 DEF SupPoll
    <3>5. CASE DogMarks
      BY <3>5, <3>1 DEF DogMarks, Marked
    <3>6. CASE \E k \in Control : CtlWrite(k)
      <4>1. PICK k \in Control : CtlWrite(k)
        BY <3>6
      <4>2. ctl[k].view \in State /\ ctl[k].view.state = "stopping" /\ dir
        BY <4>1, <3>1, <2>2 DEF CtlWrite, Fresh, Accepted, CtlOK, Kept
      <4>3. QED
        BY <4>1, <4>2, NoneAssumption DEF CtlWrite
    <3>7. CASE Tick
      BY <3>7, Ages DEF Tick, FilesOK
    <3>8. QED
      BY <3>2, <3>3, <3>4, <3>5, <3>6, <3>7, Writers
  <2>3. QED
    BY <2>1, <2>2
<1>2. QED
  BY <1>1, LeaseInvariant, PTL DEF Spec, StopIsObeyed

\* A control that writes finds the state it has read.
THEOREM LeaseNoLostUpdate == Spec => NoLostUpdate
<1>1. IInv => \A k \in Control :
          ctl[k].pc = "writing" /\ ctl'[k].pc = "done" /\ leader = "alive" =>
              st # None /\ Accepted(ctl[k].act) /\ ctl[k].view.payload = st.payload
  BY DEF IInv, Fresh, Intact
<1>2. QED
  BY <1>1, LeaseInvariant, PTL DEF Spec, NoLostUpdate

\* A tick finds time left in the lease of a monitored payload.
THEOREM LeaseNoOverrun == Spec => NoOverrun
<1>1. IInv /\ [Next]_vars =>
          (epoch' # epoch /\ leader = "alive" /\ Monitored => st # None /\ st.left > 0)
  BY Writers DEF IInv, Tick, Prompt, Monitored, Polled, TimeLeft
<1>2. QED
  BY <1>1, LeaseInvariant, PTL DEF Spec, NoOverrun

=============================================================================
