------------------------- MODULE PtyRegistry_proofs -------------------------
(***************************************************************************)
(* Theorems about PtyRegistry for any finite set of spawn calls and any    *)
(* kills, detaches and shutdowns: its permits implement the start gate, a  *)
(* session has one owner as long as it needs one, and shutdown is final.   *)
(***************************************************************************)
EXTENDS PtyRegistry, FiniteSetTheorems, TLAPS

Permits == {s \in Session : spawn[s] \in Provisional}

\* The counter of the gate is the number of permits.
Counted == active = Cardinality(Permits)

SpawnOwns == {"resolving", "spawned", "opened", "rollback", "removed"}
ReaderOwns == {"reaping", "killing"}
Closes(c, s) == close[c].sid = s /\ close[c].pc \in {"tearing", "hangup"}

\* Neither a kill or detach nor a shutdown has the session.
Untaken(s) == (\A c \in Closer : ~Closes(c, s)) /\ (\A d \in Downer : s \notin drained[d])

\* The spawn call, the registry, the reader, a closer and a shutdown exclude
\* each other, and so do two closers and two shutdowns.
Exclusive ==
    \A s \in Session :
        /\ spawn[s] \in SpawnOwns \union {"idle"} =>
              s \notin sessions /\ reader[s] = "none" /\ Untaken(s)
        /\ s \in sessions => reader[s] \notin ReaderOwns /\ Untaken(s)
        /\ reader[s] \in ReaderOwns => Untaken(s)
        /\ \A c \in Closer : Closes(c, s) =>
              /\ \A d \in Downer : s \notin drained[d]
              /\ \A e \in Closer : Closes(e, s) => e = c
        /\ \A d, e \in Downer : s \in drained[d] /\ s \in drained[e] => d = e

\* Before the reader starts, and before the child does.
Young ==
    \A s \in Session : /\ spawn[s] = "registered" => reader[s] = "none"
                       /\ spawn[s] \in {"idle", "resolving"} => child[s] = "none"

\* A lease is a leased ssh's, and is over when its ssh has been waited for or
\* shutdown has stopped it; finish_natural is the reader's word for an exit.
Leased ==
    /\ \A s \in Session :
        /\ lease[s] # "none" => kind[s] = "remote"
        /\ reader[s] \in {"eof", "reaping"} /\ kind[s] = "remote" =>
              child[s] \in {"exited", "reaped"}
        /\ child[s] = "reaped" => lease[s] # "held"
        /\ lease[s] = "finished" => child[s] \in {"exited", "reaped"}
    /\ \A d \in Downer : down[d] \in {"reaping", "returned"} =>
          \A s \in drained[d] : lease[s] # "held"

Kept ==
    \A s \in Session : (Unreaped(s) \/ lease[s] = "held") =>
        \/ spawn[s] \in SpawnOwns \/ s \in sessions \/ reader[s] \in ReaderOwns
        \/ ~Untaken(s)
        \/ spawn[s] = "abandoned" /\ lease[s] # "held"

\* What each stage of a shutdown has behind it.
Shut ==
    \A d \in Downer :
        /\ down[d] # "idle" => closed
        /\ down[d] \notin {"leases", "reaping", "returned"} => drained[d] = {}
        /\ down[d] \in {"draining", "leases", "reaping", "returned"} => Permits = {}
        /\ down[d] \in {"leases", "reaping", "returned"} => sessions = {}

IInv == TypeOK /\ Counted /\ Exclusive /\ Young /\ Leased /\ Kept /\ Shut

-----------------------------------------------------------------------------
(* The steps                                                                 *)

\* Everything but the count of permits.
Rest == TypeOK /\ Exclusive /\ Young /\ Leased /\ Kept /\ Shut

\* The spawning call.
LEMMA SpawnKeeps ==
    ASSUME Rest, active' \in Nat, NEW s \in Session, SpawnNext(s)
    PROVE  Rest'
<1> USE DEF TypeOK, Exclusive, Young, Leased, Kept, Shut, Rest, Untaken, Closes, Unreaped,
        SpawnOwns, ReaderOwns, Permits, Provisional, gateVars, sessionVars, callVars
<1>1. CASE SpawnBegin(s)
  BY <1>1 DEF SpawnBegin, Goto, SpawnPC, ReaderPC
<1>2. CASE SpawnRefused(s)
  BY <1>2 DEF SpawnRefused, Goto, SpawnPC, ReaderPC
<1>3. CASE PrepareFails(s)
  BY <1>3 DEF PrepareFails, Return, Goto, Finalize, SpawnPC, ReaderPC
<1>4. CASE SpawnChild(s)
  BY <1>4 DEF SpawnChild, Goto, SpawnPC, ReaderPC
<1>5. CASE HeartbeatFails(s)
  BY <1>5 DEF HeartbeatFails, Return, Goto, TearDown, Finalize, Reap, SpawnPC, ReaderPC
<1>6. CASE HandlesFail(s)
  BY <1>6 DEF HandlesFail, Return, Goto, Finalize, SpawnPC, ReaderPC
<1>7. CASE OpenHandles(s)
  BY <1>7 DEF OpenHandles, Goto, SpawnPC, ReaderPC
<1>8. CASE Register(s)
  BY <1>8 DEF Register, Goto, SpawnPC, ReaderPC
<1>9. CASE Rollback(s)
  BY <1>9 DEF Rollback, Return, Goto, TearDown, Finalize, Reap, SpawnPC, ReaderPC
<1>10. CASE StartReader(s)
  BY <1>10 DEF StartReader, Goto, SpawnPC, ReaderPC
<1>11. CASE ReaderFails(s)
  BY <1>11 DEF ReaderFails, Goto, SpawnPC, ReaderPC
<1>12. CASE Remove(s)
  BY <1>12, SMTT(30) DEF Remove, Return, Goto, TearDown, Finalize, Reap, SpawnPC, ReaderPC
<1>13. CASE Attach(s)
  BY <1>13 DEF Attach, Goto, SpawnPC, ReaderPC
<1>14. CASE SpawnReturns(s)
  BY <1>14 DEF SpawnReturns, Return, Goto, SpawnPC, ReaderPC
<1>15. QED
  BY <1>1, <1>2, <1>3, <1>4, <1>5, <1>6, <1>7, <1>8, <1>9, <1>10, <1>11, <1>12, <1>13, <1>14
  DEF SpawnNext

\* The child and its reader.
LEMMA ReaderKeeps ==
    ASSUME Rest, NEW s \in Session, ReaderNext(s) \/ ChildExits(s) \/ EarlyEof(s) \/ ReadBreaks(s)
    PROVE  Rest'
<1> USE DEF TypeOK, Exclusive, Young, Leased, Kept, Shut, Rest, Untaken, Closes, Unreaped,
        SpawnOwns, ReaderOwns, Permits, Provisional, gateVars, sessionVars, callVars
<1>1. CASE Eof(s)
  BY <1>1 DEF Eof, ReaderStep, ReaderPC
<1>2. CASE ReaderRemoves(s)
  BY <1>2 DEF ReaderRemoves, ReaderPC
<1>3. CASE FinishNatural(s)
  BY <1>3 DEF FinishNatural, Finalize, ReaderPC
<1>4. CASE ReaderReaps(s)
  BY <1>4 DEF ReaderReaps, ReaderStep, Reap, ReaderPC
<1>5. CASE ReaderKills(s)
  BY <1>5 DEF ReaderKills, ReaderStep, TearDown, Finalize, Reap, ReaderPC
<1>6. CASE EmitExit(s)
  BY <1>6 DEF EmitExit, ReaderStep, ReaderPC
<1>7. CASE ChildExits(s)
  BY <1>7 DEF ChildExits, ReaderPC
<1>8. CASE EarlyEof(s)
  BY <1>8 DEF EarlyEof, ReaderStep, ReaderPC
<1>9. CASE ReadBreaks(s)
  BY <1>9 DEF ReadBreaks, ReaderStep, ReaderPC
<1>10. QED
  BY <1>1, <1>2, <1>3, <1>4, <1>5, <1>6, <1>7, <1>8, <1>9 DEF ReaderNext

\* kill and detach.
LEMMA CloserKeeps ==
    ASSUME Rest, NEW c \in Closer,
           CloserNext(c) \/ \E s \in Session, op \in {"kill", "detach"} : CloseCall(c, s, op)
    PROVE  Rest'
<1> USE DEF TypeOK, Exclusive, Young, Leased, Kept, Shut, Rest, Untaken, Closes, Unreaped,
        SpawnOwns, ReaderOwns, Permits, Provisional, gateVars, sessionVars, callVars
<1>1. CASE CloseTearsDown(c)
  <2> USE <1>1 DEF CloseTearsDown, CloseStep, TearDown, Finalize, Reap, ClosePC
  <2>1. TypeOK'
    <3>1. close' \in [Closer -> [pc : ClosePC, op : {"kill", "detach"},
                                sid : Session \union {NoSession}]]
      BY SMTT(30)
    <3>2. child' \in [Session -> {"none", "live", "exited", "reaped"}]
      OBVIOUS
    <3>3. lease' \in [Session -> {"none", "held", "stopped", "finished"}]
      OBVIOUS
    <3>4. QED
      BY <3>1, <3>2, <3>3
  <2>2. Exclusive' /\ Young'
    OBVIOUS
  <2>3. Leased' /\ Kept' /\ Shut'
    OBVIOUS
  <2>4. QED
    BY <2>1, <2>2, <2>3
<1>2. CASE Hangup(c)
  <2> USE <1>2 DEF Hangup, CloseStep, TearDown, Finalize, Reap, ClosePC
  <2>1. TypeOK'
    <3>1. close' \in [Closer -> [pc : ClosePC, op : {"kill", "detach"},
                                sid : Session \union {NoSession}]]
      BY SMTT(30)
    <3>2. child' \in [Session -> {"none", "live", "exited", "reaped"}]
      OBVIOUS
    <3>3. lease' \in [Session -> {"none", "held", "stopped", "finished"}]
      OBVIOUS
    <3>4. QED
      BY <3>1, <3>2, <3>3
  <2>2. Exclusive' /\ Young'
    OBVIOUS
  <2>3. Leased' /\ Kept' /\ Shut'
    OBVIOUS
  <2>4. QED
    BY <2>1, <2>2, <2>3
<1>3. CASE CloseReturns(c)
  <2> USE <1>3 DEF CloseReturns, CloseStep, ClosePC
  <2>1. TypeOK'
    BY SMTT(30)
  <2>2. Exclusive' /\ Young'
    OBVIOUS
  <2>3. Leased' /\ Kept' /\ Shut'
    OBVIOUS
  <2>4. QED
    BY <2>1, <2>2, <2>3
<1>4. ASSUME NEW s \in Session, NEW op \in {"kill", "detach"}, CloseCall(c, s, op) PROVE Rest'
  <2> USE <1>4 DEF CloseCall, ClosePC
  <2>1. TypeOK'
    OBVIOUS
  <2>2. Exclusive' /\ Young'
    OBVIOUS
  <2>3. Leased' /\ Kept' /\ Shut'
    OBVIOUS
  <2>4. QED
    BY <2>1, <2>2, <2>3
<1> HIDE DEF Rest
<1>5. QED
  BY <1>1, <1>2, <1>3, <1>4 DEF CloserNext

\* shutdown.
LEMMA DownKeeps ==
    ASSUME Rest, active = 0 => Permits = {}, NEW d \in Downer, DownerNext(d)
    PROVE  Rest'
<1> USE DEF TypeOK, Exclusive, Young, Leased, Kept, Shut, Rest, Untaken, Closes, Unreaped,
        SpawnOwns, ReaderOwns, Permits, Provisional, gateVars, sessionVars, callVars
<1>1. CASE ShutClose(d)
  BY <1>1 DEF ShutClose, DownStep, DownPC
<1>2. CASE ShutFlag(d)
  BY <1>2 DEF ShutFlag, DownStep, DownPC
<1>3. CASE ShutDrain(d)
  BY <1>3 DEF ShutDrain, DownStep, DownPC
<1>4. CASE ShutLeases(d)
  BY <1>4 DEF ShutLeases, DownStep, DownPC
<1>5. CASE ShutReturns(d)
  BY <1>5 DEF ShutReturns, DownStep, DownPC
<1>6. CASE ShutWait(d)
  BY <1>6 DEF ShutWait, DownStep, DownPC
<1>7. ASSUME NEW s \in Session, ShutReaps(d, s) PROVE Rest'
  BY <1>7 DEF ShutReaps, Reap
<1>8. ASSUME NEW s \in Session, ShutJoins(d, s) PROVE Rest'
  BY <1>8 DEF ShutJoins
<1>9. QED
  BY <1>1, <1>2, <1>3, <1>4, <1>5, <1>6, <1>7, <1>8 DEF DownerNext

-----------------------------------------------------------------------------
(* The permits                                                               *)

Takes(s) == /\ ~closed /\ s \notin Permits
            /\ Permits' = Permits \union {s} /\ active' = active + 1
            /\ UNCHANGED <<closed, down>>

Gives(s) == /\ s \in Permits
            /\ Permits' = Permits \ {s} /\ active' = active - 1
            /\ UNCHANGED <<closed, down>>

\* A spawn call takes its permit in SpawnBegin and gives it back when it
\* returns; nothing else touches the counter or what it counts.
LEMMA PermitStep ==
    ASSUME TypeOK, Next
    PROVE  \/ \E s \in Session : Takes(s) \/ Gives(s)
           \/ UNCHANGED <<closed, active, Permits, down>>
           \/ UNCHANGED <<active, Permits>> /\ \E d \in Downer : DownerNext(d)
<1> USE DEF TypeOK, Permits, Provisional, gateVars, sessionVars, callVars, Takes, Gives
<1>1. ASSUME NEW s \in Session, SpawnNext(s)
      PROVE  Takes(s) \/ Gives(s) \/ UNCHANGED <<closed, active, Permits, down>>
  <2>1. CASE SpawnBegin(s)
    BY <2>1 DEF SpawnBegin, Goto
  <2>2. CASE PrepareFails(s) \/ HeartbeatFails(s) \/ HandlesFail(s) \/ Rollback(s) \/ Remove(s)
             \/ SpawnReturns(s)
    BY <2>2 DEF PrepareFails, HeartbeatFails, HandlesFail, Rollback, Remove, SpawnReturns,
                Return, Goto
  <2>3. CASE SpawnRefused(s) \/ SpawnChild(s) \/ OpenHandles(s) \/ Register(s) \/ StartReader(s)
             \/ ReaderFails(s) \/ Attach(s)
    BY <2>3 DEF SpawnRefused, SpawnChild, OpenHandles, Register, StartReader, ReaderFails, Attach,
                Goto
  <2>4. QED
    BY <1>1, <2>1, <2>2, <2>3 DEF SpawnNext
<1>2. ASSUME NEW s \in Session, ReaderNext(s) \/ ChildExits(s) \/ EarlyEof(s) \/ ReadBreaks(s)
      PROVE  UNCHANGED <<closed, active, Permits, down>>
  BY <1>2 DEF ReaderNext, ChildExits, EarlyEof, ReadBreaks, Eof, ReaderRemoves, FinishNatural,
              ReaderReaps, ReaderKills, EmitExit
<1>3. ASSUME NEW c \in Closer,
             CloserNext(c) \/ \E s \in Session, op \in {"kill", "detach"} : CloseCall(c, s, op)
      PROVE  UNCHANGED <<closed, active, Permits, down>>
  BY <1>3 DEF CloserNext, CloseTearsDown, Hangup, CloseReturns, CloseCall
<1>4. ASSUME NEW d \in Downer, DownerNext(d)
      PROVE  UNCHANGED <<active, Permits>>
  BY <1>4 DEF DownerNext, ShutClose, ShutFlag, ShutWait, ShutDrain, ShutLeases, ShutReturns,
              ShutReaps, ShutJoins
<1> HIDE DEF Takes, Gives, Permits
<1>5. QED
  BY <1>1, <1>2, <1>3, <1>4 DEF Next

LEMMA PermitFacts == /\ IsFiniteSet(Permits) /\ Cardinality(Permits) \in Nat
                     /\ Cardinality(Permits) = 0 => Permits = {}
<1>1. IsFiniteSet(Permits)
  BY SessionAssumption, FS_Subset DEF Permits
<1>2. QED
  BY <1>1, FS_CardinalityType, FS_EmptySet

LEMMA CountKeeps == TypeOK /\ Counted /\ Next => Counted' /\ active' \in Nat
<1> SUFFICES ASSUME TypeOK, Counted, Next PROVE Counted' /\ active' \in Nat
  OBVIOUS
<1>1. ASSUME NEW s \in Session, Takes(s) PROVE Counted' /\ active' \in Nat
  <2>1. Cardinality(Permits \union {s}) = Cardinality(Permits) + 1
    BY <1>1, PermitFacts, FS_AddElement DEF Takes
  <2>2. QED
    BY <1>1, <2>1, PermitFacts DEF Takes, Counted
<1>2. ASSUME NEW s \in Session, Gives(s) PROVE Counted' /\ active' \in Nat
  <2>1. Cardinality(Permits \ {s}) = Cardinality(Permits) - 1
    BY <1>2, PermitFacts, FS_RemoveElement DEF Gives
  <2>2. Cardinality(Permits \ {s}) \in Nat
    BY PermitFacts, FS_RemoveElement, FS_CardinalityType, FS_Subset
  <2>3. QED
    BY <1>2, <2>1, <2>2 DEF Gives, Counted
<1>3. CASE UNCHANGED <<active, Permits>>
  BY <1>3 DEF Counted, TypeOK
<1>4. QED
  BY <1>1, <1>2, <1>3, PermitStep

-----------------------------------------------------------------------------
(* The theorems                                                              *)

\* The inductive invariant.
THEOREM RegistryInvariant == Spec => []IInv
<1>1. Init => IInv
  <2> SUFFICES ASSUME Init PROVE IInv
    OBVIOUS
  <2>1. TypeOK
    BY DEF Init, TypeOK, SpawnPC, ReaderPC, ClosePC, DownPC
  <2>2. Counted
    <3>1. Permits = {}
      BY DEF Permits, Provisional, Init
    <3>2. QED
      BY <3>1, FS_EmptySet DEF Counted, Init
  <2>3. QED
    BY <2>1, <2>2 DEF Init, IInv, Exclusive, Young, Leased, Kept, Shut, Untaken, Closes, Unreaped,
                      Permits, Provisional, ReaderOwns
<1>2. IInv /\ [Next]_vars => IInv'
  <2> SUFFICES ASSUME IInv, [Next]_vars PROVE IInv'
    OBVIOUS
  <2>1. Rest /\ (active = 0 => Permits = {})
    BY PermitFacts DEF IInv, Rest, Counted
  <2>2. CASE Next
    <3>1. Counted' /\ active' \in Nat
      BY <2>2, CountKeeps DEF IInv
    <3>2. Rest'
      BY <2>1, <2>2, <3>1, SpawnKeeps, ReaderKeeps, CloserKeeps, DownKeeps DEF Next
    <3>3. QED
      BY <3>1, <3>2 DEF IInv, Rest
  <2>3. CASE UNCHANGED vars
    BY <2>3 DEF vars, IInv, TypeOK, Counted, Exclusive, Young, Leased, Kept, Shut, Untaken, Closes,
                Unreaped, Permits
  <2>4. QED
    BY <2>2, <2>3
<1>3. QED
  BY <1>1, <1>2, PTL DEF Spec

LEMMA AtMostOne ==
    ASSUME IInv, NEW s \in Session
    PROVE  Cardinality(Owners(s)) <= 1
<1>1. ASSUME NEW x \in Owners(s), NEW y \in Owners(s) PROVE x = y
  <2> USE DEF Owners, Closing, Draining
  <2>1. /\ spawn[s] \in SpawnOwns => s \notin sessions /\ reader[s] \notin ReaderOwns /\ Untaken(s)
        /\ s \in sessions => reader[s] \notin ReaderOwns /\ Untaken(s)
        /\ reader[s] \in ReaderOwns => Untaken(s)
    BY DEF IInv, Exclusive, ReaderOwns
  <2>2. CASE Untaken(s)
    <3>1. Closing(s) = {} /\ Draining(s) = {}
      BY <2>2 DEF Untaken, Closes
    <3>2. QED
      BY <2>1, <3>1 DEF SpawnOwns, ReaderOwns
  <2>3. CASE ~Untaken(s)
    <3>1. Owners(s) = Closing(s) \union Draining(s)
      BY <2>1, <2>3 DEF SpawnOwns, ReaderOwns
    <3>2. \A c, e \in Closing(s) : c = e
      BY DEF IInv, Exclusive, Closes
    <3>3. \A d, e \in Draining(s) : d = e
      BY DEF IInv, Exclusive
    <3>4. Closing(s) = {} \/ Draining(s) = {}
      BY DEF IInv, Exclusive, Closes
    <3>5. QED
      BY <3>1, <3>2, <3>3, <3>4
  <2>4. QED
    BY <2>2, <2>3
<1>2. CASE Owners(s) = {}
  BY <1>2, FS_EmptySet
<1>3. ASSUME NEW x \in Owners(s) PROVE Cardinality(Owners(s)) <= 1
  <2>1. Owners(s) = {x}
    BY <1>1
  <2>2. Cardinality({x}) = 1
    BY FS_Singleton
  <2>3. QED
    BY ONLY <2>1, <2>2
<1>4. QED
  BY <1>2, <1>3

LEMMA HasOwner ==
    ASSUME IInv, NEW s \in Session, Unreaped(s) \/ lease[s] = "held"
    PROVE  Owners(s) # {} \/ (spawn[s] = "abandoned" /\ lease[s] # "held")
<1>1. CASE spawn[s] \in SpawnOwns
  <2>1. "spawner" \in Owners(s)
    BY <1>1 DEF Owners, SpawnOwns
  <2>2. QED
    BY <2>1
<1>2. CASE s \in sessions
  <2>1. "registry" \in Owners(s)
    BY <1>2 DEF Owners
  <2>2. QED
    BY <2>1
<1>3. CASE reader[s] \in ReaderOwns
  <2>1. "reader" \in Owners(s)
    BY <1>3 DEF Owners, ReaderOwns
  <2>2. QED
    BY <2>1
<1>4. CASE ~Untaken(s)
  BY <1>4 DEF Untaken, Closes, Owners, Closing, Draining
<1>5. QED
  BY <1>1, <1>2, <1>3, <1>4 DEF IInv, Kept

\* kill, detach, the reader's end and shutdown each take a session out of the
\* map before they touch it: a child and a lease have one owner each as long as
\* they need one, whatever the interleaving, and the lease ends with its child.
THEOREM RegistryOneOwner == Spec => []OneOwner
<1>1. IInv => OneOwner
  <2>1. IInv => LeaseFollowsChild
    BY DEF IInv, Leased, LeaseFollowsChild
  <2>2. QED
    BY <2>1, AtMostOne, HasOwner DEF OneOwner, SingleOwner, Owned, IInv
<1>2. QED
  BY <1>1, RegistryInvariant, PTL

\* PtyManager::shutdown: once it has returned, the registry is empty, no spawn
\* call is in its provisional interval, and what still runs has an owner.
THEOREM RegistryShutdown == Spec => []ShutdownIsFinal
<1>1. IInv => ShutdownIsFinal
  <2> SUFFICES ASSUME IInv, NEW d \in Downer, down[d] = "returned"
               PROVE  /\ sessions = {}
                      /\ \A s \in Session :
                            /\ spawn[s] \notin Provisional
                            /\ Unreaped(s) /\ spawn[s] # "abandoned" =>
                                  \/ Draining(s) # {}
                                  \/ Closing(s) # {}
                                  \/ reader[s] \in {"reaping", "killing"}
    BY DEF ShutdownIsFinal
  <2>1. sessions = {} /\ \A s \in Session : spawn[s] \notin Provisional
    BY DEF IInv, Shut, Permits
  <2>2. ASSUME NEW s \in Session, Unreaped(s), spawn[s] # "abandoned"
        PROVE  \/ Draining(s) # {}
               \/ Closing(s) # {}
               \/ reader[s] \in {"reaping", "killing"}
    <3>1. spawn[s] \notin SpawnOwns
      BY <2>1 DEF SpawnOwns, Provisional
    <3>2. reader[s] \in ReaderOwns \/ ~Untaken(s)
      BY <2>1, <2>2, <3>1 DEF IInv, Kept
    <3>3. QED
      BY <3>2 DEF ReaderOwns, Untaken, Closes, Closing, Draining
  <2>3. QED
    BY <2>1, <2>2
<1>2. QED
  BY <1>1, RegistryInvariant, PTL

-----------------------------------------------------------------------------
(* The refinement                                                            *)

LEMMA GateStep ==
    ASSUME IInv, [Next]_vars
    PROVE  [Gate!GateNext]_(Gate!gateVars)
<1> DEFINE start == [s \in Session |-> IF spawn[s] \in Provisional THEN "in" ELSE "out"]
           wait == [d \in Downer |-> CASE down[d] = "idle" -> "idle"
                                       [] down[d] \in {"closed", "waiting"} -> "closed"
                                       [] OTHER -> "quiet"]
<1>1. ASSUME Permits' = Permits PROVE start' = start
  BY <1>1 DEF Permits
<1>2. ASSUME down' = down PROVE wait' = wait
  BY <1>2
<1>3. ASSUME NEW s \in Session, Takes(s) PROVE Gate!Begin(s)
  <2>1. start[s] = "out" /\ start' = [start EXCEPT ![s] = "in"]
    BY <1>3 DEF Takes, Permits
  <2>2. QED
    BY <1>2, <1>3, <2>1 DEF Takes, Gate!Begin
<1>4. ASSUME NEW s \in Session, Gives(s) PROVE Gate!Drop(s)
  <2>1. start[s] = "in" /\ start' = [start EXCEPT ![s] = "out"]
    BY <1>4 DEF Gives, Permits
  <2>2. Gate!Notified = wait
    BY DEF Gate!Notified
  <2>3. wait' = IF active' = 0 THEN Gate!Notified ELSE wait
    BY <1>2, <1>4, <2>2 DEF Gives
  <2>4. QED
    BY <1>4, <2>1, <2>3 DEF Gives, Gate!Drop
<1>5. ASSUME NEW d \in Downer, DownerNext(d), UNCHANGED <<active, Permits>>
      PROVE  Gate!Close(d) \/ Gate!Wait(d) \/ UNCHANGED Gate!gateVars
  <2>1. start' = start
    BY <1>1, <1>5
  <2> USE DEF IInv, TypeOK, DownPC
  <2>2. CASE ShutClose(d)
    <3>1. wait[d] = "idle" /\ wait' = [wait EXCEPT ![d] = "closed"]
      BY <2>2 DEF ShutClose, DownStep
    <3>2. QED
      BY <2>1, <2>2, <3>1 DEF ShutClose, Gate!Close
  <2>3. CASE ShutWait(d)
    <3>1. wait[d] = "closed" /\ wait' = [wait EXCEPT ![d] = "quiet"]
      BY <2>3 DEF ShutWait, DownStep
    <3>2. QED
      BY <2>1, <2>3, <3>1 DEF ShutWait, gateVars, Gate!Wait, Gate!LoopHead
  <2>4. CASE ShutFlag(d) \/ ShutDrain(d) \/ ShutLeases(d) \/ ShutReturns(d)
             \/ \E s \in Session : ShutReaps(d, s) \/ ShutJoins(d, s)
    <3>1. wait' = wait /\ closed' = closed
      BY <2>4 DEF ShutFlag, ShutDrain, ShutLeases, ShutReturns, ShutReaps, ShutJoins, DownStep,
                  gateVars, callVars
    <3>2. QED
      BY <1>5, <2>1, <3>1 DEF Gate!gateVars
  <2>5. QED
    BY <1>5, <2>2, <2>3, <2>4 DEF DownerNext
<1>6. ASSUME UNCHANGED <<closed, active, Permits, down>> PROVE UNCHANGED Gate!gateVars
  BY <1>1, <1>2, <1>6 DEF Gate!gateVars
<1>7. CASE UNCHANGED vars
  BY <1>6, <1>7 DEF vars, Permits
<1>8. CASE Next
  BY <1>3, <1>4, <1>5, <1>6, <1>8, PermitStep DEF IInv, Gate!GateNext
<1>9. QED
  BY <1>7, <1>8

\* spawn and shutdown use the gate as its own specification allows: the permits
\* of PtyManager implement StartGate.
THEOREM RegistryImplementsGate == Spec => GateSpec
<1>1. Init => Gate!GateInit
  BY DEF Init, Gate!GateInit, Provisional
<1>2. IInv /\ [Next]_vars => [Gate!GateNext]_(Gate!gateVars)
  BY GateStep
<1>3. QED
  BY <1>1, <1>2, RegistryInvariant, PTL DEF Spec, GateSpec, Gate!GateSpec

=============================================================================
