------------------------- MODULE CorrelatedWs_proofs -------------------------
(***************************************************************************)
(* Theorems about CorrelatedWs for any finite sets of connects and         *)
(* disconnects and any requests.                                           *)
(***************************************************************************)
EXTENDS CorrelatedWs, FiniteSetTheorems, TLAPS

\* The calls that have taken a generation.
Begun == {k \in Caller : call[k] # "idle"}

\* A generation is the number of calls begun, and no two calls share one.
Counted == generation = Cardinality(Begun)

Numbered ==
    /\ \A k \in Caller : call[k] # "idle" => gen[k] \in 1 .. generation
    /\ \A j, k \in Begun : gen[j] = gen[k] => j = k

Late == connection # None => \A k \in Decided : gen[k] <= connection

\* A connection is born when its connect installs it.
Born ==
    /\ \A g \in Gen : life[g] # "unborn" => g <= generation
    /\ \A g \in Gen : writer[g] # "unborn" => life[g] # "unborn"
    /\ \A k \in Caller : call[k] = "opening" => life[gen[k]] = "unborn"
    /\ \A k \in Connect : call[k] \in {"retire", "clear", "spawn"} => life[gen[k]] # "unborn"

\* The slot holds the one connection that has not been taken out, and only
\* connections that have been taken out are retired.
Gone == {g \in Gen : life[g] \in {"taken", "cancelled", "retired"}}

Slot ==
    /\ connection # None => life[connection] = "installed"
    /\ \A k \in Caller : call[k] \in {"retire", "clear"} => holds[k] \in Gone
    /\ \A g \in Gen : writer[g] \in {"retire", "clear"} \/ reader[g] \in {"retire", "clear"}
                      => g \in Gone

Emptied == \A g \in Gen : life[g] = "retired" => pending[g] = {}

Served == connection # None => writer[connection] # "gone"

IInv == TypeOK /\ Counted /\ Numbered /\ Late /\ Born /\ Slot /\ Emptied /\ Served

\* Everything but the count: what the provers are given of a step.
Rest == TypeOK /\ Numbered /\ Late /\ Born /\ Slot /\ Emptied /\ Served

-----------------------------------------------------------------------------
(* The count                                                                 *)

LEMMA FiniteCallers == IsFiniteSet(Caller) /\ Cardinality(Caller) \in Nat
BY CallAssumption, FS_Union, FS_CardinalityType DEF Caller

\* There is a generation left for a call that has not begun.
LEMMA NextGeneration ==
    ASSUME IInv, NEW k \in Caller, call[k] = "idle"
    PROVE  /\ generation + 1 \in Gen /\ generation + 1 \in 0 .. Cardinality(Caller)
           /\ Cardinality(Begun \union {k}) = generation + 1
<1>1. IsFiniteSet(Begun \union {k}) /\ Cardinality(Begun \union {k}) <= Cardinality(Caller)
  <2>1. Begun \union {k} \subseteq Caller
    BY DEF Begun
  <2>2. QED
    BY <2>1, FiniteCallers, FS_Subset
<1>2. IsFiniteSet(Begun) /\ Begun \subseteq Caller /\ k \notin Begun
  BY FiniteCallers, FS_Subset DEF Begun
<1>3. Cardinality(Begun \union {k}) = Cardinality(Begun) + 1
  BY <1>2, FS_AddElement
<1>4. Cardinality(Begun) \in Nat
  BY <1>2, FS_CardinalityType
<1>5. QED
  BY <1>1, <1>3, <1>4, FiniteCallers DEF IInv, Counted, Gen

LEMMA BeginCounts ==
    ASSUME IInv, NEW k \in Caller, call[k] = "idle", generation' = generation + 1,
           NEW v, v # "idle", call' = [call EXCEPT ![k] = v]
    PROVE  Counted'
<1>1. Begun' = Begun \union {k}
  BY DEF Begun, IInv, TypeOK
<1>2. QED
  BY <1>1, NextGeneration DEF Counted

LEMMA StepCounts ==
    ASSUME IInv, generation' = generation,
           \A k \in Caller : (call[k] = "idle" <=> call'[k] = "idle")
    PROVE  Counted'
<1>1. Begun' = Begun
  BY DEF Begun
<1>2. QED
  BY <1>1 DEF Counted, IInv

-----------------------------------------------------------------------------
(* The steps                                                                 *)

LEMMA Generations ==
    ASSUME TypeOK
    PROVE  Gen \subseteq Nat \ {0} /\ generation \in Nat /\ 1 .. generation \subseteq Gen
BY FiniteCallers DEF TypeOK, Gen

\* connect, and the retirement of the connection it replaces.
LEMMA ConnectKeeps ==
    ASSUME IInv, NEW c \in Connect,
           \/ BeginConnect(c) \/ OpenFails(c) \/ Install(c) \/ Superseded(c) \/ SpawnTasks(c)
    PROVE  IInv'
<1>next. ASSUME call[c] = "idle"
         PROVE  generation + 1 \in Gen /\ generation + 1 \in 0 .. Cardinality(Caller)
  BY <1>next, NextGeneration DEF Caller
<1> USE Generations DEF IInv, None, slotVars, callVars, taskVars, connVars, reqVars
<1>0. c \in Caller /\ c \notin Disconnect /\ Connect \subseteq Caller /\ Disconnect \subseteq Caller
  BY CallAssumption DEF Caller
<1>1. CASE BeginConnect(c)
  <2>0. generation + 1 \in Gen /\ generation + 1 \in 0 .. Cardinality(Caller)
    BY <1>1, <1>next DEF BeginConnect
  <2>1. TypeOK'
    BY <1>0, <1>1, <2>0 DEF BeginConnect, TypeOK, slotVars, callVars, taskVars, connVars, reqVars, CallPC, TaskPC
  <2>2. Counted'
    BY <1>0, <1>1, BeginCounts DEF BeginConnect, TypeOK
  <2>3. Numbered' /\ Late'
    BY <1>0, <1>1, <2>0 DEF BeginConnect, TypeOK, Numbered, Late, Begun, Decided
  <2>4. Born'
    BY <1>0, <1>1, <2>0 DEF BeginConnect, TypeOK, Born, Numbered, Slot, Gone
  <2>5. Slot'
    BY <1>0, <1>1 DEF BeginConnect, TypeOK, Slot, Gone
  <2>6. Emptied' /\ Served'
    BY <1>0, <1>1 DEF BeginConnect, TypeOK, Slot, Gone, Emptied, Served
  <2>7. QED
    BY <2>1, <2>2, <2>3, <2>4, <2>5, <2>6
<1>2. CASE OpenFails(c)
  <2>1. TypeOK'
    BY <1>0, <1>2 DEF OpenFails, TypeOK, slotVars, callVars, taskVars, connVars, reqVars, CallPC, TaskPC
  <2>2. Counted'
    BY <1>0, <1>2, StepCounts DEF OpenFails, TypeOK
  <2>3. Numbered' /\ Late'
    BY <1>0, <1>2 DEF OpenFails, TypeOK, Numbered, Late, Begun, Decided
  <2>4. Born'
    BY <1>0, <1>2 DEF OpenFails, TypeOK, Born
  <2>5. Slot'
    BY <1>0, <1>2 DEF OpenFails, TypeOK, Slot, Gone
  <2>6. Emptied' /\ Served'
    BY <1>0, <1>2 DEF OpenFails, TypeOK, Slot, Gone, Emptied, Served
  <2>7. QED
    BY <2>1, <2>2, <2>3, <2>4, <2>5, <2>6
<1>3. CASE Install(c)
  <2>1. TypeOK'
    BY <1>0, <1>3 DEF Install, AfterInstall, TypeOK, slotVars, callVars, taskVars, connVars, reqVars, CallPC, TaskPC
  <2>2. Counted'
    BY <1>0, <1>3, StepCounts DEF Install, AfterInstall, TypeOK
  <2>3. Numbered' /\ Late'
    BY <1>0, <1>3, SMTT(30) DEF Install, AfterInstall, TypeOK, Numbered, Late, Begun, Decided
  <2>4. Born'
    <3>1. /\ gen[c] \in Gen /\ gen[c] = generation /\ call[c] = "opening"
          /\ \A k \in Caller : k # c => call'[k] = call[k]
          /\ call'[c] # "opening"
          /\ UNCHANGED <<generation, gen, writer>>
      BY <1>0, <1>3 DEF Install, AfterInstall, TypeOK, Numbered
    <3>2. life'[gen[c]] = "installed"
      BY <1>3, <3>1 DEF Install
    <3>3. \A g \in Gen : life'[g] # "unborn" <=> (g = gen[c] \/ life[g] # "unborn")
      <4>1. \A g \in Gen : life'[g] = IF g = gen[c] THEN "installed"
                                      ELSE IF g = connection THEN "taken" ELSE life[g]
        BY <1>3 DEF Install
      <4>2. \A g \in Gen : g = connection => life[g] = "installed"
        BY DEF Slot
      <4> QED
        BY <4>1, <4>2
    <3>4. \A k \in Caller : call[k] = "opening" /\ k # c => gen[k] # gen[c] /\ gen[k] \in Gen
      BY <1>0, <3>1 DEF Numbered, Begun
    <3>5. \A k \in Connect : call[k] # "idle" => gen[k] \in Gen
      BY <1>0 DEF Numbered
    <3>6. /\ \A g \in Gen : life'[g] # "unborn" => g <= generation
          /\ \A g \in Gen : writer[g] # "unborn" => life'[g] # "unborn"
      BY <3>1, <3>3 DEF Born
    <3>7. \A k \in Caller : call'[k] = "opening" => life'[gen[k]] = "unborn"
      BY <3>1, <3>3, <3>4 DEF Born
    <3>8. \A k \in Connect : call'[k] \in {"retire", "clear", "spawn"} => life'[gen[k]] # "unborn"
      BY <1>0, <3>1, <3>2, <3>3, <3>5 DEF Born
    <3> QED
      BY <3>1, <3>6, <3>7, <3>8 DEF Born
  <2>5. Slot'
    BY <1>0, <1>3 DEF Install, AfterInstall, TypeOK, Slot, Gone, Born, Numbered
  <2>6. Emptied' /\ Served'
    BY <1>0, <1>3 DEF Install, AfterInstall, TypeOK, Slot, Gone, Emptied, Served, Born, Numbered
  <2>7. QED
    BY <2>1, <2>2, <2>3, <2>4, <2>5, <2>6
<1>4. CASE Superseded(c)
  <2>1. TypeOK'
    BY <1>0, <1>4 DEF Superseded, TypeOK, slotVars, callVars, taskVars, connVars, reqVars, CallPC, TaskPC
  <2>2. Counted'
    BY <1>0, <1>4, StepCounts DEF Superseded, TypeOK
  <2>3. Numbered' /\ Late'
    BY <1>0, <1>4 DEF Superseded, TypeOK, Numbered, Late, Begun, Decided
  <2>4. Born'
    BY <1>0, <1>4 DEF Superseded, TypeOK, Born
  <2>5. Slot'
    BY <1>0, <1>4 DEF Superseded, TypeOK, Slot, Gone
  <2>6. Emptied' /\ Served'
    BY <1>0, <1>4 DEF Superseded, TypeOK, Slot, Gone, Emptied, Served
  <2>7. QED
    BY <2>1, <2>2, <2>3, <2>4, <2>5, <2>6
<1>5. CASE SpawnTasks(c)
  <2>1. TypeOK'
    BY <1>0, <1>5 DEF SpawnTasks, TypeOK, slotVars, callVars, taskVars, connVars, reqVars, CallPC, TaskPC
  <2>2. Counted'
    BY <1>0, <1>5, StepCounts DEF SpawnTasks, TypeOK
  <2>3. Numbered' /\ Late'
    BY <1>0, <1>5 DEF SpawnTasks, TypeOK, Numbered, Late, Begun, Decided
  <2>4. Born'
    BY <1>0, <1>5 DEF SpawnTasks, TypeOK, Born
  <2>5. Slot'
    BY <1>0, <1>5 DEF SpawnTasks, TypeOK, Slot, Gone, Born
  <2>6. Emptied' /\ Served'
    BY <1>0, <1>5 DEF SpawnTasks, TypeOK, Slot, Gone, Emptied, Served, Born
  <2>7. QED
    BY <2>1, <2>2, <2>3, <2>4, <2>5, <2>6
<1>6. QED
  BY <1>1, <1>2, <1>3, <1>4, <1>5

LEMMA BornKeeps ==
    ASSUME IInv, UNCHANGED <<generation, call, gen>>,
           \A h \in Gen : /\ life'[h] # "unborn" <=> life[h] # "unborn"
                          /\ writer'[h] # "unborn" => writer[h] # "unborn"
    PROVE  Born'
<1>1. \A k \in Caller : call[k] # "idle" => gen[k] \in Gen
  BY Generations DEF IInv, Numbered
<1>2. QED
  BY <1>1 DEF IInv, Born, Caller

\* A connection that is taken out, or retired further, stays out.
LEMMA TakenOut ==
    ASSUME IInv, NEW g \in Gen, life[g] # "unborn", connection' \in {connection, None} \ {g},
           NEW v \in {"taken", "cancelled", "retired"}, life' = [life EXCEPT ![g] = v]
    PROVE  /\ Gone' = Gone \union {g}
           /\ connection' # None => life'[connection'] = "installed"
           /\ \A h \in Gen : life'[h] # "unborn" <=> life[h] # "unborn"
<1>1. life \in [Gen -> {"unborn", "installed", "taken", "cancelled", "retired"}]
  BY DEF IInv, TypeOK
<1>2. connection \in Gen \union {None} /\ (connection # None => life[connection] = "installed")
  BY DEF IInv, TypeOK, Slot
<1>3. Gone' = Gone \union {g}
  BY <1>1 DEF Gone
<1>4. QED
  BY <1>1, <1>2, <1>3

\* disconnect, and the retirement by any caller.
LEMMA CallerKeeps ==
    ASSUME IInv, NEW k \in Caller,
           (k \in Disconnect /\ BeginDisconnect(k)) \/ CallerCancels(k) \/ CallerClears(k)
    PROVE  IInv'
<1>next. ASSUME call[k] = "idle"
         PROVE  generation + 1 \in Gen /\ generation + 1 \in 0 .. Cardinality(Caller)
  BY <1>next, NextGeneration DEF Caller
<1> USE Generations DEF IInv, None, slotVars, callVars, taskVars, connVars, reqVars
<1>0. (k \in Connect <=> k \notin Disconnect) /\ Connect \subseteq Caller /\ Disconnect \subseteq Caller
  BY CallAssumption DEF Caller
<1>1. CASE k \in Disconnect /\ BeginDisconnect(k)
  <2>0. generation + 1 \in Gen /\ generation + 1 \in 0 .. Cardinality(Caller)
    BY <1>1, <1>next DEF BeginDisconnect
  <2>1. TypeOK'
    BY <1>0, <1>1, <2>0 DEF BeginDisconnect, TypeOK, slotVars, callVars, taskVars, connVars, reqVars, CallPC, TaskPC
  <2>2. Counted'
    BY <1>0, <1>1, BeginCounts DEF BeginDisconnect, TypeOK
  <2>3. Numbered' /\ Late'
    BY <1>0, <1>1, <2>0 DEF BeginDisconnect, TypeOK, Numbered, Late, Begun, Decided
  <2>4. Born'
    <3>1. \A g \in Gen : life'[g] # "unborn" <=> life[g] # "unborn"
      BY <1>0, <1>1, <2>0 DEF BeginDisconnect, TypeOK, Slot, Gone
    <3>2. \A j \in Caller : call'[j] = "opening" =>
             call[j] = "opening" /\ gen'[j] = gen[j] /\ gen[j] \in Gen
      BY <1>0, <1>1 DEF BeginDisconnect, TypeOK, Numbered
    <3>3. \A j \in Connect : /\ call'[j] = call[j] /\ gen'[j] = gen[j]
                             /\ call[j] # "idle" => gen[j] \in Gen
      BY <1>0, <1>1 DEF BeginDisconnect, TypeOK, Numbered
    <3>4. \A g \in Gen : life'[g] # "unborn" => g <= generation'
      BY <1>1, <3>1 DEF BeginDisconnect, TypeOK, Born
    <3>5. QED
      BY <1>0, <1>1, <3>1, <3>2, <3>3, <3>4 DEF BeginDisconnect, Born
  <2>5. Slot'
    BY <1>0, <1>1 DEF BeginDisconnect, TypeOK, Slot, Gone
  <2>6. Emptied' /\ Served'
    BY <1>0, <1>1 DEF BeginDisconnect, TypeOK, Slot, Gone, Emptied, Served
  <2>7. QED
    BY <2>1, <2>2, <2>3, <2>4, <2>5, <2>6
<1>2. CASE CallerCancels(k)
  <2> USE DEF CallerCancels, Cancelled
  <2>1. holds[k] \in Gen /\ holds[k] \in Gone /\ life[holds[k]] # "unborn" /\ connection # holds[k]
    BY <1>2 DEF Slot, Gone
  <2>2. TypeOK'
    BY <1>0, <1>2, <2>1 DEF TypeOK, CallPC
  <2>3. Counted' /\ Numbered' /\ Late'
    BY <1>0, <1>2, StepCounts DEF TypeOK, Numbered, Late, Begun, Decided
  <2>4. life' = [life EXCEPT ![holds[k]] = "cancelled"] /\ connection' \in {connection, None} \ {holds[k]}
    BY <1>2, <2>1
  <2>5. /\ Gone' = Gone \union {holds[k]} /\ (connection' # None => life'[connection'] = "installed")
        /\ \A h \in Gen : life'[h] # "unborn" <=> life[h] # "unborn"
    BY <2>1, <2>4, TakenOut
  <2>6. Born'
    <3>1. \A j \in Caller : call[j] # "idle" => gen[j] \in Gen
      BY DEF Numbered
    <3>2. QED
      BY <1>0, <1>2, <2>5, <3>1 DEF TypeOK, Born
  <2>7. Slot'
    BY <1>0, <1>2, <2>5 DEF TypeOK, Slot
  <2>8. Emptied' /\ Served'
    BY <1>2, <2>1 DEF TypeOK, Emptied, Served
  <2>9. QED
    BY <2>2, <2>3, <2>6, <2>7, <2>8
<1>3. CASE CallerClears(k)
  <2> USE DEF CallerClears, Clear, Cleared
  <2>1. holds[k] \in Gen /\ holds[k] \in Gone /\ life[holds[k]] # "unborn" /\ connection # holds[k]
    BY <1>3 DEF Slot, Gone
  <2>2. TypeOK'
    BY <1>0, <1>3, <2>1 DEF TypeOK, CallPC
  <2>3. Counted' /\ Numbered' /\ Late'
    BY <1>0, <1>3, StepCounts DEF TypeOK, Numbered, Late, Begun, Decided
  <2>4. life' = [life EXCEPT ![holds[k]] = "retired"] /\ connection' \in {connection, None} \ {holds[k]}
    BY <1>3, <2>1
  <2>5. /\ Gone' = Gone \union {holds[k]} /\ (connection' # None => life'[connection'] = "installed")
        /\ \A h \in Gen : life'[h] # "unborn" <=> life[h] # "unborn"
    BY <2>1, <2>4, TakenOut
  <2>6. Born'
    <3>1. \A j \in Caller : call[j] # "idle" => gen[j] \in Gen
      BY DEF Numbered
    <3>2. QED
      BY <1>0, <1>3, <2>5, <3>1 DEF TypeOK, Born
  <2>7. Slot'
    BY <1>0, <1>3, <2>5 DEF TypeOK, Slot
  <2>8. Emptied' /\ Served'
    BY <1>3, <2>1 DEF TypeOK, Emptied, Served
  <2>9. QED
    BY <2>2, <2>3, <2>6, <2>7, <2>8
<1>4. QED
  BY <1>1, <1>2, <1>3

\* The tasks of a connection that give it up.
LEMMA TaskKeeps ==
    ASSUME IInv, NEW g \in Gen, WriterFinishes(g) \/ ReaderFinishes(g)
    PROVE  IInv'
<1> USE DEF IInv, None, slotVars, callVars, reqVars
<1>0. connection = g => life[g] = "installed" /\ g \notin Gone
  BY Generations DEF Slot, Gone
<1>1. CASE ClearGeneration(writer, g) /\ UNCHANGED reader /\ connection = g
  <2> USE DEF ClearGeneration, Takes
  <2>1. TypeOK'
    BY <1>1, <1>0 DEF TypeOK, TaskPC
  <2>2. Counted' /\ Numbered' /\ Late'
    BY <1>1, StepCounts DEF Numbered, Late, Begun, Decided
  <2>3. life' = [life EXCEPT ![g] = "taken"] /\ connection' = None /\ g # None
    BY <1>1, Generations
  <2>4. Gone' = Gone \union {g} /\ \A h \in Gen : life'[h] # "unborn" <=> life[h] # "unborn"
    BY <1>0, <1>1, <2>3, TakenOut
  <2>5. Born'
    BY <1>0, <1>1, <2>4, BornKeeps DEF TypeOK, Born
  <2>6. Slot'
    BY <1>1, <2>4 DEF TypeOK, Slot
  <2>7. Emptied' /\ Served'
    BY <1>1, <2>3 DEF TypeOK, Emptied, Served
  <2>8. QED
    BY <2>1, <2>2, <2>5, <2>6, <2>7
<1>2. CASE ClearGeneration(writer, g) /\ UNCHANGED reader /\ connection # g
  <2> USE DEF ClearGeneration, Takes
  <2>1. TypeOK'
    BY <1>2 DEF TypeOK, TaskPC
  <2>2. Counted' /\ Numbered' /\ Late'
    BY <1>2, StepCounts DEF Numbered, Late, Begun, Decided
  <2>3. Born'
    BY <1>2, BornKeeps DEF TypeOK
  <2>4. Slot' /\ Emptied' /\ Served'
    BY <1>2 DEF TypeOK, Slot, Gone, Emptied, Served
  <2>5. QED
    BY <2>1, <2>2, <2>3, <2>4
<1>3. CASE TaskCancels(writer, g) /\ UNCHANGED reader
  <2> USE DEF TaskCancels, Cancelled
  <2>1. TypeOK'
    BY <1>3 DEF TypeOK, TaskPC
  <2>2. Counted' /\ Numbered' /\ Late'
    BY <1>3, StepCounts DEF Numbered, Late, Begun, Decided
  <2>3. g \in Gone /\ life[g] # "unborn" /\ connection # g
    BY <1>3, <1>0 DEF Slot, Gone
  <2>4. life' = [life EXCEPT ![g] = "cancelled"] /\ connection' \in {connection, None} \ {g}
    BY <1>3, <2>3
  <2>5. /\ Gone' = Gone \union {g} /\ (connection' # None => life'[connection'] = "installed")
        /\ \A h \in Gen : life'[h] # "unborn" <=> life[h] # "unborn"
    BY <2>3, <2>4, TakenOut
  <2>6. Born'
    BY <1>3, <2>5, BornKeeps DEF TypeOK
  <2>7. Slot'
    BY <1>3, <2>5 DEF TypeOK, Slot
  <2>8. Emptied' /\ Served'
    BY <1>3, <2>3 DEF TypeOK, Emptied, Served
  <2>9. QED
    BY <2>1, <2>2, <2>6, <2>7, <2>8
<1>4. CASE TaskClears(writer, g) /\ UNCHANGED reader
  <2> USE DEF TaskClears, Clear, Cleared
  <2>1. TypeOK'
    BY <1>4 DEF TypeOK, TaskPC
  <2>2. Counted' /\ Numbered' /\ Late'
    BY <1>4, StepCounts DEF Numbered, Late, Begun, Decided
  <2>3. g \in Gone /\ life[g] # "unborn" /\ connection # g
    BY <1>4, <1>0 DEF Slot, Gone
  <2>4. life' = [life EXCEPT ![g] = "retired"] /\ connection' \in {connection, None} \ {g}
    BY <1>4, <2>3
  <2>5. /\ Gone' = Gone \union {g} /\ (connection' # None => life'[connection'] = "installed")
        /\ \A h \in Gen : life'[h] # "unborn" <=> life[h] # "unborn"
    BY <2>3, <2>4, TakenOut
  <2>6. Born'
    BY <1>4, <2>5, BornKeeps DEF TypeOK
  <2>7. Slot'
    BY <1>4, <2>5 DEF TypeOK, Slot
  <2>8. Emptied' /\ Served'
    BY <1>4, <2>3 DEF TypeOK, Emptied, Served
  <2>9. QED
    BY <2>1, <2>2, <2>6, <2>7, <2>8
<1>5. CASE ClearGeneration(reader, g) /\ UNCHANGED writer /\ connection = g
  <2> USE DEF ClearGeneration, Takes
  <2>1. TypeOK'
    BY <1>5, <1>0 DEF TypeOK, TaskPC
  <2>2. Counted' /\ Numbered' /\ Late'
    BY <1>5, StepCounts DEF Numbered, Late, Begun, Decided
  <2>3. life' = [life EXCEPT ![g] = "taken"] /\ connection' = None /\ g # None
    BY <1>5, Generations
  <2>4. Gone' = Gone \union {g} /\ \A h \in Gen : life'[h] # "unborn" <=> life[h] # "unborn"
    BY <1>0, <1>5, <2>3, TakenOut
  <2>5. Born'
    BY <1>0, <1>5, <2>4, BornKeeps DEF TypeOK, Born
  <2>6. Slot'
    BY <1>5, <2>4 DEF TypeOK, Slot
  <2>7. Emptied' /\ Served'
    BY <1>5, <2>3 DEF TypeOK, Emptied, Served
  <2>8. QED
    BY <2>1, <2>2, <2>5, <2>6, <2>7
<1>6. CASE ClearGeneration(reader, g) /\ UNCHANGED writer /\ connection # g
  <2> USE DEF ClearGeneration, Takes
  <2>1. TypeOK'
    BY <1>6 DEF TypeOK, TaskPC
  <2>2. Counted' /\ Numbered' /\ Late'
    BY <1>6, StepCounts DEF Numbered, Late, Begun, Decided
  <2>3. Born'
    BY <1>6, BornKeeps DEF TypeOK
  <2>4. Slot' /\ Emptied' /\ Served'
    BY <1>6 DEF TypeOK, Slot, Gone, Emptied, Served
  <2>5. QED
    BY <2>1, <2>2, <2>3, <2>4
<1>7. CASE TaskCancels(reader, g) /\ UNCHANGED writer
  <2> USE DEF TaskCancels, Cancelled
  <2>1. TypeOK'
    BY <1>7 DEF TypeOK, TaskPC
  <2>2. Counted' /\ Numbered' /\ Late'
    BY <1>7, StepCounts DEF Numbered, Late, Begun, Decided
  <2>3. g \in Gone /\ life[g] # "unborn" /\ connection # g
    BY <1>7, <1>0 DEF Slot, Gone
  <2>4. life' = [life EXCEPT ![g] = "cancelled"] /\ connection' \in {connection, None} \ {g}
    BY <1>7, <2>3
  <2>5. /\ Gone' = Gone \union {g} /\ (connection' # None => life'[connection'] = "installed")
        /\ \A h \in Gen : life'[h] # "unborn" <=> life[h] # "unborn"
    BY <2>3, <2>4, TakenOut
  <2>6. Born'
    BY <1>7, <2>5, BornKeeps DEF TypeOK
  <2>7. Slot'
    BY <1>7, <2>5 DEF TypeOK, Slot
  <2>8. Emptied' /\ Served'
    BY <1>7, <2>3 DEF TypeOK, Emptied, Served
  <2>9. QED
    BY <2>1, <2>2, <2>6, <2>7, <2>8
<1>8. CASE TaskClears(reader, g) /\ UNCHANGED writer
  <2> USE DEF TaskClears, Clear, Cleared
  <2>1. TypeOK'
    BY <1>8 DEF TypeOK, TaskPC
  <2>2. Counted' /\ Numbered' /\ Late'
    BY <1>8, StepCounts DEF Numbered, Late, Begun, Decided
  <2>3. g \in Gone /\ life[g] # "unborn" /\ connection # g
    BY <1>8, <1>0 DEF Slot, Gone
  <2>4. life' = [life EXCEPT ![g] = "retired"] /\ connection' \in {connection, None} \ {g}
    BY <1>8, <2>3
  <2>5. /\ Gone' = Gone \union {g} /\ (connection' # None => life'[connection'] = "installed")
        /\ \A h \in Gen : life'[h] # "unborn" <=> life[h] # "unborn"
    BY <2>3, <2>4, TakenOut
  <2>6. Born'
    BY <1>8, <2>5, BornKeeps DEF TypeOK
  <2>7. Slot'
    BY <1>8, <2>5 DEF TypeOK, Slot
  <2>8. Emptied' /\ Served'
    BY <1>8, <2>3 DEF TypeOK, Emptied, Served
  <2>9. QED
    BY <2>1, <2>2, <2>6, <2>7, <2>8
<1>9. QED
  BY <1>1, <1>2, <1>3, <1>4, <1>5, <1>6, <1>7, <1>8 DEF WriterFinishes, ReaderFinishes, Finish

\* A step away from the slot: a task may end its loop, and only a connection
\* that is installed may get a waiting sender.
LEMMA Aside ==
    ASSUME IInv, UNCHANGED <<slotVars, callVars, life>>, TypeOK',
           \A g \in Gen :
             /\ writer'[g] \in {writer[g], "ending"} /\ reader'[g] \in {reader[g], "ending"}
             /\ writer'[g] # writer[g] => writer[g] = "runs"
             /\ pending'[g] \subseteq pending[g] \/ life[g] = "installed"
    PROVE  IInv'
<1> USE DEF IInv, slotVars, callVars
<1>1. Counted' /\ Numbered' /\ Late'
  BY StepCounts DEF Numbered, Late, Begun, Decided
<1>2. Born'
  BY DEF Born
<1>3. Slot'
  BY DEF Slot, Gone
<1>4. Emptied'
  BY DEF Emptied
<1>5. Served'
  BY DEF Served, TypeOK, None
<1>6. QED
  BY <1>1, <1>2, <1>3, <1>4, <1>5

LEMMA LoopKeeps ==
    ASSUME IInv, NEW g \in Gen, Write(g) \/ WriterEnds(g) \/ Deliver(g) \/ ReaderEnds(g)
                                \/ PeerAnswers(g) \/ PeerCloses(g)
    PROVE  IInv'
<1> USE DEF slotVars, callVars, taskVars, connVars, reqVars, TaskPC, ReqPC
<1>1. CASE Write(g)
  <2>1. out' \in [Gen -> Seq(Nat)] /\ Head(out[g]) \in Nat
    <3>1. out[g] \in Seq(Nat) /\ out[g] # <<>>
      BY <1>1 DEF Write, IInv, TypeOK
    <3>2. Tail(out[g]) \in Seq(Nat) /\ Head(out[g]) \in Nat
      BY ONLY <3>1
    <3>3. QED
      BY <1>1, <3>2 DEF Write, IInv, TypeOK
  <2>2. wire' \in [Gen -> [asked : SUBSET Nat, said : SUBSET Nat]]
    <3> DEFINE exchange == [wire[g] EXCEPT !.asked = wire[g].asked \union {Head(out[g])}]
    <3>1. wire[g] \in [asked : SUBSET Nat, said : SUBSET Nat]
      BY DEF IInv, TypeOK
    <3>2. exchange \in [asked : SUBSET Nat, said : SUBSET Nat]
      BY <3>1, <2>1
    <3>3. wire' = wire \/ wire' = [wire EXCEPT ![g] = exchange]
      BY <1>1 DEF Write
    <3> HIDE DEF exchange
    <3>4. QED
      BY <3>2, <3>3, ZenonT(40) DEF IInv, TypeOK
  <2>3. writer' \in [Gen -> TaskPC] /\ \A h \in Gen : /\ writer'[h] \in {writer[h], "ending"}
                                                     /\ writer'[h] # writer[h] => writer[h] = "runs"
    BY <1>1 DEF Write, IInv, TypeOK
  <2>4. TypeOK'
    BY <1>1, <2>1, <2>2, <2>3 DEF Write, IInv, TypeOK
  <2>5. QED
    BY <1>1, <2>3, <2>4, Aside DEF Write
<1>2. CASE WriterEnds(g)
  <2>1. TypeOK'
    BY <1>2 DEF WriterEnds, IInv, TypeOK
  <2>2. QED
    BY <1>2, <2>1, Aside, SMTT(30) DEF WriterEnds, IInv, TypeOK
<1>3. CASE Deliver(g)
  <2>1. PICK i \in wire[g].said :
          /\ wire' = [wire EXCEPT ![g].said = @ \ {i}]
          /\ pending' = [pending EXCEPT ![g] = @ \ {i}]
          /\ req' = [r \in Request |->
                       IF req[r] = "waiting" /\ at[r] = [conn |-> g, id |-> i] /\ i \in pending[g]
                       THEN "answered" ELSE req[r]]
    BY <1>3 DEF Deliver
  <2>2. wire' \in [Gen -> [asked : SUBSET Nat, said : SUBSET Nat]]
    <3> DEFINE exchange == [wire[g] EXCEPT !.said = wire[g].said \ {i}]
    <3>1. wire[g] \in [asked : SUBSET Nat, said : SUBSET Nat]
      BY DEF IInv, TypeOK
    <3>2. exchange \in [asked : SUBSET Nat, said : SUBSET Nat]
      BY <3>1
    <3>3. wire' = wire \/ wire' = [wire EXCEPT ![g] = exchange]
      BY <2>1
    <3> HIDE DEF exchange
    <3>4. QED
      BY <3>2, <3>3, ZenonT(40) DEF IInv, TypeOK
  <2>3. pending' \in [Gen -> SUBSET Nat] /\ \A h \in Gen : pending'[h] \subseteq pending[h]
    BY <2>1 DEF IInv, TypeOK
  <2>4. req' \in [Request -> ReqPC] /\ \A r \in Request : req'[r] \in {req[r], "answered"}
    BY <2>1 DEF IInv, TypeOK
  <2>5. TypeOK'
    BY <1>3, <2>2, <2>3, <2>4 DEF Deliver, IInv, TypeOK
  <2>6. QED
    BY <1>3, <2>3, <2>5, Aside DEF Deliver
<1>4. CASE ReaderEnds(g)
  <2>1. TypeOK'
    BY <1>4 DEF ReaderEnds, IInv, TypeOK
  <2>2. QED
    BY <1>4, <2>1, Aside, SMTT(30) DEF ReaderEnds, IInv, TypeOK
<1>5. CASE PeerAnswers(g)
  <2>1. TypeOK'
    BY <1>5 DEF PeerAnswers, IInv, TypeOK
  <2>2. QED
    BY <1>5, <2>1, Aside DEF PeerAnswers, IInv, TypeOK
<1>6. CASE PeerCloses(g)
  <2>1. TypeOK'
    BY <1>6 DEF PeerCloses, IInv, TypeOK
  <2>2. QED
    BY <1>6, <2>1, Aside DEF PeerCloses, IInv, TypeOK
<1>7. QED
  BY <1>1, <1>2, <1>3, <1>4, <1>5, <1>6

LEMMA RequestKeeps ==
    ASSUME IInv, NEW r \in Request,
           Ask(r) \/ AskRefused(r) \/ Hear(r) \/ Expire(r) \/ TakeBack(r)
    PROVE  IInv'
<1> USE DEF slotVars, callVars, taskVars, connVars, reqVars, ReqPC
<1>1. CASE Ask(r)
  <2>1. TypeOK'
    BY <1>1 DEF Ask, IInv, TypeOK
  <2>2. QED
    BY <1>1, <2>1, Aside, SMTT(30) DEF Ask, IInv, TypeOK, Slot, None
<1>2. CASE AskRefused(r)
  <2>1. TypeOK'
    BY <1>2 DEF AskRefused, IInv, TypeOK
  <2>2. QED
    BY <1>2, <2>1, Aside DEF AskRefused, IInv, TypeOK
<1>3. CASE Hear(r)
  <2>1. TypeOK'
    BY <1>3 DEF Hear, IInv, TypeOK
  <2>2. QED
    BY <1>3, <2>1, Aside DEF Hear, IInv, TypeOK
<1>4. CASE Expire(r)
  <2>1. TypeOK'
    BY <1>4 DEF Expire, IInv, TypeOK
  <2>2. QED
    BY <1>4, <2>1, Aside DEF Expire, IInv, TypeOK
<1>5. CASE TakeBack(r)
  <2>1. TypeOK'
    BY <1>5 DEF TakeBack, IInv, TypeOK
  <2>2. QED
    BY <1>5, <2>1, Aside DEF TakeBack, IInv, TypeOK
<1>6. QED
  BY <1>1, <1>2, <1>3, <1>4, <1>5

-----------------------------------------------------------------------------
(* Why a connection ends                                                     *)

\* A task is past its loop only when its connection was cancelled or its peer
\* has gone.
Ended(task) ==
    \A g \in Gen : task[g] = "ending" => Cancel(g) \/ socket[g] = "closed"

\* What was cancelled stays cancelled.
LEMMA CancelStays ==
    ASSUME IInv, [Next]_vars, NEW g \in Gen, Cancel(g)
    PROVE  Cancel(g)'
<1> USE DEF Cancel, slotVars, callVars, taskVars, connVars, reqVars
<1>0. life \in [Gen -> {"unborn", "installed", "taken", "cancelled", "retired"}] /\ g # None
  BY Generations DEF IInv, TypeOK, None
<1>1. connection # g
  BY <1>0 DEF IInv, Slot
<1>2. CASE \E c \in Connect : Install(c)
  <2>1. PICK c \in Connect : Install(c)
    BY <1>2
  <2>2. life[gen[c]] = "unborn"
    BY <2>1 DEF Install, IInv, Born, Caller
  <2> QED
    BY <1>0, <1>1, <2>1, <2>2 DEF Install
<1>3. CASE \E d \in Disconnect : BeginDisconnect(d)
  BY <1>0, <1>1, <1>3 DEF BeginDisconnect
<1>4. CASE \E k \in Caller : CallerCancels(k) \/ CallerClears(k)
  BY <1>0, <1>4 DEF CallerCancels, CallerClears, Cancelled, Clear
<1>5. CASE \E h \in Gen : WriterFinishes(h) \/ ReaderFinishes(h)
  BY <1>0, <1>1, <1>5
  DEF WriterFinishes, ReaderFinishes, Finish, ClearGeneration, Takes, TaskCancels,
      TaskClears, Cancelled, Clear
<1>6. CASE UNCHANGED life
  BY <1>6
<1> QED
  BY <1>2, <1>3, <1>4, <1>5, <1>6
  DEF Next, BeginConnect, OpenFails, Superseded, SpawnTasks, Write, WriterEnds, Deliver,
      ReaderEnds, PeerAnswers, PeerCloses, Ask, AskRefused, Hear, Expire, TakeBack, vars

\* A peer that has gone does not come back.
LEMMA SocketStays ==
    ASSUME TypeOK, [Next]_vars, NEW g \in Gen, socket[g] = "closed"
    PROVE  socket'[g] = "closed"
<1>1. CASE \E h \in Gen : PeerCloses(h)
  BY <1>1 DEF PeerCloses, TypeOK
<1>2. CASE UNCHANGED socket
  BY <1>2
<1> QED
  BY <1>1, <1>2
  DEF Next, BeginConnect, OpenFails, Install, Superseded, SpawnTasks, BeginDisconnect,
      CallerCancels, CallerClears, Write, WriterEnds, Deliver, ReaderEnds, WriterFinishes,
      ReaderFinishes, Finish, ClearGeneration, TaskCancels, TaskClears, PeerAnswers, Ask,
      AskRefused, Hear, Expire, TakeBack, vars, connVars

\* The loops are left for these reasons only.
LEMMA LoopsEnd ==
    ASSUME TypeOK, [Next]_vars, NEW g \in Gen
    PROVE  /\ writer'[g] = "ending" =>
                writer[g] = "ending" \/ Cancel(g) \/ socket[g] = "closed"
           /\ reader'[g] = "ending" =>
                reader[g] = "ending" \/ Cancel(g) \/ socket[g] = "closed"
<1> USE DEF TypeOK, taskVars
<1>1. CASE \E c \in Connect : SpawnTasks(c)
  BY <1>1 DEF SpawnTasks
<1>2. CASE \E h \in Gen : Write(h)
  BY <1>2 DEF Write
<1>3. CASE \E h \in Gen : WriterEnds(h) \/ ReaderEnds(h)
  BY <1>3 DEF WriterEnds, ReaderEnds
<1>4. CASE \E h \in Gen : WriterFinishes(h) \/ ReaderFinishes(h)
  BY <1>4 DEF WriterFinishes, ReaderFinishes, Finish, ClearGeneration, TaskCancels, TaskClears
<1>5. CASE UNCHANGED <<writer, reader>>
  BY <1>5
<1> QED
  BY <1>1, <1>2, <1>3, <1>4, <1>5
  DEF Next, BeginConnect, OpenFails, Install, Superseded, BeginDisconnect, CallerCancels,
      CallerClears, Deliver, PeerAnswers, PeerCloses, Ask, AskRefused, Hear, Expire,
      TakeBack, vars

\* The slot is emptied by a disconnect, or by a task of the connection in it.
LEMMA WhoEmpties ==
    ASSUME IInv, [Next]_vars, connection # None, connection' = None
    PROVE  \/ writer[connection] = "ending" \/ reader[connection] = "ending"
           \/ \E d \in Disconnect : call[d] = "idle" /\ call'[d] # "idle"
<1> USE DEF slotVars
<1>0. TypeOK
  BY DEF IInv
<1>1. CASE \E c \in Connect : Install(c)
  <2>1. PICK c \in Connect : Install(c)
    BY <1>1
  <2>2. gen[c] \in 1 .. generation /\ connection' = gen[c]
    BY <2>1 DEF Install, IInv, Numbered, Caller
  <2> QED
    BY <2>2, Generations DEF None, IInv
<1>2. CASE \E d \in Disconnect : BeginDisconnect(d)
  <2>1. PICK d \in Disconnect : BeginDisconnect(d)
    BY <1>2
  <2>2. call[d] = "idle" /\ call'[d] # "idle"
    BY <1>0, <2>1 DEF BeginDisconnect, TypeOK, Caller
  <2> QED
    BY <2>2
<1>3. CASE \E h \in Gen : WriterFinishes(h) \/ ReaderFinishes(h)
  BY <1>3 DEF WriterFinishes, ReaderFinishes, Finish, ClearGeneration, Takes, TaskCancels,
     TaskClears
<1>4. CASE UNCHANGED connection
  BY <1>4
<1> QED
  BY <1>1, <1>2, <1>3, <1>4
  DEF Next, BeginConnect, OpenFails, Superseded, SpawnTasks, CallerCancels, CallerClears,
      Write, WriterEnds, Deliver, ReaderEnds, PeerAnswers, PeerCloses, Ask, AskRefused,
      Hear, Expire, TakeBack, vars

-----------------------------------------------------------------------------
(* The theorems                                                              *)

LEMMA InitIInv == Init => IInv
<1> SUFFICES ASSUME Init PROVE IInv
  OBVIOUS
<1>1. TypeOK
  BY FiniteCallers DEF Init, TypeOK, CallPC, TaskPC, ReqPC, None
<1>2. Counted
  <2>1. Begun = {}
    BY DEF Begun, Init
  <2>2. QED
    BY <2>1, FS_EmptySet DEF Counted, Init
<1>3. QED
  BY <1>1, <1>2 DEF Init, IInv, TypeOK, Numbered, Late, Born, Slot, Gone, Emptied, Served,
                    Begun, Caller, None

LEMMA IInvStep == IInv /\ [Next]_vars => IInv'
<1> SUFFICES ASSUME IInv, [Next]_vars PROVE IInv'
  OBVIOUS
<1>1. CASE UNCHANGED vars
  <2>1. TypeOK' /\ UNCHANGED <<slotVars, callVars, life, pending, writer, reader>>
    BY <1>1 DEF IInv, TypeOK, vars, slotVars, callVars, taskVars, connVars, reqVars
  <2>2. QED
    BY <2>1, Aside
<1>2. CASE Next
  BY <1>2, ConnectKeeps, CallerKeeps, TaskKeeps, LoopKeeps, RequestKeeps DEF Next, Caller
<1>3. QED
  BY <1>1, <1>2

\* The inductive invariant.
THEOREM WsInvariant == Spec => []IInv
<1> QED
  BY InitIInv, IInvStep, PTL DEF Spec

\* connect: one that resolves late is Superseded; it never replaces a newer
\* connection and never undoes a disconnect that began after it.
THEOREM WsLateIsSuperseded == Spec => []LateIsSuperseded
<1>1. IInv => LateIsSuperseded
  BY DEF IInv, Late, LateIsSuperseded
<1>2. QED
  BY <1>1, WsInvariant, PTL

\* Connection::retire: whoever waits on a connection that is retired hears of
\* it at once, and the slot's connection still has its writer.
THEOREM WsNothingLeftWaiting == Spec => []NothingLeftWaiting
<1>1. IInv => NothingLeftWaiting
  <2> SUFFICES ASSUME IInv PROVE NothingLeftWaiting
    OBVIOUS
  <2>1. ASSUME NEW r \in Request, req[r] = "waiting", HasSender(r), life[at[r].conn] = "retired"
        PROVE  FALSE
    BY <2>1 DEF IInv, TypeOK, Emptied, HasSender
  <2>2. QED
    BY <2>1 DEF NothingLeftWaiting, IInv, Served
<1>2. QED
  BY <1>1, WsInvariant, PTL

\* The end of an old connection's tasks does not touch a newer connection: the
\* slot is emptied by a disconnect, or when the peer of the connection in it has
\* gone (clear_generation of correlated_ws.rs).
THEOREM WsOnlyOwnEnds == Spec => OnlyOwnEnds
<1> DEFINE Reasons == IInv /\ Ended(writer) /\ Ended(reader)
<1>1. Init => Reasons
  <2>1. Init => IInv
    BY InitIInv
  <2>2. Init => Ended(writer) /\ Ended(reader)
    BY DEF Init, Ended
  <2> QED
    BY <2>1, <2>2
<1>2. Reasons /\ [Next]_vars => Reasons'
  <2> SUFFICES ASSUME Reasons, [Next]_vars PROVE Reasons'
    OBVIOUS
  <2>1. IInv'
    BY IInvStep
  <2>2. TypeOK
    BY DEF IInv
  <2>3. ASSUME NEW g \in Gen, Cancel(g) \/ socket[g] = "closed"
        PROVE  Cancel(g)' \/ socket'[g] = "closed"
    BY <2>2, <2>3, CancelStays, SocketStays
  <2>4. Ended(writer)' /\ Ended(reader)'
    BY <2>2, <2>3, LoopsEnd DEF Ended
  <2> QED
    BY <2>1, <2>4
<1>3. Reasons /\ [Next]_vars =>
         [connection # None /\ connection' = None =>
            \/ socket[connection] = "closed"
            \/ \E d \in Disconnect : call[d] = "idle" /\ call'[d] # "idle"]_vars
  <2> SUFFICES ASSUME Reasons, [Next]_vars, connection # None, connection' = None
               PROVE  \/ socket[connection] = "closed"
                      \/ \E d \in Disconnect : call[d] = "idle" /\ call'[d] # "idle"
    OBVIOUS
  <2>1. connection \in Gen /\ ~Cancel(connection)
    BY DEF IInv, TypeOK, Slot, Cancel
  <2> QED
    BY <2>1, WhoEmpties DEF Ended
<1>4. QED
  BY <1>1, <1>2, <1>3, PTL DEF Spec, OnlyOwnEnds

=============================================================================
