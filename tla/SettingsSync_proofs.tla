------------------------- MODULE SettingsSync_proofs -------------------------
(***************************************************************************)
(* Theorems about SettingsSync for any machines, any groups, slow or not,  *)
(* any machine whose user opts out or signs out, any groups that are       *)
(* turned on and off, and any bound on the clock.                          *)
(*                                                                         *)
(* What a step does to the record of a run is proved once, field by field; *)
(* the invariant is then kept action by action.  The server's stamp of a   *)
(* group only grows, so what a machine has seen of it is never undone      *)
(* (Synced); and a value and its stamp travel together (Stamped).          *)
(***************************************************************************)
EXTENDS SettingsSync, TLAPS

Working == {"pulling", "pulled", "pushing", "pushed", "refused", "binding"}
Works(m) == job[m].pc \in Working

\* A request that no run has begun waits for one that will: the run in flight
\* has the group before it, or the next one has, and the group is still wanted.
Waiting ==
    \A m \in Machine :
        /\ asked[m] \subseteq job[m].todo \union pending[m]
        /\ \A g \in asked[m] : on[m][g]
        /\ Allowed(m) \/ asked[m] = {}
        /\ job[m].pc = "idle" => job[m].todo = {} /\ job[m].covers = {} /\ pending[m] = {}

\* A run at work has its group, and a row where it needs one and not before; a
\* run between two groups holds nothing.
Placed ==
    \A m \in Machine :
        /\ job[m].pc \in {"idle", "loop"} => job[m].local = 0 /\ job[m].got = None
        /\ job[m].pc = "pulling" => job[m].got = None
        /\ Works(m) => job[m].group \in Group
        /\ job[m].pc \in {"refused", "binding"} => job[m].got # None
        /\ job[m].pc = "refused" => job[m].mtime <= job[m].got.at
        /\ job[m].pc = "binding" => job[m].group \in Slow

\* No value comes from the future.
Past ==
    /\ \A m \in Machine, g \in Group : value[m][g] <= now
    /\ \A g \in Group : server[g] # None => server[g].payload <= now
    /\ \A m \in Machine : /\ job[m].local <= now
                          /\ job[m].got # None => job[m].got.payload <= now

\* The account had the row: it has it now, or a later one.
Had(g, payload, at) ==
    /\ server[g] # None /\ at <= server[g].at
    /\ at = server[g].at => payload = server[g].payload

\* What the machines know of the account, it has had.
Synced ==
    /\ SyncedIsTrue
    /\ \A m \in Machine : Works(m) =>
          /\ job[m].got # None => Had(job[m].group, job[m].got.payload, job[m].got.at)
          /\ job[m].pc = "pushed" => Had(job[m].group, job[m].local, job[m].mtime)

\* A value carries the time of the edit that made it, unless it is the default
\* or its edit was not stamped.
True(v, at) == v = 0 \/ v \in missed \/ at = v

\* Every value that is passed on does; one that is not passed on yet is the
\* last edit on record, or the one last synced.
Stamped ==
    /\ \A g \in Group \ Slow : server[g] # None => True(server[g].payload, server[g].at)
    /\ \A m \in Machine, g \in Group \ Slow :
          /\ meta[m][g].hash # None => True(meta[m][g].hash, meta[m][g].mtime)
          /\ True(value[m][g], edits[m][g]) \/ value[m][g] = meta[m][g].hash
    /\ \A m \in Machine : Works(m) /\ job[m].group \notin Slow =>
          /\ True(job[m].local, job[m].mtime)
          /\ job[m].got # None => True(job[m].got.payload, job[m].got.at)
          /\ value[m][job[m].group] = job[m].local
                \/ True(value[m][job[m].group], edits[m][job[m].group])

\* A binding is written only where there is none.
Bare == \A m \in Machine : job[m].pc = "binding" =>
            value[m][job[m].group] = 0 \/ value[m][job[m].group] \in missed

IInv == TypeOK /\ Waiting /\ Placed /\ Past /\ Synced /\ Stamped /\ Bare

Pcs == {"idle", "loop", "pulling", "pulled", "pushing", "pushed", "refused", "binding"}
Jobs == [pc : Pcs, covers : SUBSET Group, todo : SUBSET Group, group : Group \union {None},
         local : Time, mtime : Time, got : Row \union {None}]

-----------------------------------------------------------------------------
(* What the operators on a run do to its record.                           *)

\* The types of the fields of a run.
LEMMA JobFields ==
    ASSUME NEW j \in Jobs
    PROVE  /\ j.pc \in Pcs /\ j.covers \subseteq Group /\ j.todo \subseteq Group
           /\ j.group \in Group \union {None} /\ j.local \in Time /\ j.mtime \in Time
           /\ j.got \in Row \union {None}
  BY DEF Jobs

\* A run that is not in flight holds nothing.
LEMMA NoJobFields ==
    /\ NoJob \in Jobs
    /\ NoJob.pc = "idle" /\ NoJob.covers = {} /\ NoJob.todo = {}
    /\ NoJob.local = 0 /\ NoJob.got = None
  BY TimeAssumption DEF NoJob, Jobs, Pcs, Time

\* A run begins before its first group, with all of them to do.
LEMMA StartingFields ==
    ASSUME NEW T \in SUBSET Group
    PROVE  /\ Starting(T) \in Jobs
           /\ Starting(T).pc = "loop" /\ Starting(T).covers = T /\ Starting(T).todo = T
           /\ Starting(T).local = 0 /\ Starting(T).got = None
<1>1. NoJob \in Jobs /\ NoJob.local = 0 /\ NoJob.got = None
  BY NoJobFields
<1>2. Starting(T) \in Jobs
  BY <1>1 DEF Starting, Jobs, Pcs
<1>3. /\ Starting(T).pc = "loop" /\ Starting(T).covers = T /\ Starting(T).todo = T
      /\ Starting(T).local = 0 /\ Starting(T).got = None
  BY <1>1 DEF Starting, Jobs
<1> QED
  BY <1>2, <1>3

\* A run goes on to its next group, and forgets the last.
LEMMA GoOnFields ==
    ASSUME NEW m \in Machine, job[m] \in Jobs
    PROVE  /\ GoOn(m) \in Jobs
           /\ GoOn(m).pc = "loop"
           /\ GoOn(m).covers = job[m].covers /\ GoOn(m).todo = job[m].todo
           /\ GoOn(m).local = 0 /\ GoOn(m).got = None
<1>1. 0 \in Time
  BY TimeAssumption DEF Time
<1>2. GoOn(m) \in Jobs
  BY <1>1 DEF GoOn, Jobs, Pcs
<1>3. /\ GoOn(m).pc = "loop"
      /\ GoOn(m).covers = job[m].covers /\ GoOn(m).todo = job[m].todo
      /\ GoOn(m).local = 0 /\ GoOn(m).got = None
  BY DEF GoOn, Jobs
<1> QED
  BY <1>2, <1>3

\* Each machine has a run, or none.
LEMMA TypeJobs == TypeOK => job \in [Machine -> Jobs]
  BY DEF TypeOK, Jobs, Pcs

\* A step of a run changes the run of its machine and no other: what Skip does,
LEMMA SkipFacts ==
    ASSUME TypeOK, NEW m \in Machine, NEW g \in Group, Skip(m, g)
    PROVE  /\ job' \in [Machine -> Jobs]
           /\ \A n \in Machine \ {m} : job'[n] = job[n]
           /\ job'[m].pc = "loop" /\ job'[m].todo = job[m].todo \ {g}
           /\ job'[m].covers = job[m].covers
           /\ job'[m].local = job[m].local /\ job'[m].got = job[m].got
<1> job \in [Machine -> Jobs]
  BY TypeJobs
<1> QED
  BY DEF Skip, Jobs

\* what the pull does,
LEMMA PullReadsFacts ==
    ASSUME TypeOK, Placed, NEW m \in Machine, PullReads(m)
    PROVE  /\ job' \in [Machine -> Jobs]
           /\ \A n \in Machine \ {m} : job'[n] = job[n]
           /\ job'[m].pc = "pulled" /\ job'[m].todo = job[m].todo
           /\ job'[m].covers = job[m].covers /\ job'[m].group = job[m].group
           /\ job'[m].local = job[m].local /\ job'[m].mtime = job[m].mtime
           /\ job'[m].got = server[job[m].group]
<1> job \in [Machine -> Jobs]
  BY TypeJobs
<1>1. server[job[m].group] \in Row \union {None}
  BY DEF PullReads, TypeOK, Placed, Works, Working
<1> QED
  BY <1>1 DEF PullReads, Jobs, Pcs

\* what collecting does, and the time a group is collected with,
LEMMA CollectFacts ==
    ASSUME TypeOK, NEW m \in Machine, NEW g \in Group, Collect(m, g)
    PROVE  /\ job' \in [Machine -> Jobs]
           /\ \A n \in Machine \ {m} : job'[n] = job[n]
           /\ job'[m].pc = "pulling" /\ job'[m].todo = job[m].todo \ {g}
           /\ job'[m].covers = job[m].covers /\ job'[m].group = g
           /\ job'[m].local = value[m][g] /\ job'[m].got = job[m].got
           /\ now' \in Time /\ now <= now'
           /\ IF Dirty(m, g, value[m][g])
              THEN job'[m].mtime = edits[m][g] \/ edits[m][g] = 0
              ELSE job'[m].mtime = meta[m][g].mtime
<1> job \in [Machine -> Jobs]
  BY TypeJobs
<1>a. value[m][g] \in Time /\ edits[m][g] \in Time /\ meta[m][g].mtime \in Time /\ now \in Time
  BY DEF TypeOK
<1>0. /\ job[m] \in Jobs /\ job[m].covers \subseteq Group /\ job[m].todo \subseteq Group
      /\ job[m].got \in Row \union {None}
  BY JobFields
<1>1. ASSUME NEW t \in Time, Collected(m, g, t)
      PROVE  /\ job' \in [Machine -> Jobs]
             /\ \A n \in Machine \ {m} : job'[n] = job[n]
             /\ job'[m].pc = "pulling" /\ job'[m].todo = job[m].todo \ {g}
             /\ job'[m].covers = job[m].covers /\ job'[m].group = g
             /\ job'[m].local = value[m][g] /\ job'[m].got = job[m].got
             /\ job'[m].mtime = t
  <2> DEFINE run == [job[m] EXCEPT !.pc = "pulling", !.todo = @ \ {g}, !.group = g,
                                   !.local = value[m][g], !.mtime = t]
  <2>1. /\ run \in Jobs
        /\ run.pc = "pulling" /\ run.todo = job[m].todo \ {g} /\ run.covers = job[m].covers
        /\ run.group = g /\ run.local = value[m][g] /\ run.got = job[m].got
        /\ run.mtime = t
    BY <1>0, <1>a DEF Jobs, Pcs
  <2>2. job' = [job EXCEPT ![m] = run]
    BY <1>0, <1>1 DEF Collected, Jobs
  <2> HIDE DEF run
  <2> QED
    BY <2>1, <2>2
<1>2. now \in Nat /\ now' \in Time /\ now <= now'
  BY <1>a, TimeAssumption DEF Time, Collect
<1>3. CASE Dirty(m, g, value[m][g]) /\ edits[m][g] # 0
  BY <1>1, <1>2, <1>3, <1>a DEF Collect
<1>4. CASE Dirty(m, g, value[m][g]) /\ edits[m][g] = 0
  BY <1>1, <1>2, <1>4, <1>a DEF Collect
<1>5. CASE ~Dirty(m, g, value[m][g])
  BY <1>1, <1>2, <1>5, <1>a DEF Collect
<1> QED
  BY <1>3, <1>4, <1>5

\* what adopting a row does,
LEMMA AdoptedFacts ==
    ASSUME TypeOK, NEW m \in Machine, NEW g \in Group, NEW v \in Time, NEW row \in Row,
           Adopted(m, g, v, row)
    PROVE  /\ job' \in [Machine -> Jobs] /\ job' = [job EXCEPT ![m] = GoOn(m)]
           /\ value' \in [Machine -> [Group -> Time]]
           /\ value'[m][g] = v
           /\ \A n \in Machine, h \in Group : n # m \/ h # g => value'[n][h] = value[n][h]
           /\ meta' \in [Machine -> [Group -> [hash : Time \union {None}, mtime : Time]]]
           /\ meta'[m][g].hash = v /\ meta'[m][g].mtime = row.at
           /\ \A n \in Machine, h \in Group : n # m \/ h # g => meta'[n][h] = meta[n][h]
<1> job \in [Machine -> Jobs]
  BY TypeJobs
<1>1. job' \in [Machine -> Jobs] /\ job' = [job EXCEPT ![m] = GoOn(m)]
  BY GoOnFields DEF Adopted
<1>2. /\ value' \in [Machine -> [Group -> Time]]
      /\ value'[m][g] = v
      /\ \A n \in Machine, h \in Group : n # m \/ h # g => value'[n][h] = value[n][h]
  BY DEF Adopted, TypeOK
<1>3. row.at \in Time
  BY DEF Row
<1>4. [hash |-> v, mtime |-> row.at] \in [hash : Time \union {None}, mtime : Time]
  BY <1>3
<1>5. /\ meta' \in [Machine -> [Group -> [hash : Time \union {None}, mtime : Time]]]
      /\ meta'[m][g] = [hash |-> v, mtime |-> row.at]
      /\ \A n \in Machine, h \in Group : n # m \/ h # g => meta'[n][h] = meta[n][h]
  BY <1>4 DEF Adopted, TypeOK
<1>6. meta'[m][g].hash = v /\ meta'[m][g].mtime = row.at
  BY <1>5
<1> QED
  BY <1>1, <1>2, <1>5, <1>6

\* what it does to hold a row,
LEMMA FollowFacts ==
    ASSUME TypeOK, NEW m \in Machine, NEW row \in Row, NEW p \in Pcs,
           job' = [job EXCEPT ![m].pc = p, ![m].got = row]
    PROVE  /\ job' \in [Machine -> Jobs]
           /\ \A n \in Machine \ {m} : job'[n] = job[n]
           /\ job'[m].pc = p /\ job'[m].got = row
           /\ job'[m].todo = job[m].todo /\ job'[m].covers = job[m].covers
           /\ job'[m].group = job[m].group
           /\ job'[m].local = job[m].local /\ job'[m].mtime = job[m].mtime
<1> job \in [Machine -> Jobs]
  BY TypeJobs
<1> QED
  BY DEF Jobs

\* to set out to push,
LEMMA PushingFacts ==
    ASSUME TypeOK, NEW m \in Machine,
           job' = [job EXCEPT ![m] = [@ EXCEPT !.pc = "pushing", !.got = None]]
    PROVE  /\ job' \in [Machine -> Jobs]
           /\ \A n \in Machine \ {m} : job'[n] = job[n]
           /\ job'[m].pc = "pushing" /\ job'[m].got = None
           /\ job'[m].todo = job[m].todo /\ job'[m].covers = job[m].covers
           /\ job'[m].group = job[m].group
           /\ job'[m].local = job[m].local /\ job'[m].mtime = job[m].mtime
<1> job \in [Machine -> Jobs]
  BY TypeJobs
<1> QED
  BY DEF Jobs, Pcs

\* to have pushed,
LEMMA PushedFacts ==
    ASSUME TypeOK, NEW m \in Machine, job' = [job EXCEPT ![m].pc = "pushed"]
    PROVE  /\ job' \in [Machine -> Jobs]
           /\ \A n \in Machine \ {m} : job'[n] = job[n]
           /\ job'[m].pc = "pushed" /\ job'[m].got = job[m].got
           /\ job'[m].todo = job[m].todo /\ job'[m].covers = job[m].covers
           /\ job'[m].group = job[m].group
           /\ job'[m].local = job[m].local /\ job'[m].mtime = job[m].mtime
<1> job \in [Machine -> Jobs]
  BY TypeJobs
<1> QED
  BY DEF Jobs, Pcs

\* to go on to the next group,
LEMMA GoesOnFacts ==
    ASSUME TypeOK, NEW m \in Machine, job' = [job EXCEPT ![m] = GoOn(m)]
    PROVE  /\ job' \in [Machine -> Jobs]
           /\ \A n \in Machine \ {m} : job'[n] = job[n]
           /\ job'[m].pc = "loop" /\ job'[m].got = None /\ job'[m].local = 0
           /\ job'[m].todo = job[m].todo /\ job'[m].covers = job[m].covers
<1> job \in [Machine -> Jobs]
  BY TypeJobs
<1> QED
  BY GoOnFields

\* and to end.
LEMMA EndsFacts ==
    ASSUME TypeOK, NEW m \in Machine, Ends(m)
    PROVE  /\ job' \in [Machine -> Jobs]
           /\ \A n \in Machine \ {m} : job'[n] = job[n] /\ pending'[n] = pending[n]
           /\ job'[m].got = None /\ job'[m].local = 0
           /\ pending'[m] = {} /\ pending' \in [Machine -> SUBSET Group]
           /\ IF pending[m] # {} /\ signedIn[m]
              THEN job'[m].pc = "loop" /\ job'[m].todo = pending[m]
              ELSE job'[m].pc = "idle" /\ job'[m].todo = {} /\ job'[m].covers = {}
<1> job \in [Machine -> Jobs]
  BY TypeJobs
<1>1. pending[m] \in SUBSET Group
  BY DEF TypeOK
<1>2. /\ pending' \in [Machine -> SUBSET Group] /\ pending'[m] = {}
      /\ \A n \in Machine \ {m} : pending'[n] = pending[n]
  BY DEF TypeOK, Ends
<1> QED
  BY <1>1, <1>2, StartingFields, NoJobFields DEF Ends

\* A request begins a run if none is in flight, and waits for the next one otherwise.
LEMMA RequestFacts ==
    ASSUME TypeOK, NEW m \in Machine, NEW T \in SUBSET Group, NEW before \in SUBSET Group,
           Request(m, T, before)
    PROVE  /\ job' \in [Machine -> Jobs] /\ pending' \in [Machine -> SUBSET Group]
           /\ asked' \in [Machine -> SUBSET Group]
           /\ asked'[m] = before \union (T \ job[m].covers)
           /\ \A n \in Machine \ {m} : /\ job'[n] = job[n] /\ pending'[n] = pending[n]
                                       /\ asked'[n] = asked[n]
           /\ \/ /\ job[m].pc = "idle" /\ T # {} /\ pending' = pending
                 /\ job'[m].pc = "loop" /\ job'[m].todo = T /\ job'[m].covers = T
                 /\ job'[m].local = 0 /\ job'[m].got = None
              \/ /\ job[m].pc # "idle" \/ T = {}
                 /\ job' = job
                 /\ pending'[m] = pending[m] \union (T \ job[m].covers)
<1> job \in [Machine -> Jobs]
  BY TypeJobs
<1> asked \in [Machine -> SUBSET Group] /\ pending \in [Machine -> SUBSET Group]
  BY DEF TypeOK
<1>1. /\ asked' \in [Machine -> SUBSET Group]
      /\ asked'[m] = before \union (T \ job[m].covers)
      /\ \A n \in Machine \ {m} : asked'[n] = asked[n]
  BY DEF Request
<1>2. CASE job[m].pc = "idle" /\ T # {}
  BY <1>1, <1>2, StartingFields DEF Request
<1>3. CASE ~(job[m].pc = "idle" /\ T # {})
  BY <1>1, <1>3 DEF Request
<1> QED
  BY <1>2, <1>3

-----------------------------------------------------------------------------
(* Requests and toggles.                                                   *)

\* The run of machine n goes on as it was, or is between two groups, or over.
Rests(n) ==
    \/ job'[n] = job[n]
    \/ job'[n].pc \in {"idle", "loop"} /\ job'[n].local = 0 /\ job'[n].got = None

\* A step that leaves the data as they are and starts no work keeps what is said
\* of the data and of runs at work.
LEMMA RestKept ==
    ASSUME IInv, UNCHANGED data, \A n \in Machine : Rests(n)
    PROVE  Placed' /\ Past' /\ Synced' /\ Stamped' /\ Bare'
<1> USE DEF IInv, data, Rests
<1>1. Placed'
  BY DEF Placed, Works, Working
<1>2. Past'
  <2>1. now \in Nat
    BY TimeAssumption DEF TypeOK, Time
  <2> QED
    BY <2>1 DEF Past
<1>3. Synced'
  BY DEF Synced, SyncedIsTrue, Had, Works, Working
<1>4. Stamped'
  BY DEF Stamped, True, Works, Working
<1>5. Bare'
  BY DEF Bare
<1> QED
  BY <1>1, <1>2, <1>3, <1>4, <1>5

\* A request keeps Waiting if it is for groups that are on, and for none unless
\* the sync is on.
LEMMA RequestWaits ==
    ASSUME IInv, NEW m \in Machine, NEW T \in SUBSET Group, NEW before \in SUBSET asked[m],
           Request(m, T, before),
           \A g \in T \union before : on'[m][g],
           Allowed(m)' \/ T \union before = {},
           \A n \in Machine \ {m} : /\ on'[n] = on[n] /\ signedIn'[n] = signedIn[n]
                                    /\ optedIn'[n] = optedIn[n]
    PROVE  Waiting'
<1>0. before \in SUBSET Group
  BY DEF IInv, TypeOK
<1>1. \A n \in Machine \ {m} : /\ job'[n] = job[n] /\ pending'[n] = pending[n]
                               /\ asked'[n] = asked[n]
  BY <1>0, RequestFacts DEF IInv
<1>2. asked'[m] = before \union (T \ job[m].covers)
  BY DEF Request, IInv, TypeOK
<1>a. /\ asked[m] \subseteq job[m].todo \union pending[m]
      /\ job[m].pc = "idle" => asked[m] = {}
  BY DEF IInv, Waiting
<1>b. \/ job[m].pc = "idle" /\ job'[m].todo = T
      \/ /\ job' = job
         /\ pending'[m] = pending[m] \union (T \ job[m].covers)
  BY <1>0, RequestFacts DEF IInv
<1>3. asked'[m] \subseteq job'[m].todo \union pending'[m]
  BY <1>2, <1>a, <1>b
<1>4. job'[m].pc = "idle" => job'[m].todo = {} /\ job'[m].covers = {} /\ pending'[m] = {}
  <2>1. \/ job'[m].pc = "loop"
        \/ /\ job[m].pc # "idle" \/ T = {}
           /\ job' = job
           /\ pending'[m] = pending[m] \union (T \ job[m].covers)
    BY <1>0, RequestFacts DEF IInv
  <2>2. job[m].pc = "idle" => job[m].todo = {} /\ job[m].covers = {} /\ pending[m] = {}
    BY DEF IInv, Waiting
  <2> QED
    BY <2>1, <2>2
<1>5. \A n \in Machine \ {m} : Allowed(n)' <=> Allowed(n)
  BY DEF Allowed
<1> QED
  BY <1>1, <1>2, <1>3, <1>4, <1>5 DEF IInv, Waiting

\* A request that comes with a change of the toggles, or none, keeps the invariant.
LEMMA RequestKept ==
    ASSUME IInv, NEW m \in Machine, NEW T \in SUBSET Group, NEW before \in SUBSET asked[m],
           Request(m, T, before),
           \A g \in T \union before : on'[m][g],
           Allowed(m)' \/ T \union before = {},
           \A n \in Machine \ {m} : /\ on'[n] = on[n] /\ signedIn'[n] = signedIn[n]
                                    /\ optedIn'[n] = optedIn[n],
           signedIn' \in [Machine -> BOOLEAN], optedIn' \in [Machine -> BOOLEAN],
           on' \in [Machine -> [Group -> BOOLEAN]], loaded' \in [Machine -> BOOLEAN],
           UNCHANGED data
    PROVE  IInv'
<1>0. before \in SUBSET Group
  BY DEF IInv, TypeOK
<1>1. Waiting'
  BY RequestWaits
<1>2. TypeOK'
  BY <1>0, RequestFacts DEF IInv, TypeOK, Jobs, Pcs, data
<1>3. \A n \in Machine : Rests(n)
  BY <1>0, RequestFacts DEF IInv, Rests
<1> QED
  BY <1>1, <1>2, <1>3, RestKept DEF IInv

\* What the user does to the toggles, and the requests that follow.
LEMMA UserKept ==
    ASSUME IInv, NEW m \in Machine,
           \/ SyncNow(m) \/ OptIn(m) \/ Load(m) \/ OptOut(m) \/ SignOut(m) \/ SignIn(m)
           \/ \E g \in Group : TurnOn(m, g) \/ TurnOff(m, g)
    PROVE  IInv'
<1>0. /\ TypeOK /\ Waiting
      /\ signedIn \in [Machine -> BOOLEAN] /\ optedIn \in [Machine -> BOOLEAN]
      /\ on \in [Machine -> [Group -> BOOLEAN]] /\ loaded \in [Machine -> BOOLEAN]
      /\ asked \in [Machine -> SUBSET Group]
  BY DEF IInv, TypeOK
<1>a. /\ EnabledGroups(m) \in SUBSET Group /\ \A g \in EnabledGroups(m) : on[m][g]
      /\ EnabledGroups(m) # {} => optedIn[m]
  BY DEF EnabledGroups
<1>b. Allowed(m) \/ asked[m] = {}
  BY <1>0 DEF Waiting
<1>c. \A g \in asked[m] : on[m][g]
  BY <1>0 DEF Waiting
<1>1. CASE SyncNow(m)
  <2>1. /\ Request(m, EnabledGroups(m), asked[m]) /\ UNCHANGED data
        /\ UNCHANGED <<signedIn, optedIn, on, loaded>> /\ signedIn[m] /\ EnabledGroups(m) # {}
    BY <1>1 DEF SyncNow, Sync, toggles
  <2>2. Allowed(m)'
    BY <2>1, <1>a DEF Allowed
  <2> QED
    BY <2>1, <2>2, <1>0, <1>a, <1>c, RequestKept
<1>2. CASE OptIn(m)
  <2> DEFINE T == {g \in Group : on[m][g]}
  <2>1. /\ Request(m, T, asked[m]) /\ UNCHANGED data
        /\ UNCHANGED <<signedIn, on, loaded>> /\ signedIn[m]
        /\ optedIn' = [optedIn EXCEPT ![m] = TRUE]
    BY <1>2 DEF OptIn, Sync
  <2>2. Allowed(m)'
    BY <2>1, <1>0 DEF Allowed
  <2>3. T \in SUBSET Group /\ \A g \in T : on[m][g]
    OBVIOUS
  <2>4. optedIn' \in [Machine -> BOOLEAN] /\ \A n \in Machine \ {m} : optedIn'[n] = optedIn[n]
    BY <2>1, <1>0
  <2> HIDE DEF T
  <2> QED
    BY <2>1, <2>2, <2>3, <2>4, <1>0, <1>c, RequestKept
<1>3. CASE SignIn(m)
  <2>1. /\ Request(m, EnabledGroups(m), asked[m]) /\ UNCHANGED data
        /\ UNCHANGED <<optedIn, on, loaded>> /\ ~signedIn[m]
        /\ signedIn' = [signedIn EXCEPT ![m] = TRUE]
    BY <1>3 DEF SignIn, Sync
  <2>2. asked[m] = {}
    BY <2>1, <1>b DEF Allowed
  <2>3. Allowed(m)' \/ EnabledGroups(m) \union asked[m] = {}
    BY <2>1, <2>2, <1>0, <1>a DEF Allowed
  <2>4. /\ signedIn' \in [Machine -> BOOLEAN]
        /\ \A n \in Machine \ {m} : signedIn'[n] = signedIn[n]
    BY <2>1, <1>0
  <2> QED
    BY <2>1, <2>3, <2>4, <1>0, <1>a, <1>c, RequestKept
<1>4. ASSUME NEW g \in Group, TurnOn(m, g)
      PROVE  IInv'
  <2> DEFINE T == IF optedIn[m] THEN EnabledGroups(m) \union {g} ELSE {}
  <2>1. /\ Request(m, T, asked[m]) /\ UNCHANGED data
        /\ UNCHANGED <<signedIn, optedIn, loaded>> /\ signedIn[m]
        /\ on' = [on EXCEPT ![m][g] = TRUE]
    BY <1>4 DEF TurnOn, Sync
  <2>2. /\ on' \in [Machine -> [Group -> BOOLEAN]]
        /\ \A n \in Machine \ {m} : on'[n] = on[n]
        /\ \A h \in Group : on'[m][h] <=> on[m][h] \/ h = g
    BY <2>1, <1>0
  <2>3. /\ T \in SUBSET Group
        /\ \A h \in T \union asked[m] : on'[m][h]
    BY <2>2, <1>0, <1>a, <1>c
  <2>4. Allowed(m)' \/ T \union asked[m] = {}
    BY <2>1, <1>b DEF Allowed
  <2> HIDE DEF T
  <2> QED
    BY <2>1, <2>2, <2>3, <2>4, <1>0, RequestKept
<1>5. ASSUME NEW g \in Group, TurnOff(m, g)
      PROVE  IInv'
  <2> DEFINE T == EnabledGroups(m) \ {g}
             before == asked[m] \ {g}
  <2>1. /\ Request(m, T, before) /\ UNCHANGED data
        /\ UNCHANGED <<signedIn, optedIn, loaded>> /\ signedIn[m]
        /\ on' = [on EXCEPT ![m][g] = FALSE]
    BY <1>5 DEF TurnOff
  <2>2. /\ on' \in [Machine -> [Group -> BOOLEAN]]
        /\ \A n \in Machine \ {m} : on'[n] = on[n]
        /\ \A h \in Group : on'[m][h] <=> on[m][h] /\ h # g
    BY <2>1, <1>0
  <2>3. /\ T \in SUBSET Group /\ before \in SUBSET asked[m]
        /\ \A h \in T \union before : on'[m][h]
    BY <2>2, <1>0, <1>a, <1>c
  <2>4. Allowed(m)' \/ T \union before = {}
    BY <2>1, <1>a, <1>b DEF Allowed
  <2> HIDE DEF T, before
  <2> QED
    BY <2>1, <2>2, <2>3, <2>4, <1>0, RequestKept
<1>6. CASE Load(m) \/ OptOut(m) \/ SignOut(m)
  <2>1. UNCHANGED data /\ UNCHANGED <<job, pending, on>>
    BY <1>6 DEF Load, OptOut, SignOut
  <2>2. TypeOK'
    BY <1>0, <1>6, <2>1 DEF TypeOK, Load, OptOut, SignOut, data
  <2>3. Waiting'
    BY <1>0, <1>6, <2>1 DEF Waiting, Allowed, Load, OptOut, SignOut
  <2>4. \A n \in Machine : Rests(n)
    BY <2>1 DEF Rests
  <2> QED
    BY <2>1, <2>2, <2>3, <2>4, RestKept DEF IInv
<1> QED
  BY <1>1, <1>2, <1>3, <1>4, <1>5, <1>6

-----------------------------------------------------------------------------
(* Edits and runs.                                                         *)

\* Times are numbers.
LEMMA Numbers == Time \subseteq Nat /\ 0 \in Time
  BY TimeAssumption DEF Time

\* None is no time, and no row.
LEMMA NoneIsOther == None \notin Time /\ None \notin Row
<1>1. None \notin Nat /\ None \notin [payload : Nat, at : Nat]
  BY NoneAssumption
<1>2. Row \subseteq [payload : Nat, at : Nat]
  BY Numbers DEF Row
<1> QED
  BY <1>1, <1>2, Numbers

\* An edit is the latest of all times, and is stamped or missed.
LEMMA EditKept ==
    ASSUME IInv, NEW m \in Machine, NEW g \in Group, Edit(m, g)
    PROVE  IInv'
<1>0. /\ TypeOK /\ now \in Nat
      /\ value \in [Machine -> [Group -> Time]] /\ edits \in [Machine -> [Group -> Time]]
  BY Numbers DEF IInv, TypeOK
<1>1. now' = now + 1 /\ now' \in Time /\ UNCHANGED <<server, meta, toggles, job, pending, asked>>
  BY <1>0, TimeAssumption DEF Edit, Time
<1>2. /\ value' \in [Machine -> [Group -> Time]] /\ value'[m][g] = now'
      /\ \A n \in Machine, h \in Group : n # m \/ h # g => value'[n][h] = value[n][h]
  BY <1>0, <1>1 DEF Edit
<1>3. /\ edits' \in [Machine -> [Group -> Time]]
      /\ \A n \in Machine, h \in Group : n # m \/ h # g => edits'[n][h] = edits[n][h]
      /\ IF job[m].pc = "binding" THEN edits' = edits /\ missed' = missed \union {now'}
         ELSE edits'[m][g] = now' /\ missed' = missed
  BY <1>0, <1>1 DEF Edit, Muted
<1>4. TypeOK'
  <2>1. missed' \subseteq Time
    BY <1>0, <1>1, <1>3 DEF TypeOK
  <2> QED
    BY <1>0, <1>1, <1>2, <1>3, <2>1 DEF TypeOK, toggles
<1>5. Waiting'
  BY <1>1 DEF IInv, Waiting, Allowed, toggles
<1>6. Placed'
  BY <1>1 DEF IInv, Placed, Works
<1>7. Past'
  <2>0. \A n \in Machine, h \in Group : value[n][h] \in Nat /\ value[n][h] <= now
    BY <1>0, Numbers DEF IInv, Past
  <2>1. \A n \in Machine, h \in Group : value'[n][h] <= now'
    BY <1>0, <1>1, <1>2, <2>0
  <2>2. \A n \in Machine : job[n].local \in Nat /\ (job[n].got # None => job[n].got.payload \in Nat)
    BY <1>0, TypeJobs, JobFields, Numbers DEF Row
  <2>3. \A h \in Group : server[h] # None => server[h].payload \in Nat
    BY <1>0, Numbers DEF TypeOK, Row
  <2> QED
    BY <1>0, <1>1, <2>1, <2>2, <2>3 DEF IInv, Past
<1>8. Synced'
  BY <1>1 DEF IInv, Synced, SyncedIsTrue, Had, Works
<1>9. Stamped'
  <2>1. \A v, t : True(v, t) => True(v, t)'
    BY <1>3 DEF True
  <2>2. True(value[m][g], edits[m][g])'
    BY <1>2, <1>3 DEF True
  <2>3. \A h \in Group \ Slow : server[h] # None => True(server[h].payload, server[h].at)'
    BY <1>1, <1>3 DEF IInv, Stamped, True
  <2>4. \A n \in Machine, h \in Group \ Slow :
          /\ meta[n][h].hash # None => True(meta[n][h].hash, meta[n][h].mtime)'
          /\ True(value[n][h], edits[n][h])' \/ value'[n][h] = meta[n][h].hash
    BY <1>1, <1>2, <1>3 DEF IInv, Stamped, True
  <2>5. ASSUME NEW n \in Machine, Works(n), job[n].group \notin Slow
        PROVE  /\ True(job[n].local, job[n].mtime)'
               /\ job[n].got # None => True(job[n].got.payload, job[n].got.at)'
               /\ value'[n][job[n].group] = job[n].local
                     \/ True(value[n][job[n].group], edits[n][job[n].group])'
    <3>1. /\ job[n].group \in Group
          /\ True(job[n].local, job[n].mtime)
          /\ job[n].got # None => True(job[n].got.payload, job[n].got.at)
          /\ value[n][job[n].group] = job[n].local
                \/ True(value[n][job[n].group], edits[n][job[n].group])
      BY <2>5 DEF IInv, Stamped, Placed
    <3>2. CASE n = m /\ job[n].group = g
      BY <1>1, <2>1, <2>2, <3>1, <3>2
    <3>3. CASE n # m \/ job[n].group # g
      <4>1. /\ value'[n][job[n].group] = value[n][job[n].group]
            /\ edits'[n][job[n].group] = edits[n][job[n].group]
        BY <1>2, <1>3, <3>1, <3>3
      <4> QED
        BY <1>1, <2>1, <3>1, <4>1 DEF True
    <3> QED
      BY <3>2, <3>3
  <2> QED
    BY <1>1, <2>3, <2>4, <2>5 DEF Stamped, Works
<1>10. Bare'
  BY <1>1, <1>2, <1>3 DEF IInv, Bare, Placed, Works, Working
<1> QED
  BY <1>4, <1>5, <1>6, <1>7, <1>8, <1>9, <1>10 DEF IInv

\* A changed group is collected with the time of its edit.
LEMMA CollectKept ==
    ASSUME IInv, NEW m \in Machine, NEW g \in Group, Collect(m, g)
    PROVE  IInv'
<1>0. TypeOK /\ now \in Nat
  BY Numbers DEF IInv, TypeOK
<1>1. /\ UNCHANGED <<server, value, edits, meta, toggles, pending, missed>>
      /\ job[m].pc = "loop" /\ asked' = [asked EXCEPT ![m] = @ \ {g}]
  BY DEF Collect
<1>2. /\ job' \in [Machine -> Jobs] /\ now' \in Time /\ now <= now'
      /\ \A n \in Machine \ {m} : job'[n] = job[n]
      /\ job'[m].pc = "pulling" /\ job'[m].todo = job[m].todo \ {g}
      /\ job'[m].covers = job[m].covers /\ job'[m].group = g
      /\ job'[m].local = value[m][g] /\ job'[m].got = job[m].got
      /\ IF meta[m][g].hash # value[m][g]
         THEN job'[m].mtime = edits[m][g] \/ edits[m][g] = 0
         ELSE job'[m].mtime = meta[m][g].mtime
  BY <1>0, CollectFacts DEF Dirty
<1>3. job'[m].got = None
  BY <1>1, <1>2 DEF IInv, Placed
<1>a. now' \in Nat
  BY <1>2, Numbers
<1>4. TypeOK'
  BY <1>0, <1>1, <1>2 DEF TypeOK, Jobs, Pcs, toggles
<1>5. Waiting'
  <2>1. asked' \in [Machine -> SUBSET Group] /\ asked'[m] = asked[m] \ {g}
        /\ \A n \in Machine \ {m} : asked'[n] = asked[n]
    BY <1>0, <1>1 DEF TypeOK
  <2> QED
    BY <1>1, <1>2, <2>1 DEF IInv, Waiting, Allowed, toggles
<1>6. Placed'
  BY <1>1, <1>2, <1>3 DEF IInv, Placed, Works
<1>7. Past'
  <2>1. \A n \in Machine, h \in Group : value[n][h] \in Nat
    <3>1. value \in [Machine -> [Group -> Time]]
      BY <1>0 DEF TypeOK
    <3> QED
      BY <3>1, Numbers
  <2>2. \A n \in Machine : job[n].local \in Nat /\ (job[n].got # None => job[n].got.payload \in Nat)
    BY <1>0, TypeJobs, JobFields, Numbers DEF Row
  <2>3. \A h \in Group : server[h] # None => server[h].payload \in Nat
    BY <1>0, Numbers DEF TypeOK, Row
  <2>4. \A n \in Machine \ {m} : /\ job[n].local <= now'
                                 /\ job[n].got # None => job[n].got.payload <= now'
    BY <1>0, <1>2, <1>a, <2>2 DEF IInv, Past
  <2>5. \A n \in Machine, h \in Group : value[n][h] <= now'
    BY <1>0, <1>2, <1>a, <2>1 DEF IInv, Past
  <2>6. \A h \in Group : server[h] # None => server[h].payload <= now'
    BY <1>0, <1>2, <1>a, <2>3 DEF IInv, Past
  <2> QED
    BY <1>1, <1>2, <1>3, <2>4, <2>5, <2>6 DEF Past
<1>8. Synced'
  BY <1>1, <1>2, <1>3 DEF IInv, Synced, SyncedIsTrue, Had, Works
<1>9. Stamped'
  <2>1. g \notin Slow => True(value[m][g], job'[m].mtime)
    <3>0. value[m][g] # None
      BY <1>0, NoneIsOther DEF TypeOK
    <3> QED
      BY <1>2, <3>0 DEF IInv, Stamped, True
  <2> QED
    BY <1>1, <1>2, <1>3, <2>1 DEF IInv, Stamped, True, Works
<1>10. Bare'
  BY <1>1, <1>2 DEF IInv, Bare
<1> QED
  BY <1>4, <1>5, <1>6, <1>7, <1>8, <1>9, <1>10 DEF IInv

\* A step at work that keeps the groups of the run keeps Waiting.
LEMMA RunWaits ==
    ASSUME IInv, UNCHANGED runOnly,
           \A n \in Machine : /\ job'[n].todo = job[n].todo /\ job'[n].covers = job[n].covers
                              /\ job'[n].pc = "idle" => job[n].pc = "idle"
    PROVE  Waiting'
  BY DEF IInv, Waiting, Allowed, runOnly, toggles

\* A pull reads a row the account has.
LEMMA PullReadsKept ==
    ASSUME IInv, NEW m \in Machine, PullReads(m)
    PROVE  IInv'
<1>0. TypeOK /\ Placed
  BY DEF IInv
<1>1. UNCHANGED <<now, server, value, edits, meta, runOnly>> /\ job[m].pc = "pulling"
  BY DEF PullReads
<1>2. job[m].group \in Group
  BY <1>0, <1>1 DEF Placed, Works, Working
<1>3. /\ job' \in [Machine -> Jobs]
      /\ \A n \in Machine \ {m} : job'[n] = job[n]
      /\ job'[m].pc = "pulled" /\ job'[m].todo = job[m].todo
      /\ job'[m].covers = job[m].covers /\ job'[m].group = job[m].group
      /\ job'[m].local = job[m].local /\ job'[m].mtime = job[m].mtime
      /\ job'[m].got = server[job[m].group]
  BY <1>0, PullReadsFacts
<1>4. TypeOK'
  BY <1>0, <1>1, <1>3 DEF TypeOK, Jobs, Pcs, runOnly, toggles
<1>5. Waiting'
  BY <1>1, <1>3, RunWaits
<1>6. Placed'
  BY <1>2, <1>3 DEF IInv, Placed, Works
<1>7. Past'
  BY <1>1, <1>2, <1>3 DEF IInv, Past
<1>8. Synced'
  <2>1. server[job[m].group] # None => server[job[m].group].at \in Nat
    BY <1>0, <1>2, Numbers DEF TypeOK, Row
  <2> QED
    BY <1>1, <1>2, <1>3, <2>1 DEF IInv, Synced, SyncedIsTrue, Had, Works
<1>9. Stamped'
  BY <1>1, <1>2, <1>3 DEF IInv, Stamped, True, Works, Working, runOnly
<1>10. Bare'
  BY <1>1, <1>3 DEF IInv, Bare, runOnly
<1> QED
  BY <1>4, <1>5, <1>6, <1>7, <1>8, <1>9, <1>10 DEF IInv

\* A run that adopts the row it has got, or keeps its own binding with the
\* row's time.
LEMMA AdoptedKept ==
    ASSUME IInv, NEW m \in Machine, Works(m), job[m].got # None, NEW v \in Time,
           v = job[m].got.payload \/ (job[m].group \in Slow /\ v = value[m][job[m].group]),
           Adopted(m, job[m].group, v, job[m].got),
           UNCHANGED <<now, server, edits, runOnly>>
    PROVE  IInv'
<1> DEFINE g == job[m].group
           row == job[m].got
<1>0. TypeOK /\ Placed
  BY DEF IInv
<1>1. g \in Group
  BY <1>0 DEF Placed
<1>2. row \in Row
  BY <1>0, TypeJobs, JobFields
<1>3. row.at \in Nat /\ row.payload \in Time /\ row.payload <= now
  BY <1>2, Numbers DEF Row, IInv, Past
<1> HIDE DEF g, row
<1>a. Adopted(m, g, v, row)
  BY DEF g, row
<1>4. /\ job' \in [Machine -> Jobs] /\ job' = [job EXCEPT ![m] = GoOn(m)]
      /\ value' \in [Machine -> [Group -> Time]]
      /\ value'[m][g] = v
      /\ \A n \in Machine, h \in Group : n # m \/ h # g => value'[n][h] = value[n][h]
      /\ meta' \in [Machine -> [Group -> [hash : Time \union {None}, mtime : Time]]]
      /\ meta'[m][g].hash = v /\ meta'[m][g].mtime = row.at
      /\ \A n \in Machine, h \in Group : n # m \/ h # g => meta'[n][h] = meta[n][h]
  BY <1>a, <1>0, <1>1, <1>2, AdoptedFacts
<1>5. /\ \A n \in Machine \ {m} : job'[n] = job[n]
      /\ job'[m].pc = "loop" /\ job'[m].got = None /\ job'[m].local = 0
      /\ job'[m].todo = job[m].todo /\ job'[m].covers = job[m].covers
  BY <1>0, <1>4, GoesOnFacts
<1>b. UNCHANGED <<now, server, edits, missed>>
  BY DEF runOnly
<1>c. \A n \in Machine, h \in Group :
          \/ n = m /\ h = g /\ value'[n][h] = v
                /\ meta'[n][h].hash = v /\ meta'[n][h].mtime = row.at
          \/ value'[n][h] = value[n][h] /\ meta'[n][h] = meta[n][h]
  BY <1>4
<1>6. TypeOK'
  BY <1>0, <1>4 DEF TypeOK, Jobs, Pcs, runOnly, toggles
<1>7. Waiting'
  BY <1>5, RunWaits
<1>8. Placed'
  BY <1>0, <1>5 DEF Placed, Works, Working
<1>9. Past'
  <2>1. v <= now
    BY <1>1, <1>3 DEF IInv, Past, g, row
  <2>2. 0 <= now
    BY <1>0, Numbers DEF TypeOK
  <2> QED
    BY <1>b, <1>c, <1>5, <2>1, <2>2 DEF IInv, Past
<1>10. Synced'
  <2>1. Had(g, row.payload, row.at)
    BY DEF IInv, Synced, g, row
  <2>2. g \notin Slow => v = row.payload
    BY DEF g, row
  <2>3. SyncedIsTrue'
    BY <1>b, <1>c, <2>1, <2>2 DEF IInv, Synced, SyncedIsTrue, Had
  <2> QED
    BY <1>b, <1>5, <2>3 DEF IInv, Synced, Had, Works, Working
<1>11. Stamped'
  <2>1. g \notin Slow => v = row.payload /\ True(v, row.at)
    BY DEF IInv, Stamped, g, row
  <2>2. \A n \in Machine, h \in Group \ Slow :
          /\ meta'[n][h].hash # None => True(meta[n][h].hash, meta[n][h].mtime)'
          /\ True(value[n][h], edits[n][h])' \/ value'[n][h] = meta'[n][h].hash
    BY <1>b, <1>c, <2>1 DEF IInv, Stamped, True
  <2>3. \A n \in Machine : Works(n)' => n # m /\ job'[n] = job[n] /\ Works(n) /\ job[n].group \in Group
    BY <1>0, <1>5 DEF Works, Working, Placed
  <2>4. \A n \in Machine : Works(n)' /\ job'[n].group \notin Slow =>
          /\ True(job[n].local, job[n].mtime)'
          /\ job'[n].got # None => True(job[n].got.payload, job[n].got.at)'
          /\ value'[n][job'[n].group] = job'[n].local
                \/ True(value[n][job[n].group], edits[n][job[n].group])'
    BY <1>b, <1>c, <2>3 DEF IInv, Stamped, True
  <2> QED
    BY <1>b, <2>2, <2>4 DEF IInv, Stamped, True
<1>12. Bare'
  <2>1. \A n \in Machine : job'[n].pc = "binding" =>
            n # m /\ job'[n] = job[n] /\ job[n].group \in Group
    BY <1>0, <1>5 DEF Works, Working, Placed
  <2> QED
    BY <1>b, <1>c, <2>1 DEF IInv, Bare
<1> QED
  BY <1>6, <1>7, <1>8, <1>9, <1>10, <1>11, <1>12 DEF IInv

\* A row that wins, whether pulled or sent back with a refusal.
LEMMA AdoptKept ==
    ASSUME IInv, NEW m \in Machine, Works(m), job[m].got # None, Adopt(m, job[m].got),
           UNCHANGED <<now, server, edits, runOnly>>
    PROVE  IInv'
<1> DEFINE g == job[m].group
           row == job[m].got
<1>0. TypeOK /\ Placed
  BY DEF IInv
<1>1. g \in Group /\ value[m][g] \in Time
  BY <1>0 DEF Placed, TypeOK
<1>2. row \in Row /\ row.payload \in Time
  BY <1>0, TypeJobs, JobFields DEF Row
<1>3. CASE g \notin Slow
  BY <1>2, <1>3, AdoptedKept DEF Adopt
<1>4. CASE g \in Slow /\ (value[m][g] # 0 \/ row.payload = 0)
  BY <1>1, <1>4, AdoptedKept DEF Adopt
<1>5. CASE g \in Slow /\ value[m][g] = 0 /\ row.payload # 0
  <2>1. job' = [job EXCEPT ![m].pc = "binding", ![m].got = row] /\ UNCHANGED <<value, meta>>
    BY <1>5 DEF Adopt
  <2> HIDE DEF row
  <2>2. "binding" \in Pcs
    BY DEF Pcs
  <2>3. /\ job' \in [Machine -> Jobs]
        /\ \A n \in Machine \ {m} : job'[n] = job[n]
        /\ job'[m].pc = "binding" /\ job'[m].got = row
        /\ job'[m].todo = job[m].todo /\ job'[m].covers = job[m].covers
        /\ job'[m].group = job[m].group
        /\ job'[m].local = job[m].local /\ job'[m].mtime = job[m].mtime
    BY <1>0, <1>2, <2>1, <2>2, FollowFacts
  <2> USE DEF row
  <2>b. UNCHANGED <<now, server, edits, missed, value, meta>>
    BY <2>1 DEF runOnly
  <2>4. TypeOK'
    BY <1>0, <2>1, <2>3 DEF TypeOK, Jobs, Pcs, runOnly, toggles
  <2>5. Waiting'
    BY <2>3, RunWaits
  <2>6. Placed'
    BY <1>1, <1>5, <2>3 DEF IInv, Placed, Works
  <2>7. Past'
    BY <2>b, <2>3 DEF IInv, Past
  <2>8. Synced'
    BY <2>b, <2>3 DEF IInv, Synced, SyncedIsTrue, Had, Works
  <2>9. Stamped'
    BY <2>b, <1>5, <2>3 DEF IInv, Stamped, True, Works
  <2>10. Bare'
    BY <2>b, <1>5, <2>3 DEF IInv, Bare
  <2> QED
    BY <2>4, <2>5, <2>6, <2>7, <2>8, <2>9, <2>10 DEF IInv
<1> QED
  BY <1>1, <1>3, <1>4, <1>5

\* A run that goes on to its next group, having changed nothing.
LEMMA GoesOnKept ==
    ASSUME IInv, NEW m \in Machine, Works(m), job' = [job EXCEPT ![m] = GoOn(m)],
           UNCHANGED <<now, server, value, edits, meta, runOnly>>
    PROVE  IInv'
<1>0. TypeOK
  BY DEF IInv
<1>1. /\ job' \in [Machine -> Jobs]
      /\ \A n \in Machine \ {m} : job'[n] = job[n]
      /\ job'[m].pc = "loop" /\ job'[m].got = None /\ job'[m].local = 0
      /\ job'[m].todo = job[m].todo /\ job'[m].covers = job[m].covers
  BY <1>0, GoesOnFacts
<1>2. TypeOK'
  BY <1>0, <1>1 DEF TypeOK, Jobs, Pcs, runOnly, toggles
<1>3. Waiting'
  BY <1>1, RunWaits
<1>4. UNCHANGED data /\ \A n \in Machine : Rests(n)
  BY <1>1 DEF data, runOnly, Rests
<1> QED
  BY <1>2, <1>3, <1>4, RestKept DEF IInv

\* The pull's answer.
LEMMA PullReturnsKept ==
    ASSUME IInv, NEW m \in Machine, PullReturns(m)
    PROVE  IInv'
<1>0. TypeOK /\ Works(m) /\ UNCHANGED <<now, server, edits, runOnly>>
  BY DEF IInv, PullReturns, Works, Working
<1>1. CASE job[m].got # None /\ Adopt(m, job[m].got)
  BY <1>0, <1>1, AdoptKept
<1>2. CASE UNCHANGED <<value, meta>> /\ job' = [job EXCEPT ![m] = GoOn(m)]
  BY <1>0, <1>2, GoesOnKept
<1>3. CASE UNCHANGED <<value, meta>>
           /\ job' = [job EXCEPT ![m] = [@ EXCEPT !.pc = "pushing", !.got = None]]
  <2>1. /\ job' \in [Machine -> Jobs]
        /\ \A n \in Machine \ {m} : job'[n] = job[n]
        /\ job'[m].pc = "pushing" /\ job'[m].got = None
        /\ job'[m].todo = job[m].todo /\ job'[m].covers = job[m].covers
        /\ job'[m].group = job[m].group
        /\ job'[m].local = job[m].local /\ job'[m].mtime = job[m].mtime
    BY <1>0, <1>3, PushingFacts
  <2>b. UNCHANGED <<now, server, edits, missed, value, meta>>
    BY <1>0, <1>3 DEF runOnly
  <2>4. TypeOK'
    BY <1>0, <1>3, <2>1 DEF TypeOK, Jobs, Pcs, runOnly, toggles
  <2>5. Waiting'
    BY <1>0, <2>1, RunWaits
  <2>6. Placed'
    BY <1>0, <2>1 DEF IInv, Placed, Works
  <2>7. Past'
    BY <2>b, <2>1 DEF IInv, Past
  <2>8. Synced'
    BY <2>b, <2>1 DEF IInv, Synced, SyncedIsTrue, Had, Works
  <2>9. Stamped'
    BY <1>0, <2>b, <2>1 DEF IInv, Stamped, True, Works
  <2>10. Bare'
    BY <2>b, <2>1 DEF IInv, Bare
  <2> QED
    BY <2>4, <2>5, <2>6, <2>7, <2>8, <2>9, <2>10 DEF IInv
<1> QED
  BY <1>1, <1>2, <1>3 DEF PullReturns, KeepOrPush

\* What the account has had it has had, whatever lands.
LEMMA PushLandsKept ==
    ASSUME IInv, NEW m \in Machine, PushLands(m)
    PROVE  IInv'
<1> DEFINE g == job[m].group
           row == [payload |-> job[m].local, at |-> job[m].mtime]
<1>0. TypeOK /\ Placed /\ Works(m) /\ UNCHANGED <<now, value, edits, meta, runOnly>>
  BY DEF IInv, PushLands, Works, Working
<1>1. g \in Group
  BY <1>0 DEF Placed
<1>2. row \in Row /\ row.at \in Nat
  BY <1>0, TypeJobs, JobFields, Numbers DEF Row
<1>3. \A h \in Group : server[h] # None => server[h].at \in Nat
  BY <1>0, Numbers DEF TypeOK, Row
<1>4. CASE server[g] = None \/ server[g].at < row.at
  <2>1. /\ job' \in [Machine -> Jobs]
        /\ \A n \in Machine \ {m} : job'[n] = job[n]
        /\ job'[m].pc = "pushed" /\ job'[m].got = job[m].got
        /\ job'[m].todo = job[m].todo /\ job'[m].covers = job[m].covers
        /\ job'[m].group = job[m].group
        /\ job'[m].local = job[m].local /\ job'[m].mtime = job[m].mtime
    BY <1>0, <1>4, PushedFacts DEF PushLands
  <2>2. /\ server' \in [Group -> Row \union {None}] /\ server'[g] = row
        /\ \A h \in Group \ {g} : server'[h] = server[h]
    <3>1. server \in [Group -> Row \union {None}] /\ g \in Group
      BY <1>0, <1>1 DEF TypeOK
    <3>2. server' = [server EXCEPT ![g] = row]
      BY <1>0, <1>4 DEF PushLands
    <3> HIDE DEF row, g
    <3> QED
      BY <1>2, <3>1, <3>2
  <2>3. row # None /\ row.payload = job[m].local /\ row.at = job[m].mtime
    BY <1>2, NoneIsOther
  <2> HIDE DEF row
  <2>a. UNCHANGED <<now, value, edits, meta, missed>>
    BY <1>0 DEF runOnly
  <2>4. TypeOK'
    BY <1>0, <2>1, <2>2 DEF TypeOK, Jobs, Pcs, runOnly, toggles
  <2>5. Waiting'
    BY <1>0, <2>1, RunWaits
  <2>6. Placed'
    BY <1>0, <2>1 DEF IInv, Placed, Works, Working
  <2>7. Past'
    BY <2>a, <2>1, <2>2, <2>3 DEF IInv, Past
  <2>8. Synced'
    <3>1. \A h \in Group : \A v, t : t \in Nat /\ Had(h, v, t) => Had(h, v, t)'
      BY <1>2, <1>3, <1>4, <2>2, <2>3 DEF Had
    <3>2. Had(g, job[m].local, job[m].mtime)'
      BY <1>2, <2>1, <2>2, <2>3 DEF Had
    <3>3. SyncedIsTrue'
      <4>1. \A n \in Machine, h \in Group : meta[n][h].mtime \in Nat
        <5>1. \A n \in Machine, h \in Group :
                meta[n][h] \in [hash : Time \union {None}, mtime : Time]
          BY <1>0 DEF TypeOK
        <5> QED
          BY <5>1, Numbers
      <4> QED
        BY <1>2, <1>3, <1>4, <2>a, <2>2, <2>3, <4>1 DEF IInv, Synced, SyncedIsTrue
    <3>4. \A n \in Machine : Works(n) => job[n].group \in Group
      BY <1>0 DEF Placed
    <3>5. \A n \in Machine : job[n].mtime \in Nat /\ (job[n].got # None => job[n].got.at \in Nat)
      BY <1>0, TypeJobs, JobFields, Numbers DEF Row
    <3>6. \A n \in Machine : Works(n) =>
            /\ job[n].got # None => Had(job[n].group, job[n].got.payload, job[n].got.at)'
            /\ job'[n].pc = "pushed" => Had(job[n].group, job[n].local, job[n].mtime)'
      <4> SUFFICES ASSUME NEW n \in Machine, Works(n)
                   PROVE  /\ job[n].got # None =>
                                Had(job[n].group, job[n].got.payload, job[n].got.at)'
                          /\ job'[n].pc = "pushed" =>
                                Had(job[n].group, job[n].local, job[n].mtime)'
        OBVIOUS
      <4>1. /\ job[n].got # None => Had(job[n].group, job[n].got.payload, job[n].got.at)
            /\ job[n].pc = "pushed" => Had(job[n].group, job[n].local, job[n].mtime)
        BY DEF IInv, Synced
      <4>2. job'[n].pc = "pushed" => n = m \/ job[n].pc = "pushed"
        BY <2>1
      <4>3. /\ job'[n].group = job[n].group /\ job'[n].got = job[n].got
            /\ job'[n].local = job[n].local /\ job'[n].mtime = job[n].mtime
        BY <2>1
      <4>4. job[n].got # None => Had(job[n].group, job[n].got.payload, job[n].got.at)'
        <5> DEFINE h == job[n].group
                   p == job[n].got.payload
                   t == job[n].got.at
        <5>1. job[n].got # None => h \in Group /\ t \in Nat /\ Had(h, p, t)
          BY <4>1, <3>4, <3>5
        <5>2. h' = h /\ p' = p /\ t' = t
          BY <4>3
        <5> HIDE DEF h, p, t
        <5>3. job[n].got # None => Had(h, p, t)'
          BY <5>1, <5>2, <3>1 DEF Had
        <5> QED
          BY <5>3 DEF h, p, t
      <4>5. job[n].pc = "pushed" => Had(job[n].group, job[n].local, job[n].mtime)'
        <5> DEFINE h == job[n].group
                   p == job[n].local
                   t == job[n].mtime
        <5>1. job[n].pc = "pushed" => h \in Group /\ t \in Nat /\ Had(h, p, t)
          BY <4>1, <3>4, <3>5
        <5>2. h' = h /\ p' = p /\ t' = t
          BY <4>3
        <5> HIDE DEF h, p, t
        <5>3. job[n].pc = "pushed" => Had(h, p, t)'
          BY <5>1, <5>2, <3>1 DEF Had
        <5> QED
          BY <5>3 DEF h, p, t
      <4>6. CASE n = m
        BY <4>4, <4>6, <3>2
      <4>7. CASE n # m
        BY <4>2, <4>4, <4>5, <4>7
      <4> QED
        BY <4>6, <4>7
    <3> QED
      BY <1>0, <2>1, <3>3, <3>6 DEF Synced, Works, Had
  <2>9. Stamped'
    <3>1. g \notin Slow => True(row.payload, row.at)
      BY <1>0, <2>3 DEF IInv, Stamped
    <3> QED
      BY <1>0, <1>1, <2>a, <2>1, <2>2, <3>1 DEF IInv, Stamped, True, Works, Working
  <2>10. Bare'
    BY <2>a, <2>1 DEF IInv, Bare
  <2> QED
    BY <2>4, <2>5, <2>6, <2>7, <2>8, <2>9, <2>10 DEF IInv
<1>5. CASE ~(server[g] = None \/ server[g].at < row.at)
  <2>1. "refused" \in Pcs /\ server[g] \in Row
    BY <1>0, <1>1, <1>5 DEF Pcs, TypeOK
  <2>2. /\ job' \in [Machine -> Jobs]
        /\ \A n \in Machine \ {m} : job'[n] = job[n]
        /\ job'[m].pc = "refused" /\ job'[m].got = server[g]
        /\ job'[m].todo = job[m].todo /\ job'[m].covers = job[m].covers
        /\ job'[m].group = g
        /\ job'[m].local = job[m].local /\ job'[m].mtime = job[m].mtime
    BY <1>0, <1>5, <2>1, FollowFacts DEF PushLands
  <2>3. server[g] # None /\ job[m].mtime <= server[g].at
    BY <1>1, <1>2, <1>3, <1>5
  <2>a. UNCHANGED <<now, server, value, edits, meta, missed>>
    BY <1>0, <1>5 DEF runOnly, PushLands
  <2> HIDE DEF g
  <2>4. TypeOK'
    BY <1>0, <2>a, <2>2 DEF TypeOK, Jobs, Pcs, runOnly, toggles
  <2>5. Waiting'
    BY <1>0, <2>2, RunWaits
  <2>6. Placed'
    BY <1>0, <1>1, <2>2, <2>3 DEF IInv, Placed, Works, Working
  <2>7. Past'
    BY <1>1, <2>a, <2>2 DEF IInv, Past
  <2>8. Synced'
    BY <1>1, <1>3, <2>a, <2>2 DEF IInv, Synced, SyncedIsTrue, Had, Works
  <2>9. Stamped'
    BY <1>0, <1>1, <2>a, <2>2 DEF IInv, Stamped, True, Works, g
  <2>10. Bare'
    BY <2>a, <2>2 DEF IInv, Bare
  <2> QED
    BY <2>4, <2>5, <2>6, <2>7, <2>8, <2>9, <2>10 DEF IInv
<1> QED
  BY <1>4, <1>5

\* The push's answer.
LEMMA PushReturnsKept ==
    ASSUME IInv, NEW m \in Machine, PushReturns(m)
    PROVE  IInv'
<1> DEFINE g == job[m].group
<1>0. TypeOK /\ Placed /\ Works(m) /\ UNCHANGED <<now, server, edits, runOnly>>
  BY DEF IInv, PushReturns, Works, Working
<1>1. CASE job[m].pc = "refused" /\ Adopt(m, job[m].got)
  BY <1>0, <1>1, AdoptKept DEF Placed
<1>2. CASE job[m].pc = "pushed"
  <2>1. /\ meta' = [meta EXCEPT ![m][g] = [hash |-> job[m].local, mtime |-> job[m].mtime]]
        /\ job' = [job EXCEPT ![m] = GoOn(m)] /\ UNCHANGED value
    BY <1>2 DEF PushReturns
  <2>2. g \in Group /\ job[m].local \in Time /\ job[m].mtime \in Time
    BY <1>0, TypeJobs, JobFields DEF Placed
  <2> HIDE DEF g
  <2>3. /\ job' \in [Machine -> Jobs]
        /\ \A n \in Machine \ {m} : job'[n] = job[n]
        /\ job'[m].pc = "loop" /\ job'[m].got = None /\ job'[m].local = 0
        /\ job'[m].todo = job[m].todo /\ job'[m].covers = job[m].covers
    BY <1>0, <2>1, GoesOnFacts
  <2>4. meta' \in [Machine -> [Group -> [hash : Time \union {None}, mtime : Time]]]
    BY <1>0, <2>1, <2>2 DEF TypeOK
  <2>5. \A n \in Machine, h \in Group :
          \/ n = m /\ h = g /\ meta'[n][h].hash = job[m].local /\ meta'[n][h].mtime = job[m].mtime
          \/ meta'[n][h] = meta[n][h]
    BY <1>0, <2>1, <2>2 DEF TypeOK
  <2>a. UNCHANGED <<now, server, edits, missed, value>>
    BY <1>0, <2>1 DEF runOnly
  <2>6. TypeOK'
    BY <1>0, <2>1, <2>3, <2>4 DEF TypeOK, Jobs, Pcs, runOnly, toggles
  <2>7. Waiting'
    BY <1>0, <1>2, <2>3, RunWaits
  <2>8. Placed'
    BY <1>0, <2>3 DEF Placed, Works, Working
  <2>9. Past'
    <3>1. 0 <= now
      BY <1>0, Numbers DEF TypeOK
    <3> QED
      BY <2>a, <2>3, <3>1 DEF IInv, Past
  <2>10. Synced'
    <3>1. Had(g, job[m].local, job[m].mtime)
      BY <1>0, <1>2 DEF IInv, Synced, g
    <3>2. SyncedIsTrue'
      BY <2>a, <2>5, <3>1 DEF IInv, Synced, SyncedIsTrue, Had
    <3> QED
      BY <2>a, <2>3, <3>2 DEF IInv, Synced, Had, Works, Working
  <2>11. Stamped'
    <3>1. g \notin Slow => /\ True(job[m].local, job[m].mtime)
                           /\ value[m][g] = job[m].local \/ True(value[m][g], edits[m][g])
      BY <1>0 DEF IInv, Stamped, g
    <3>2. \A n \in Machine, h \in Group \ Slow :
            /\ meta'[n][h].hash # None => True(meta[n][h].hash, meta[n][h].mtime)'
            /\ True(value[n][h], edits[n][h])' \/ value'[n][h] = meta'[n][h].hash
      BY <2>a, <2>5, <3>1 DEF IInv, Stamped, True
    <3>3. \A n \in Machine : Works(n)' => n # m /\ job'[n] = job[n] /\ Works(n)
      BY <2>3 DEF Works, Working
    <3> QED
      BY <2>a, <3>2, <3>3 DEF IInv, Stamped, True
  <2>12. Bare'
    BY <2>a, <2>3 DEF IInv, Bare
  <2> QED
    BY <2>6, <2>7, <2>8, <2>9, <2>10, <2>11, <2>12 DEF IInv
<1> QED
  BY <1>1, <1>2 DEF PushReturns

\* A binding that was written to the database is adopted.
LEMMA BindsKept ==
    ASSUME IInv, NEW m \in Machine, Binds(m)
    PROVE  IInv'
<1>1. TypeOK /\ Works(m) /\ job[m].got # None
  BY DEF IInv, Binds, Works, Working, Placed
<1>2. job[m].got.payload \in Time
  BY <1>1, TypeJobs, JobFields DEF Row
<1> QED
  BY <1>1, <1>2, AdoptedKept DEF Binds

\* A failure changes nothing.
LEMMA FailsKept ==
    ASSUME IInv, NEW m \in Machine, Fails(m)
    PROVE  IInv'
  BY GoesOnKept DEF Fails, Works, Working

\* A group that is skipped is not wanted.
LEMMA SkipKept ==
    ASSUME IInv, NEW m \in Machine, NEW g \in Group, Skip(m, g)
    PROVE  IInv'
<1>0. TypeOK /\ UNCHANGED <<data, toggles, pending, asked>> /\ job[m].pc = "loop" /\ ~on[m][g]
  BY DEF IInv, Skip
<1>1. /\ job' \in [Machine -> Jobs]
      /\ \A n \in Machine \ {m} : job'[n] = job[n]
      /\ job'[m].pc = "loop" /\ job'[m].todo = job[m].todo \ {g}
      /\ job'[m].covers = job[m].covers
      /\ job'[m].local = job[m].local /\ job'[m].got = job[m].got
  BY <1>0, SkipFacts
<1>2. TypeOK'
  BY <1>0, <1>1 DEF TypeOK, Jobs, Pcs, data, toggles
<1>3. Waiting'
  BY <1>0, <1>1 DEF IInv, Waiting, Allowed, toggles
<1>4. \A n \in Machine : Rests(n)
  BY <1>0, <1>1 DEF IInv, Placed, Rests
<1> QED
  BY <1>0, <1>2, <1>3, <1>4, RestKept DEF IInv

\* A run ends with nothing to do, or with the sync off.
LEMMA EndsKept ==
    ASSUME IInv, NEW m \in Machine, Ends(m)
    PROVE  IInv'
<1>0. TypeOK /\ UNCHANGED <<data, toggles, asked>> /\ (job[m].todo = {} \/ ~Allowed(m))
  BY DEF IInv, Ends
<1>1. /\ job' \in [Machine -> Jobs]
      /\ \A n \in Machine \ {m} : job'[n] = job[n] /\ pending'[n] = pending[n]
      /\ job'[m].got = None /\ job'[m].local = 0
      /\ pending'[m] = {} /\ pending' \in [Machine -> SUBSET Group]
      /\ IF pending[m] # {} /\ signedIn[m]
         THEN job'[m].pc = "loop" /\ job'[m].todo = pending[m]
         ELSE job'[m].pc = "idle" /\ job'[m].todo = {} /\ job'[m].covers = {}
  BY <1>0, EndsFacts
<1>2. TypeOK'
  BY <1>0, <1>1 DEF TypeOK, Jobs, Pcs, data, toggles
<1>3. Waiting'
  <2>1. asked[m] \subseteq job'[m].todo
    <3>1. CASE ~Allowed(m)
      BY <3>1 DEF IInv, Waiting
    <3>2. CASE Allowed(m)
      <4>1. asked[m] \subseteq pending[m] /\ signedIn[m]
        BY <1>0, <3>2 DEF IInv, Waiting, Allowed
      <4> QED
        BY <1>1, <4>1
    <3> QED
      BY <3>1, <3>2
  <2> QED
    BY <1>0, <1>1, <2>1 DEF IInv, Waiting, Allowed, toggles
<1>4. \A n \in Machine : Rests(n)
  BY <1>1 DEF Rests
<1> QED
  BY <1>0, <1>2, <1>3, <1>4, RestKept DEF IInv

-----------------------------------------------------------------------------
(* The invariant.                                                          *)

\* The invariant holds at first
LEMMA InitHolds == Init => IInv
<1> SUFFICES ASSUME Init PROVE IInv
  OBVIOUS
<1>0. 0 \in Time /\ 0 \in Nat
  BY Numbers
<1>1. job = [m \in Machine |-> NoJob]
  BY DEF Init
<1>2. \A m \in Machine : /\ job[m].pc = "idle" /\ job[m].covers = {} /\ job[m].todo = {}
                         /\ job[m].local = 0 /\ job[m].got = None /\ job[m] \in Jobs
  BY <1>1, NoJobFields
<1>3. TypeOK
  <2>1. job \in [Machine -> Jobs]
    BY <1>1, <1>2
  <2>2. [hash |-> None, mtime |-> 0] \in [hash : Time \union {None}, mtime : Time]
    BY <1>0
  <2>3. on \in [Machine -> [Group -> BOOLEAN]]
    BY DEF Init
  <2> QED
    BY <1>0, <2>1, <2>2, <2>3 DEF Init, TypeOK, Jobs, Pcs
<1>4. Waiting /\ Placed /\ Bare
  BY <1>2 DEF Init, Waiting, Placed, Bare, Works, Working
<1>5. Past
  BY <1>0, <1>2 DEF Init, Past
<1>6. Synced
  BY <1>2 DEF Init, Synced, SyncedIsTrue, Works, Working
<1>7. Stamped
  BY <1>2 DEF Init, Stamped, True, Works, Working
<1> QED
  BY <1>3, <1>4, <1>5, <1>6, <1>7 DEF IInv

\* and is kept by every step.
LEMMA StepKept == IInv /\ [Next]_vars => IInv'
<1> SUFFICES ASSUME IInv, [Next]_vars PROVE IInv'
  OBVIOUS
<1>1. CASE UNCHANGED vars
  <2>1. UNCHANGED <<now, server, value, edits, meta, toggles, job, pending, asked, missed>>
    BY <1>1 DEF vars
  <2>2. TypeOK' /\ Waiting'
    BY <2>1 DEF IInv, TypeOK, Waiting, Allowed, toggles
  <2> QED
    BY <2>1, <2>2, RestKept DEF IInv, data, Rests
<1>2. ASSUME NEW m \in Machine, UserNext(m)
      PROVE  IInv'
  BY <1>2, UserKept, EditKept, GroupsAssumption DEF UserNext
<1>3. ASSUME NEW m \in Machine, RunNext(m)
      PROVE  IInv'
  BY <1>3, SkipKept, CollectKept, PullReadsKept, PullReturnsKept, PushLandsKept,
     PushReturnsKept, BindsKept, FailsKept, EndsKept DEF RunNext
<1> QED
  BY <1>1, <1>2, <1>3 DEF Next

\* TypeOK, and with it Waiting, Placed, Past, Synced, Stamped and Bare, hold in
\* every state of every run of the stores.
THEOREM SettingsInvariant == Spec => []IInv
  BY InitHolds, StepKept, PTL DEF Spec

\* The types are kept, and when no run of a machine is left (inFlight is null),
\* no group is left that somebody asked for in vain.
THEOREM SettingsNothingDropped == Spec => []NothingDropped
<1>1. IInv => NothingDropped
  BY DEF IInv, Waiting, NothingDropped
<1> QED
  BY <1>1, SettingsInvariant, PTL

\* A machine that has the server's time and an unchanged hash has the server's
\* value, and no machine is ahead of the server.
THEOREM SettingsSyncedIsTrue == Spec => []SyncedIsTrue
<1>1. IInv => SyncedIsTrue
  BY DEF IInv, Synced
<1> QED
  BY <1>1, SettingsInvariant, PTL

-----------------------------------------------------------------------------
(* The last writer wins.                                                   *)

\* What NewerEditSurvives says of a step.
Gives(m, g) ==
    value'[m][g] < value[m][g] =>
        \/ meta[m][g].hash = None
        \/ value'[m][g] = 0
        \/ value[m][g] # job[m].local
        \/ {value[m][g], value'[m][g]} \intersect missed # {}

\* A setting that has been collected carries its time; so does the row that is
\* adopted, and the row is later.
LEMMA AdoptGives ==
    ASSUME IInv, NEW m \in Machine, NEW g \in Group, Works(m), job[m].group = g,
           g \notin Slow, job[m].got # None, value'[m][g] = job[m].got.payload,
           meta[m][g].hash = None \/ job[m].mtime <= job[m].got.at
    PROVE  Gives(m, g)
<1> SUFFICES ASSUME value'[m][g] < value[m][g], meta[m][g].hash # None,
                    value'[m][g] # 0, value[m][g] = job[m].local,
                    value[m][g] \notin missed, value'[m][g] \notin missed
             PROVE  FALSE
  BY DEF Gives
<1>1. TypeOK
  BY DEF IInv
<1>2. /\ value[m][g] \in Nat /\ value'[m][g] \in Nat /\ job[m].mtime \in Nat
      /\ job[m].got.at \in Nat
  BY <1>1, TypeJobs, JobFields, Numbers DEF TypeOK, Row
<1>3. value[m][g] # 0
  BY <1>2
<1>4. job[m].mtime = value[m][g]
  BY <1>3 DEF IInv, Stamped, True
<1>5. job[m].got.at = value'[m][g]
  BY DEF IInv, Stamped, True
<1> QED
  BY <1>2, <1>4, <1>5

\* Every step lets the last writer win.
LEMMA StepGives ==
    ASSUME IInv, [Next]_vars, NEW m \in Machine, NEW g \in Group
    PROVE  Gives(m, g)
<1>0. TypeOK /\ value \in [Machine -> [Group -> Time]] /\ now \in Nat
  BY Numbers DEF IInv, TypeOK
<1>a. value[m][g] \in Nat /\ value[m][g] <= now
  BY <1>0, Numbers DEF IInv, Past
<1>1. CASE value'[m][g] = value[m][g]
  BY <1>a, <1>1 DEF Gives
<1>2. ASSUME NEW n \in Machine, NEW h \in Group, Edit(n, h)
      PROVE  Gives(m, g)
  <2>1. now' = now + 1 /\ value' = [value EXCEPT ![n][h] = now']
    BY <1>2 DEF Edit
  <2>2. value'[m][g] \in {now + 1, value[m][g]}
    BY <1>0, <2>1
  <2> QED
    BY <1>0, <1>a, <2>2 DEF Gives
<1>3. ASSUME NEW n \in Machine, NEW v, Adopted(n, job[n].group, v, job[n].got)
      PROVE  value'[m][g] = value[m][g] \/ (n = m /\ job[n].group = g /\ value'[m][g] = v)
  BY <1>0, <1>3 DEF Adopted
<1>4. ASSUME NEW n \in Machine, Works(n), job[n].got # None, Adopt(n, job[n].got),
             meta[n][job[n].group].hash = None \/ job[n].mtime <= job[n].got.at
      PROVE  Gives(m, g)
  <2>1. CASE job[n].group \notin Slow
    <3>1. Adopted(n, job[n].group, job[n].got.payload, job[n].got)
      BY <1>4, <2>1 DEF Adopt
    <3> QED
      BY <1>1, <1>3, <1>4, <2>1, <3>1, AdoptGives
  <2>2. CASE job[n].group \in Slow
    <3>1. \/ Adopted(n, job[n].group, value[n][job[n].group], job[n].got)
          \/ value' = value
      BY <1>4, <2>2 DEF Adopt
    <3> QED
      BY <1>1, <1>3, <3>1
  <2> QED
    BY <2>1, <2>2
<1>5. ASSUME NEW n \in Machine, PullReturns(n)
      PROVE  Gives(m, g)
  <2>1. CASE value' = value
    BY <1>1, <2>1
  <2>2. CASE /\ job[n].got # None /\ Adopt(n, job[n].got)
             /\ meta[n][job[n].group].hash = None \/ job[n].got.at > job[n].mtime
    <3>1. Works(n) /\ job[n].mtime \in Nat /\ job[n].got.at \in Nat
      BY <1>0, <1>5, <2>2, TypeJobs, JobFields, Numbers DEF PullReturns, Works, Working, Row
    <3> QED
      BY <1>4, <2>2, <3>1
  <2> QED
    BY <1>5, <2>1, <2>2 DEF PullReturns
<1>6. ASSUME NEW n \in Machine, PushReturns(n)
      PROVE  Gives(m, g)
  <2>1. CASE value' = value
    BY <1>1, <2>1
  <2>2. CASE job[n].pc = "refused" /\ Adopt(n, job[n].got)
    BY <1>4, <2>2 DEF IInv, Placed, Works, Working
  <2> QED
    BY <1>6, <2>1, <2>2 DEF PushReturns
<1>7. ASSUME NEW n \in Machine, Binds(n)
      PROVE  Gives(m, g)
  <2>1. Adopted(n, job[n].group, job[n].got.payload, job[n].got) /\ job[n].pc = "binding"
    BY <1>7 DEF Binds
  <2>2. CASE n = m /\ job[m].group = g /\ value'[m][g] = job[m].got.payload
    <3>1. value[m][g] = 0 \/ value[m][g] \in missed
      BY <2>1, <2>2 DEF IInv, Bare
    <3>2. value'[m][g] \in Nat
      BY <1>0, <2>1, <2>2, TypeJobs, JobFields, Numbers DEF IInv, Placed, Row
    <3> QED
      BY <3>1, <3>2 DEF Gives
  <2> QED
    BY <1>1, <1>3, <2>1, <2>2
<1>8. CASE UNCHANGED vars
  BY <1>1, <1>8 DEF vars
<1>9. ASSUME NEW n \in Machine, UserNext(n)
      PROVE  Gives(m, g)
  BY <1>1, <1>2, <1>9, GroupsAssumption
     DEF UserNext, SyncNow, OptIn, OptOut, SignIn, SignOut, Load, TurnOn, TurnOff, data
<1>10. ASSUME NEW n \in Machine, RunNext(n)
       PROVE  Gives(m, g)
  BY <1>1, <1>5, <1>6, <1>7, <1>10
     DEF RunNext, Skip, Collect, PullReads, PushLands, Fails, Ends, data
<1> QED
  BY <1>8, <1>9, <1>10 DEF Next

\* The last writer wins, but for a first adoption, a default, an edit made after
\* the run collected the group and an edit that was not stamped.
THEOREM SettingsNewerEditSurvives == Spec => NewerEditSurvives
<1>1. IInv /\ [Next]_vars =>
        [\A m \in Machine, g \in Group :
            value'[m][g] < value[m][g] =>
                \/ meta[m][g].hash = None
                \/ value'[m][g] = 0
                \/ value[m][g] # job[m].local
                \/ {value[m][g], value'[m][g]} \intersect missed # {}]_vars
  BY StepGives DEF Gives
<1> QED
  BY <1>1, SettingsInvariant, PTL DEF Spec, NewerEditSurvives

=============================================================================
