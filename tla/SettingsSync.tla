---------------------------- MODULE SettingsSync ----------------------------
(***************************************************************************)
(* Settings of one account on several machines:                            *)
(* src/stores/settingsSyncStore.ts and src/lib/settingsSyncEdits.ts.       *)
(*                                                                         *)
(* The settings come in groups.  A run takes the requested groups one      *)
(* after the other: it collects the local value, pulls the server's, and   *)
(* adopts or pushes, the later time stamp winning.  A value is the edit    *)
(* that made it, named by its time, 0 for the default; so a value and the  *)
(* stamp it carries can be compared; no edit restores an earlier value.    *)
(* The clocks of the machines agree, and the account stays the same.       *)
(*                                                                         *)
(* A step is what runs between two awaits.  "loop" is the place between    *)
(* two groups, where nothing else runs unless the workspace is still being *)
(* loaded.  Requests may fail, and a push may land without its answer.     *)
(***************************************************************************)
EXTENDS Naturals

CONSTANTS Machine,
          Group,
          Slow,      \* groups written back over an await: remoteBindings
          Quitter,   \* bound: machines whose user opts out and signs out
          Toggled,   \* bound: Toggled[m], the groups m's user turns on and off
          Starts,    \* bound: the groups that may be on at first, by machine
          MaxTime,   \* bound on the clock
          None

ASSUME SlowAssumption == Slow \subseteq Group /\ Quitter \subseteq Machine
ASSUME GroupsAssumption ==
    /\ Toggled \in [Machine -> SUBSET Group]
    /\ Starts \subseteq [Machine -> SUBSET Group]
ASSUME TimeAssumption == MaxTime \in Nat
ASSUME NoneAssumption == None \notin Nat \union Group \union [payload : Nat, at : Nat]

VARIABLES
    now,      \* the time
    server,   \* server[g]: the account's row
    value,    \* value[m][g]: the setting
    edits,    \* edits[m][g]: EDITS_KEY, the last edit on record, 0 if none
    meta,     \* meta[m][g]: what was last synced: its hash and its time
    signedIn, optedIn, on, loaded,
    job,      \* job[m]: the run in flight
    pending,  \* pendingGroups
    asked,    \* history: groups a request was made for that no run has begun
    missed    \* history: edits made while edits were not stamped

toggles == <<signedIn, optedIn, on, loaded>>
vars == <<now, server, value, edits, meta, toggles, job, pending, asked, missed>>

Time == 0..MaxTime
Row == [payload : Time, at : Time]

\* inFlight is null.
NoJob == [pc |-> "idle", covers |-> {}, todo |-> {}, group |-> None, local |-> 0,
          mtime |-> 0, got |-> None]

TypeOK ==
    /\ now \in Time
    /\ server \in [Group -> Row \union {None}]
    /\ value \in [Machine -> [Group -> Time]] /\ edits \in [Machine -> [Group -> Time]]
    /\ meta \in [Machine -> [Group -> [hash : Time \union {None}, mtime : Time]]]
    /\ signedIn \in [Machine -> BOOLEAN] /\ optedIn \in [Machine -> BOOLEAN]
    /\ on \in [Machine -> [Group -> BOOLEAN]] /\ loaded \in [Machine -> BOOLEAN]
    /\ job \in [Machine -> [pc : {"idle", "loop", "pulling", "pulled", "pushing",
                                  "pushed", "refused", "binding"},
                            covers : SUBSET Group, todo : SUBSET Group,
                            group : Group \union {None}, local : Time, mtime : Time,
                            got : Row \union {None}]]
    /\ pending \in [Machine -> SUBSET Group] /\ asked \in [Machine -> SUBSET Group]
    /\ missed \subseteq Time

Init ==
    /\ now = 0
    /\ server = [g \in Group |-> None]
    /\ value = [m \in Machine |-> [g \in Group |-> 0]]
    /\ edits = [m \in Machine |-> [g \in Group |-> 0]]
    /\ meta = [m \in Machine |-> [g \in Group |-> [hash |-> None, mtime |-> 0]]]
    /\ signedIn = [m \in Machine |-> TRUE]
    /\ optedIn = [m \in Machine |-> FALSE]
    /\ \E enabled \in Starts :
           on = [m \in Machine |-> [g \in Group |-> g \in enabled[m]]]
    /\ loaded = [m \in Machine |-> m \notin Quitter]
    /\ job = [m \in Machine |-> NoJob]
    /\ pending = [m \in Machine |-> {}]
    /\ asked = [m \in Machine |-> {}]
    /\ missed = {}

-----------------------------------------------------------------------------
(* Requests.                                                               *)

Starting(targets) == [NoJob EXCEPT !.pc = "loop", !.covers = targets, !.todo = targets]

\* sync: a run begins, or what the run in flight does not cover waits for the next.
Request(m, targets, before) ==
    LET new == targets \ job[m].covers IN
    /\ asked' = [asked EXCEPT ![m] = before \union new]
    /\ IF job[m].pc = "idle" /\ targets # {}
       THEN job' = [job EXCEPT ![m] = Starting(targets)] /\ UNCHANGED pending
       ELSE pending' = [pending EXCEPT ![m] = @ \union new] /\ UNCHANGED job

Sync(m, targets) == Request(m, targets, asked[m])

\* The user and the window act between the steps of a run.
Turn(m) == job[m].pc = "loop" => ~loaded[m]

EnabledGroups(m) == IF optedIn[m] THEN {g \in Group : on[m][g]} ELSE {}

data == <<now, server, value, edits, meta, missed>>

\* The window gets the focus, or "Sync now" is clicked.
SyncNow(m) ==
    /\ Turn(m) /\ signedIn[m] /\ EnabledGroups(m) # {}
    /\ Sync(m, EnabledGroups(m))
    /\ UNCHANGED <<data, toggles>>

\* Every change of the toggles goes through the effect that syncs.
OptIn(m) ==
    /\ Turn(m) /\ signedIn[m] /\ ~optedIn[m]
    /\ optedIn' = [optedIn EXCEPT ![m] = TRUE]
    /\ Sync(m, {g \in Group : on[m][g]})
    /\ UNCHANGED <<data, signedIn, on, loaded>>

OptOut(m) ==
    /\ Turn(m) /\ signedIn[m] /\ optedIn[m]
    /\ optedIn' = [optedIn EXCEPT ![m] = FALSE]
    /\ asked' = [asked EXCEPT ![m] = {}]
    /\ UNCHANGED <<data, signedIn, on, loaded, job, pending>>

TurnOn(m, g) ==
    /\ Turn(m) /\ signedIn[m] /\ ~on[m][g]
    /\ on' = [on EXCEPT ![m][g] = TRUE]
    /\ Sync(m, IF optedIn[m] THEN EnabledGroups(m) \union {g} ELSE {})
    /\ UNCHANGED <<data, signedIn, optedIn, loaded>>

\* The effect asks for the groups that stay on.
TurnOff(m, g) ==
    /\ Turn(m) /\ signedIn[m] /\ on[m][g]
    /\ on' = [on EXCEPT ![m][g] = FALSE]
    /\ Request(m, EnabledGroups(m) \ {g}, asked[m] \ {g})
    /\ UNCHANGED <<data, signedIn, optedIn, loaded>>

\* Signing out changes nothing once the user has opted out.
SignOut(m) ==
    /\ Turn(m) /\ signedIn[m] /\ optedIn[m]
    /\ signedIn' = [signedIn EXCEPT ![m] = FALSE]
    /\ asked' = [asked EXCEPT ![m] = {}]
    /\ UNCHANGED <<data, optedIn, on, loaded, job, pending>>

SignIn(m) ==
    /\ Turn(m) /\ ~signedIn[m]
    /\ signedIn' = [signedIn EXCEPT ![m] = TRUE]
    /\ Sync(m, EnabledGroups(m))
    /\ UNCHANGED <<data, optedIn, on, loaded>>

\* loadWorkspace is done.
Load(m) ==
    /\ ~loaded[m]
    /\ loaded' = [loaded EXCEPT ![m] = TRUE]
    /\ UNCHANGED <<data, signedIn, optedIn, on, job, pending, asked>>

-----------------------------------------------------------------------------
(* Edits.                                                                  *)

\* muteDepth > 0: server values are being written back, over an await.
Muted(m) == job[m].pc = "binding"

\* A setter changes a setting and notes the time (noteSettingsEdit).
Edit(m, g) ==
    /\ Turn(m) /\ now < MaxTime
    /\ on[m][g] \/ g \in Toggled[m]
    /\ now' = now + 1
    /\ value' = [value EXCEPT ![m][g] = now']
    /\ IF Muted(m)
       THEN missed' = missed \union {now'} /\ UNCHANGED edits
       ELSE edits' = [edits EXCEPT ![m][g] = now'] /\ UNCHANGED missed
    /\ UNCHANGED <<server, meta, toggles, job, pending, asked>>

-----------------------------------------------------------------------------
(* A run.                                                                  *)

\* runStillAllowed.
Allowed(m) == signedIn[m] /\ optedIn[m]

Dirty(m, g, v) == meta[m][g].hash # v

GoOn(m) == [job[m] EXCEPT !.pc = "loop", !.group = None, !.local = 0, !.mtime = 0, !.got = None]

runOnly == <<toggles, pending, asked, missed>>

\* A group that was turned off is skipped.
Skip(m, g) ==
    /\ job[m].pc = "loop" /\ loaded[m] /\ Allowed(m)
    /\ g \in job[m].todo /\ ~on[m][g]
    /\ job' = [job EXCEPT ![m].todo = @ \ {g}]
    /\ UNCHANGED <<data, toggles, pending, asked>>

Collected(m, g, t) ==
    job' = [job EXCEPT ![m].pc = "pulling", ![m].todo = @ \ {g}, ![m].group = g,
                       ![m].local = value[m][g], ![m].mtime = t]

\* syncGroup up to the pull.  A group that has changed carries the time of its
\* edit, or the present time if no edit is on record.
Collect(m, g) ==
    /\ job[m].pc = "loop" /\ loaded[m] /\ Allowed(m)
    /\ g \in job[m].todo /\ on[m][g]
    /\ IF Dirty(m, g, value[m][g])
       THEN IF edits[m][g] # 0
            THEN Collected(m, g, edits[m][g]) /\ UNCHANGED now
            ELSE now < MaxTime /\ now' = now + 1 /\ Collected(m, g, now')
       ELSE Collected(m, g, meta[m][g].mtime) /\ UNCHANGED now
    /\ asked' = [asked EXCEPT ![m] = @ \ {g}]
    /\ UNCHANGED <<server, value, edits, meta, toggles, pending, missed>>

\* pullGroup reads the row.
PullReads(m) ==
    /\ job[m].pc = "pulling"
    /\ job' = [job EXCEPT ![m].pc = "pulled", ![m].got = server[job[m].group]]
    /\ UNCHANGED <<now, server, value, edits, meta, runOnly>>

\* The value is written into the store and its hash taken.
Adopted(m, g, v, row) ==
    /\ value' = [value EXCEPT ![m][g] = v]
    /\ meta' = [meta EXCEPT ![m][g] = [hash |-> v, mtime |-> row.at]]
    /\ job' = [job EXCEPT ![m] = GoOn(m)]

\* applyGroup.  A binding is taken over only where the machine has none, and
\* written to the database first.
Adopt(m, row) ==
    LET g == job[m].group IN
    IF g \notin Slow THEN Adopted(m, g, row.payload, row)
    ELSE IF value[m][g] # 0 \/ row.payload = 0 THEN Adopted(m, g, value[m][g], row)
    ELSE /\ job' = [job EXCEPT ![m].pc = "binding", ![m].got = row]
         /\ UNCHANGED <<value, meta>>

\* Nothing is to do if the group has not changed and the account has it.
KeepOrPush(m) ==
    job' = [job EXCEPT ![m] =
        IF job[m].got # None /\ ~Dirty(m, job[m].group, job[m].local)
        THEN GoOn(m) ELSE [@ EXCEPT !.pc = "pushing", !.got = None]]

\* Variant of PullReturns: any other time stamp wins, not only a later one.
PullReturnsOther(m) ==
    LET row == job[m].got
        wins == row # None /\ (meta[m][job[m].group].hash = None \/ row.at # job[m].mtime) IN
    /\ job[m].pc = "pulled"
    /\ \/ wins /\ Adopt(m, row)
       \/ ~wins /\ KeepOrPush(m) /\ UNCHANGED <<value, meta>>
    /\ UNCHANGED <<now, server, edits, runOnly>>

\* The pull's answer: the server wins, nothing is to do, or the group is pushed.
PullReturns(m) ==
    LET row == job[m].got
        wins == row # None /\ (meta[m][job[m].group].hash = None \/ row.at > job[m].mtime) IN
    /\ job[m].pc = "pulled"
    /\ \/ wins /\ Adopt(m, row)
       \/ ~wins /\ KeepOrPush(m) /\ UNCHANGED <<value, meta>>
    /\ UNCHANGED <<now, server, edits, runOnly>>

\* pushGroup: the server takes a later row and refuses any other.
PushLands(m) ==
    LET g == job[m].group
        row == [payload |-> job[m].local, at |-> job[m].mtime] IN
    /\ job[m].pc = "pushing"
    /\ IF server[g] = None \/ server[g].at < row.at
       THEN /\ server' = [server EXCEPT ![g] = row]
            /\ job' = [job EXCEPT ![m].pc = "pushed"]
       ELSE /\ job' = [job EXCEPT ![m].pc = "refused", ![m].got = server[g]]
            /\ UNCHANGED server
    /\ UNCHANGED <<now, value, edits, meta, runOnly>>

\* Variant of PushReturns: the group is collected anew for its hash.
PushReturnsLate(m) ==
    LET g == job[m].group IN
    /\ \/ /\ job[m].pc = "pushed"
          /\ meta' = [meta EXCEPT ![m][g] = [hash |-> value[m][g], mtime |-> job[m].mtime]]
          /\ job' = [job EXCEPT ![m] = GoOn(m)]
          /\ UNCHANGED value
       \/ job[m].pc = "refused" /\ Adopt(m, job[m].got)
    /\ UNCHANGED <<now, server, edits, runOnly>>

\* Written, or refused for a row that is then adopted.
PushReturns(m) ==
    LET g == job[m].group IN
    /\ \/ /\ job[m].pc = "pushed"
          /\ meta' = [meta EXCEPT ![m][g] = [hash |-> job[m].local, mtime |-> job[m].mtime]]
          /\ job' = [job EXCEPT ![m] = GoOn(m)]
          /\ UNCHANGED value
       \/ job[m].pc = "refused" /\ Adopt(m, job[m].got)
    /\ UNCHANGED <<now, server, edits, runOnly>>

\* The database has the binding; the store follows.
Binds(m) ==
    /\ job[m].pc = "binding"
    /\ Adopted(m, job[m].group, job[m].got.payload, job[m].got)
    /\ UNCHANGED <<now, server, edits, runOnly>>

\* A request or the database fails, or the answer is lost: on to the next group.
Fails(m) ==
    /\ job[m].pc \in {"pulling", "pulled", "pushing", "pushed", "refused", "binding"}
    /\ job' = [job EXCEPT ![m] = GoOn(m)]
    /\ UNCHANGED <<now, server, value, edits, meta, runOnly>>

\* Variant of Ends: what has waited is cleared with the run.
EndsClearing(m) ==
    /\ job[m].pc = "loop" /\ loaded[m]
    /\ job[m].todo = {} \/ ~Allowed(m)
    /\ job' = [job EXCEPT ![m] = NoJob]
    /\ pending' = [pending EXCEPT ![m] = {}]
    /\ UNCHANGED <<data, toggles, asked>>

\* The run is over or no longer wanted; what has waited for it comes next.
Ends(m) ==
    /\ job[m].pc = "loop" /\ loaded[m]
    /\ job[m].todo = {} \/ ~Allowed(m)
    /\ job' = [job EXCEPT ![m] = IF pending[m] # {} /\ signedIn[m]
                                 THEN Starting(pending[m]) ELSE NoJob]
    /\ pending' = [pending EXCEPT ![m] = {}]
    /\ UNCHANGED <<data, toggles, asked>>

-----------------------------------------------------------------------------

UserNext(m) ==
    \/ SyncNow(m) \/ OptIn(m) \/ Load(m)
    \/ m \in Quitter /\ (OptOut(m) \/ SignOut(m) \/ SignIn(m))
    \/ \E g \in Group : Edit(m, g)
    \/ \E g \in Toggled[m] : TurnOn(m, g) \/ TurnOff(m, g)

RunNext(m) ==
    \/ \E g \in Group : Skip(m, g) \/ Collect(m, g)
    \/ PullReads(m) \/ PullReturns(m) \/ PushLands(m) \/ PushReturns(m) \/ Binds(m)
    \/ Fails(m) \/ Ends(m)

Next == \E m \in Machine : UserNext(m) \/ RunNext(m)

Spec == Init /\ [][Next]_vars

-----------------------------------------------------------------------------
\* A group somebody asked for while a run was in flight that does not cover it
\* is not dropped: when no run is left, every such group has had its turn.
NothingDropped ==
    /\ TypeOK
    /\ \A m \in Machine : job[m].pc = "idle" => asked[m] = {}

\* A machine that takes itself for synced is: if it has the server's time and an
\* unchanged hash, it has the server's value, whatever was edited meanwhile and
\* whichever answers were lost.  That half does not speak of the groups in Slow:
\* a machine that has a binding takes over the row's time and keeps its own value.
\* And no machine is ahead of the server.
SyncedIsTrue ==
    \A m \in Machine, g \in Group :
        meta[m][g].hash # None =>
            /\ server[g] # None /\ meta[m][g].mtime <= server[g].at
            /\ g \notin Slow /\ meta[m][g].mtime = server[g].at =>
                   meta[m][g].hash = server[g].payload

\* Last writer wins: a setting gives way to an older one only when the machine
\* adopts the account's for the first time, or to the default of a machine that
\* was never edited.  Two kinds of edits are excepted that the code may lose:
\* those made after the run collected the group, and those not stamped.
NewerEditSurvives ==
    [][\A m \in Machine, g \in Group :
          value'[m][g] < value[m][g] =>
              \/ meta[m][g].hash = None
              \/ value'[m][g] = 0
              \/ value[m][g] # job[m].local
              \/ {value[m][g], value'[m][g]} \intersect missed # {}]_vars

=============================================================================
