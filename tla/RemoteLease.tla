----------------------------- MODULE RemoteLease -----------------------------
(***************************************************************************)
(* One remote process lease: crates/pickforge-core/src/remote/lease.rs.    *)
(*                                                                         *)
(* The desktop holds a RemoteLeaseHandle.  prepare() runs a bootstrap      *)
(* helper over ssh that creates a private lease directory and a FIFO; the  *)
(* launching ssh runs the Python supervisor, which takes the payload from  *)
(* the FIFO, forks it, records it in state.json, forks a watchdog, and     *)
(* polls.  Heartbeats and stops arrive as separate short ssh commands      *)
(* ("controls") that rewrite state.json under state.lock.                  *)
(*                                                                         *)
(* One step is one system call or one stretch of code whose intermediate   *)
(* states no other process can see: read-modify-write of state.json under  *)
(* state.lock is split where cleanup(), which takes no lock, can come in   *)
(* between.  Files are their existence; state.lock is an inode number,     *)
(* because flock holds the inode a process opened and cleanup may have     *)
(* unlinked it.  Time is relative: state.json holds the ticks left until   *)
(* expiry.  One tick stands for a heartbeat interval, much longer than     *)
(* POLL and GRACE.                                                         *)
(***************************************************************************)
EXTENDS Naturals, FiniteSets

CONSTANTS Control,  \* ssh control commands that may be under way at once
          TTL,      \* LEASE_TTL_SECS, in ticks
          Traps,    \* the members of the payload's group that ignore SIGTERM
          None      \* no state.json

ASSUME TTLAssumption == TTL \in Nat \ {0}
ASSUME TrapsAssumption == Traps \subseteq {"leader", "kid"}
ASSUME ControlAssumption == IsFiniteSet(Control) /\ Control \intersect {"sup", "dog"} = {}

VARIABLES
    client,   \* the RemoteLeaseHandle and its heartbeat thread
    boot,     \* the bootstrap helper
    dir, fifo, st, lockIno, live,   \* the lease directory and its files
    ino,      \* ino[p]: the state.lock inode p has open, 0 if none
    held,     \* processes holding the flock of their inode
    sup,      \* where the supervisor is
    stopReq,  \* its stop_requested
    dog,      \* where the watchdog is
    ctl,      \* ctl[k]: a control command, its action and the state to write
    leader, kid,  \* the payload's group leader and another member of its group
    polled,   \* monitors that have polled since the last tick
    epoch     \* flips at every tick

fileVars == <<dir, fifo, st, lockIno, live>>
lockVars == <<ino, held>>
groupVars == <<leader, kid>>
timeVars == <<polled, epoch>>
vars == <<client, boot, fileVars, lockVars, sup, stopReq, dog, ctl, groupVars,
          timeVars>>

Process == {"sup", "dog"} \union Control

State == [state : {"starting", "running", "stopping"},
          left : 0..TTL,         \* expiry - now
          payload : BOOLEAN]     \* payload_pid, _pgid, _identity recorded

ASSUME NoneAssumption == None \notin State

SupPC == {"none", "loading", "reading", "delivered", "starting", "forked",
          "recorded", "loop", "terminating", "grace", "clean1", "clean2",
          "clean3", "waitdog", "exited", "crashed"}
DogPC == {"none", "starting", "polling", "marking", "terminating", "grace",
          "clean1", "clean2", "clean3", "exited"}

Idle == [pc |-> "idle", act |-> "beat", view |-> None]

TypeOK ==
    /\ client \in {"new", "prepared", "launched", "beating", "stopped",
                   "finished", "gone"}
    /\ boot \in {"none", "ready", "delivered", "gone"}
    /\ dir \in BOOLEAN /\ fifo \in BOOLEAN
    /\ st \in State \union {None}
    /\ lockIno \in Nat
    /\ live \in {"none", "original", "fresh"}
    /\ ino \in [Process -> Nat]
    /\ held \in SUBSET Process
    /\ sup \in SupPC /\ dog \in DogPC /\ stopReq \in BOOLEAN
    /\ ctl \in [Control -> [pc : {"idle", "sent", "opened", "writing", "done", "lost"},
                            act : {"beat", "stop"}, view : State \union {None}]]
    /\ leader \in {"none", "alive", "zombie", "reaped"}
    /\ kid \in {"none", "alive", "dead"}
    /\ polled \in SUBSET {"sup", "dog"}
    /\ epoch \in BOOLEAN

Init ==
    /\ client = "new" /\ boot = "none"
    /\ dir = FALSE /\ fifo = FALSE /\ st = None /\ lockIno = 0 /\ live = "none"
    /\ ino = [p \in Process |-> 0] /\ held = {}
    /\ sup = "none" /\ stopReq = FALSE /\ dog = "none"
    /\ ctl = [k \in Control |-> Idle]
    /\ leader = "none" /\ kid = "none"
    /\ polled = {} /\ epoch = FALSE

-----------------------------------------------------------------------------
(* Files and locks.                                                        *)

\* The supervisor process exists: process_identity(supervisor_pid) matches.
SupAlive == sup \notin {"none", "exited", "crashed"}

\* A number no open descriptor and no directory entry refers to.
FreshIno == CHOOSE n \in 1..(Cardinality(Process) + 2) :
                n # lockIno /\ \A p \in Process : ino[p] # n

\* lock_file(state.lock): open, creating the file if it is absent.
OpenLock(p) ==
    LET n == IF lockIno = 0 THEN FreshIno ELSE lockIno IN
    /\ lockIno' = n
    /\ ino' = [ino EXCEPT ![p] = n]

\* flock(LOCK_EX) can succeed: nobody holds the inode p has open.
CanLock(p) == \A q \in held : ino[q] # ino[p]

\* os.rmdir(lease): only an empty directory goes.
Rmdir == dir' = (dir /\ (fifo' \/ st' # None \/ lockIno' # 0 \/ live' # "none"))

-----------------------------------------------------------------------------
(* The desktop: RemoteLeaseHandle.                                         *)

clientOnly == <<fileVars, lockVars, sup, stopReq, dog, groupVars, timeVars>>

\* A free control slot takes one more ssh command.
Send(k, act) ==
    /\ ctl[k].pc = "idle"
    /\ ctl' = [ctl EXCEPT ![k] = [pc |-> "sent", act |-> act, view |-> None]]

\* prepare: the helper has made the directory and the FIFO, and its READY line
\* has arrived.
Prepare ==
    /\ client = "new"
    /\ client' = "prepared"
    /\ boot' = "ready" /\ dir' = TRUE /\ fifo' = TRUE
    /\ UNCHANGED <<st, lockIno, live, lockVars, sup, stopReq, dog, ctl,
                   groupVars, timeVars>>

\* READY does not arrive in time; the caller drops the handle, which stops it.
PrepareTimesOut(k) ==
    /\ client = "new"
    /\ client' = "stopped"
    /\ Send(k, "stop")
    /\ boot' = "ready" /\ dir' = TRUE /\ fifo' = TRUE
    /\ UNCHANGED <<st, lockIno, live, lockVars, sup, stopReq, dog, groupVars,
                   timeVars>>

\* The launching ssh reaches the host.
Launch ==
    /\ client = "prepared"
    /\ client' = "launched" /\ sup' = "loading"
    /\ UNCHANGED <<boot, fileVars, lockVars, stopReq, dog, ctl, groupVars, timeVars>>

StartHeartbeat ==
    /\ client = "launched"
    /\ client' = "beating"
    /\ UNCHANGED <<boot, ctl, clientOnly>>

\* heartbeat_loop: the interval elapsed without a stop.
SendBeat(k) ==
    /\ client = "beating"
    /\ Send(k, "beat")
    /\ UNCHANGED <<client, boot, clientOnly>>

\* stop, stop_bounded or drop, whichever is first: no further beats, one stop.
Stop(k) ==
    /\ client \in {"prepared", "launched", "beating"}
    /\ client' = "stopped"
    /\ Send(k, "stop")
    /\ UNCHANGED <<boot, clientOnly>>

\* The local ssh has ended (the payload is done, or the connection broke):
\* finish_natural sends nothing.
FinishNatural ==
    /\ client \in {"launched", "beating"}
    /\ client' = "finished"
    /\ UNCHANGED <<boot, ctl, clientOnly>>

\* The desktop process dies.
ClientCrash ==
    /\ client \notin {"stopped", "finished", "gone"}
    /\ client' = "gone"
    /\ UNCHANGED <<boot, ctl, clientOnly>>

-----------------------------------------------------------------------------
(* The bootstrap helper.                                                   *)

\* The supervisor opens the FIFO: the helper writes the payload and disarms
\* its rollback; the supervisor reads it and unlinks the FIFO.
Deliver ==
    /\ boot = "ready" /\ sup = "reading" /\ fifo
    /\ boot' = "delivered" /\ sup' = "delivered" /\ fifo' = FALSE
    /\ UNCHANGED <<client, dir, st, lockIno, live, lockVars, stopReq, dog, ctl,
                   groupVars, timeVars>>

\* Thirty seconds pass, or a signal arrives: rollback.
BootGivesUp ==
    /\ boot = "ready"
    /\ boot' = "gone" /\ fifo' = FALSE
    /\ UNCHANGED <<client, st, lockIno, live, lockVars, sup, stopReq, dog, ctl,
                   groupVars, timeVars>>
    /\ Rmdir

-----------------------------------------------------------------------------
(* control(): heartbeats and stops on the remote host.                     *)

ctlOnly == <<client, boot, sup, stopReq, dog, groupVars, timeVars>>

CtlGoto(k, pc) == ctl' = [ctl EXCEPT ![k].pc = pc]

\* The command never reaches the host.
CtlLost(k) ==
    /\ ctl[k].pc = "sent"
    /\ CtlGoto(k, "lost")
    /\ UNCHANGED <<fileVars, lockVars, ctlOnly>>

\* Without a lease directory there is nothing to control.
CtlOpen(k) ==
    /\ ctl[k].pc = "sent"
    /\ IF dir
       THEN CtlGoto(k, "opened") /\ OpenLock(k)
       ELSE CtlGoto(k, "done") /\ UNCHANGED <<lockIno, ino>>
    /\ UNCHANGED <<dir, fifo, st, live, held, ctlOnly>>

\* state_matches: a state of this lease whose supervisor is alive.
Matches == st # None /\ SupAlive

\* live_lock_held probes by path and creates the file if it was unlinked.
Authentic == Matches /\ live = "original"

\* The state a control writes.  A beat does not look at the expiry.
Rewritten(act) ==
    IF act = "beat" THEN [st EXCEPT !.left = TTL] ELSE [st EXCEPT !.state = "stopping"]

Accepted(act) ==
    st.state \in (IF act = "beat" THEN {"running"} ELSE {"starting", "running"})

\* Variant of CtlRead: the lock is released between reading and writing.
CtlReadUnlocked(k) ==
    /\ ctl[k].pc = "opened"
    /\ CanLock(k)
    /\ IF Authentic /\ Accepted(ctl[k].act)
       THEN ctl' = [ctl EXCEPT ![k].pc = "writing", ![k].view = Rewritten(ctl[k].act)]
       ELSE CtlGoto(k, "done")
    /\ live' = IF Matches /\ live = "none" THEN "fresh" ELSE live
    /\ UNCHANGED <<dir, fifo, st, lockIno, ino, held, ctlOnly>>

\* Take the lock, read and check.
CtlRead(k) ==
    /\ ctl[k].pc = "opened"
    /\ CanLock(k)
    /\ IF Authentic /\ Accepted(ctl[k].act)
       THEN /\ ctl' = [ctl EXCEPT ![k].pc = "writing", ![k].view = Rewritten(ctl[k].act)]
            /\ held' = held \union {k}
       ELSE CtlGoto(k, "done") /\ UNCHANGED held
    /\ live' = IF Matches /\ live = "none" THEN "fresh" ELSE live
    /\ UNCHANGED <<dir, fifo, st, lockIno, ino, ctlOnly>>

\* write_state replaces the file by path, then the lock is released.
CtlWrite(k) ==
    /\ ctl[k].pc = "writing"
    /\ st' = IF dir THEN ctl[k].view ELSE st
    /\ CtlGoto(k, "done")
    /\ held' = held \ {k}
    /\ UNCHANGED <<dir, fifo, lockIno, live, ino, ctlOnly>>

\* The command ends and its slot is free again.
CtlEnd(k) ==
    /\ ctl[k].pc \in {"done", "lost"}
    /\ ctl' = [ctl EXCEPT ![k] = Idle]
    /\ ino' = [ino EXCEPT ![k] = 0]
    /\ UNCHANGED <<fileVars, held, ctlOnly>>

-----------------------------------------------------------------------------
(* The payload's process group.                                            *)

LeaderExits ==
    /\ leader = "alive"
    /\ leader' = "zombie"
    /\ UNCHANGED <<client, boot, fileVars, lockVars, sup, stopReq, dog, ctl,
                   kid, timeVars>>

LeaderForks ==
    /\ leader = "alive" /\ kid = "none"
    /\ kid' = "alive"
    /\ UNCHANGED <<client, boot, fileVars, lockVars, sup, stopReq, dog, ctl,
                   leader, timeVars>>

\* Without its supervisor the leader is reaped by init.
InitReaps ==
    /\ leader = "zombie" /\ ~SupAlive
    /\ leader' = "reaped"
    /\ UNCHANGED <<client, boot, fileVars, lockVars, sup, stopReq, dog, ctl,
                   kid, timeVars>>

\* killpg with SIGTERM and with SIGKILL.
TermGroup ==
    /\ leader' = IF leader = "alive" /\ "leader" \notin Traps THEN "zombie" ELSE leader
    /\ kid' = IF kid = "alive" /\ "kid" \notin Traps THEN "dead" ELSE kid

KillGroup(l) ==
    /\ leader' = l
    /\ kid' = IF kid = "alive" THEN "dead" ELSE kid

\* valid_payload_group: the leader's pid still carries its birth identity,
\* which a zombie does.
GroupValid == leader \in {"alive", "zombie"}

-----------------------------------------------------------------------------
(* supervise().                                                            *)

supOnly == <<client, boot, dog, ctl>>

\* validate_runtime and live.lock.  A lease that rolled back is gone.
SupStart ==
    /\ sup = "loading"
    /\ sup' = IF dir THEN "reading" ELSE "exited"
    /\ live' = IF dir THEN "original" ELSE live
    /\ UNCHANGED <<supOnly, dir, fifo, st, lockIno, lockVars, stopReq,
                   groupVars, timeVars>>

\* read_bootstrap times out, finds no FIFO, or reads an invalid payload.
SupReadFails ==
    /\ sup \in {"reading", "delivered"}
    /\ sup' = "clean1"
    /\ UNCHANGED <<supOnly, fileVars, lockVars, stopReq, groupVars, timeVars>>

\* Write "starting" under the lock.
SupWriteStarting ==
    /\ sup = "delivered"
    /\ \A q \in held : ino[q] # lockIno
    /\ OpenLock("sup")
    /\ st' = [state |-> "starting", left |-> TTL, payload |-> FALSE]
    /\ sup' = "starting"
    /\ UNCHANGED <<supOnly, dir, fifo, live, held, stopReq, groupVars, timeVars>>

\* Variant of SupLaunch: the lock is not kept across the fork.
SupLaunchUnlocked ==
    /\ sup = "starting"
    /\ CanLock("sup")
    /\ IF stopReq \/ st = None \/ st.state # "starting"
       THEN sup' = "clean1" /\ UNCHANGED leader
       ELSE sup' = "forked" /\ leader' = "alive"
    /\ UNCHANGED <<supOnly, fileVars, ino, held, stopReq, kid, timeVars>>

\* Take the lock again, check for a stop and fork.
SupLaunch ==
    /\ sup = "starting"
    /\ CanLock("sup")
    /\ IF stopReq \/ st = None \/ st.state # "starting"
       THEN sup' = "clean1" /\ UNCHANGED <<held, leader>>
       ELSE sup' = "forked" /\ held' = held \union {"sup"} /\ leader' = "alive"
    /\ UNCHANGED <<supOnly, fileVars, ino, stopReq, kid, timeVars>>

\* No process group, or no birth identity: kill the child and give up.
SupRecordFails ==
    /\ sup = "forked"
    /\ sup' = "clean1" /\ held' = held \ {"sup"} /\ leader' = "reaped"
    /\ UNCHANGED <<supOnly, fileVars, ino, stopReq, kid, timeVars>>

\* Record the payload as running, then release the lock.
SupRecord ==
    /\ sup = "forked"
    /\ st' = [st EXCEPT !.state = "running", !.payload = TRUE]
    /\ sup' = "recorded" /\ held' = held \ {"sup"}
    /\ UNCHANGED <<supOnly, dir, fifo, lockIno, live, ino, stopReq, groupVars,
                   timeVars>>

SupForksDog ==
    /\ sup = "recorded"
    /\ sup' = "loop" /\ dog' = "starting"
    /\ UNCHANGED <<client, boot, ctl, fileVars, lockVars, stopReq, groupVars,
                   timeVars>>

\* The leader has exited.
SupReaps ==
    /\ sup = "loop" /\ leader = "zombie"
    /\ leader' = "reaped" /\ sup' = "clean1"
    /\ UNCHANGED <<supOnly, fileVars, lockVars, stopReq, kid, timeVars>>

Expired == st.state # "running" \/ st.left = 0

\* One turn of the loop, under the lock.  Nobody cleans up while the leader is
\* alive and the state is "running", so read and write are one step.
SupPoll ==
    /\ sup = "loop" /\ leader = "alive"
    /\ CanLock("sup")
    /\ stopReq' = (stopReq \/ st = None \/ Expired)
    /\ st' = IF st # None /\ st.state = "running" /\ st.left = 0
             THEN [st EXCEPT !.state = "stopping"] ELSE st
    /\ sup' = IF stopReq' THEN "terminating" ELSE "loop"
    /\ polled' = polled \union {"sup"}
    /\ UNCHANGED <<supOnly, dir, fifo, lockIno, live, lockVars, groupVars, epoch>>

\* SIGHUP, SIGTERM, SIGINT or SIGQUIT once the handlers are installed.
SupSignalled ==
    /\ sup \in {"starting", "forked", "recorded", "loop"}
    /\ stopReq' = TRUE
    /\ UNCHANGED <<supOnly, fileVars, lockVars, sup, groupVars, timeVars>>

\* Variant of SupTerminates: SIGTERM without the escalation to SIGKILL.
SupTerminatesOnce ==
    /\ sup = "terminating"
    /\ sup' = "clean1"
    /\ TermGroup
    /\ UNCHANGED <<supOnly, fileVars, lockVars, stopReq, timeVars>>

\* terminate_payload: a leader that has already exited is only reaped.
SupTerminates ==
    /\ sup = "terminating"
    /\ IF leader = "alive"
       THEN sup' = "grace" /\ TermGroup
       ELSE sup' = "clean1" /\ leader' = "reaped" /\ UNCHANGED kid
    /\ UNCHANGED <<supOnly, fileVars, lockVars, stopReq, timeVars>>

\* The grace period ends early when the leader is reaped; only a leader that
\* is still there gets its group killed.
SupGraceEnds ==
    /\ sup = "grace"
    /\ sup' = "clean1"
    /\ IF leader = "alive" THEN KillGroup("reaped")
                           ELSE leader' = "reaped" /\ UNCHANGED kid
    /\ UNCHANGED <<supOnly, fileVars, lockVars, stopReq, timeVars>>

\* SIGKILL, or a signal before the handlers are installed.  The kernel drops
\* its locks.
SupCrash ==
    /\ SupAlive
    /\ sup' = "crashed"
    /\ held' = held \ {"sup"} /\ ino' = [ino EXCEPT !["sup"] = 0]
    /\ UNCHANGED <<supOnly, fileVars, stopReq, groupVars, timeVars>>

-----------------------------------------------------------------------------
(* cleanup(): three steps, by the supervisor or the watchdog.              *)

UnlinkState ==
    /\ fifo' = FALSE /\ st' = None
    /\ UNCHANGED <<dir, lockIno, live>>

UnlinkLocks ==
    /\ lockIno' = 0 /\ live' = "none"
    /\ UNCHANGED <<dir, fifo, st>>

RemoveDir == UNCHANGED <<fifo, st, lockIno, live>> /\ Rmdir

CleanupStep(pc, next) ==
    \/ pc = "clean1" /\ next = "clean2" /\ UnlinkState
    \/ pc = "clean2" /\ next = "clean3" /\ UnlinkLocks
    \/ pc = "clean3" /\ next = "clean4" /\ RemoveDir

SupCleans ==
    /\ \E next \in {"clean2", "clean3", "clean4"} :
          /\ CleanupStep(sup, next)
          /\ sup' = IF next = "clean4" THEN "waitdog" ELSE next
    /\ UNCHANGED <<supOnly, lockVars, stopReq, groupVars, timeVars>>

\* waitpid(watchdog).
SupExits ==
    /\ sup = "waitdog"
    /\ dog \in {"none", "exited"}
    /\ sup' = "exited" /\ ino' = [ino EXCEPT !["sup"] = 0]
    /\ UNCHANGED <<supOnly, fileVars, held, stopReq, groupVars, timeVars>>

-----------------------------------------------------------------------------
(* watchdog().                                                             *)

dogOnly == <<client, boot, sup, stopReq, ctl>>

DogStarts ==
    /\ dog = "starting"
    /\ IF dir THEN dog' = "polling" /\ OpenLock("dog")
              ELSE dog' = "exited" /\ UNCHANGED <<lockIno, ino>>
    /\ UNCHANGED <<dogOnly, dir, fifo, st, live, held, groupVars, timeVars>>

\* Variant of DogPolls: the watchdog obeys stops but not the expiry.
DogPollsPatient ==
    /\ dog = "polling"
    /\ CanLock("dog")
    /\ dog' = IF st = None THEN "exited"
              ELSE IF st.state # "running" THEN "terminating" ELSE "polling"
    /\ polled' = polled \union {"dog"}
    /\ UNCHANGED <<dogOnly, fileVars, lockVars, groupVars, epoch>>

\* Variant of DogPolls: a missing state file is waited for.
DogPollsForever ==
    /\ dog = "polling"
    /\ CanLock("dog")
    /\ dog' = IF st = None THEN "polling"
              ELSE IF st.state # "running" THEN "terminating"
              ELSE IF st.left = 0 THEN "marking" ELSE "polling"
    /\ held' = IF dog' = "marking" THEN held \union {"dog"} ELSE held
    /\ polled' = polled \union {"dog"}
    /\ UNCHANGED <<dogOnly, fileVars, ino, groupVars, epoch>>

\* One poll: gone, not ours, overdue, stopping, or nothing to do.
DogPolls ==
    /\ dog = "polling"
    /\ CanLock("dog")
    /\ dog' = CASE st = None -> "exited"
                [] st # None /\ ~st.payload -> "exited"
                [] st # None /\ st.payload /\ st.state = "running" /\ st.left = 0 -> "marking"
                [] st # None /\ st.payload /\ st.state # "running" -> "terminating"
                [] OTHER -> "polling"
    /\ held' = IF dog' = "marking" THEN held \union {"dog"} ELSE held
    /\ polled' = polled \union {"dog"}
    /\ UNCHANGED <<dogOnly, fileVars, ino, groupVars, epoch>>

\* Write "stopping" and release the lock.
DogMarks ==
    /\ dog = "marking"
    /\ st' = IF dir THEN [state |-> "stopping", left |-> 0, payload |-> TRUE] ELSE st
    /\ dog' = IF dir THEN "terminating" ELSE "exited"
    /\ held' = held \ {"dog"}
    /\ UNCHANGED <<dogOnly, dir, fifo, lockIno, live, ino, groupVars, timeVars>>

\* terminate_payload without waitpid.
DogTerminates ==
    /\ dog = "terminating"
    /\ IF GroupValid THEN dog' = "grace" /\ TermGroup
                     ELSE dog' = "clean1" /\ UNCHANGED <<leader, kid>>
    /\ UNCHANGED <<dogOnly, fileVars, lockVars, timeVars>>

\* Variant of DogGraceEnds: no SIGKILL after the grace period.
DogGraceEndsPolitely ==
    /\ dog = "grace"
    /\ dog' = "clean1"
    /\ UNCHANGED <<dogOnly, fileVars, lockVars, groupVars, timeVars>>

DogGraceEnds ==
    /\ dog = "grace"
    /\ dog' = "clean1"
    /\ IF GroupValid THEN KillGroup("zombie") ELSE UNCHANGED <<leader, kid>>
    /\ UNCHANGED <<dogOnly, fileVars, lockVars, timeVars>>

DogCleans ==
    /\ \E next \in {"clean2", "clean3", "clean4"} :
          /\ CleanupStep(dog, next)
          /\ dog' = IF next = "clean4" THEN "exited" ELSE next
    /\ UNCHANGED <<dogOnly, lockVars, groupVars, timeVars>>

-----------------------------------------------------------------------------
(* Time.                                                                   *)

\* A monitor polls at least once a tick, and termination and cleanup take
\* less than a tick (POLL and GRACE against the heartbeat interval).
Prompt ==
    /\ sup \notin {"terminating", "grace", "clean1", "clean2", "clean3"}
    /\ sup = "loop" => leader = "alive" /\ "sup" \in polled
    /\ dog \notin {"starting", "marking", "terminating", "grace", "clean1",
                   "clean2", "clean3"}
    /\ dog = "polling" => "dog" \in polled

Aged(s) == IF s = None \/ s.left = 0 THEN s ELSE [s EXCEPT !.left = @ - 1]

Tick ==
    /\ Prompt
    /\ st' = Aged(st)
    /\ ctl' = [k \in Control |-> [ctl[k] EXCEPT !.view = Aged(@)]]
    /\ polled' = {} /\ epoch' = ~epoch
    /\ UNCHANGED <<client, boot, dir, fifo, lockIno, live, lockVars, sup,
                   stopReq, dog, groupVars>>

-----------------------------------------------------------------------------

ClientNext ==
    \/ Prepare \/ Launch \/ StartHeartbeat \/ FinishNatural \/ ClientCrash
    \/ \E k \in Control : PrepareTimesOut(k) \/ SendBeat(k) \/ Stop(k)

BootNext == Deliver \/ BootGivesUp

CtlNext(k) == CtlOpen(k) \/ CtlRead(k) \/ CtlWrite(k) \/ CtlEnd(k)

SupNext ==
    \/ SupStart \/ SupReadFails \/ SupWriteStarting \/ SupLaunch
    \/ SupRecordFails \/ SupRecord \/ SupForksDog \/ SupReaps \/ SupPoll
    \/ SupTerminates \/ SupGraceEnds \/ SupCleans \/ SupExits

DogNext ==
    \/ DogStarts \/ DogPolls \/ DogMarks \/ DogTerminates \/ DogGraceEnds
    \/ DogCleans

Next ==
    \/ ClientNext \/ BootNext
    \/ \E k \in Control : CtlLost(k) \/ CtlNext(k)
    \/ LeaderExits \/ LeaderForks \/ InitReaps
    \/ SupNext \/ SupSignalled \/ SupCrash
    \/ DogNext
    \/ Tick

Spec == Init /\ [][Next]_vars

\* Remote processes that exist are scheduled, and time passes.  Nothing is
\* assumed of the desktop, of ssh, or of the payload.
Fairness ==
    /\ WF_vars(SupNext) /\ WF_vars(DogNext) /\ WF_vars(Tick) /\ WF_vars(BootNext)
    /\ \A k \in Control : WF_vars(CtlNext(k))

FairSpec == Spec /\ Fairness

-----------------------------------------------------------------------------
(* Safety.                                                                 *)

\* Whoever reads a started or stopped lease finds the identity of a payload
\* that is alive: it is forked and recorded behind the lock.
RunningIsRecorded ==
    /\ TypeOK
    /\ st # None /\ st.state # "starting" /\ ~st.payload => leader # "alive"

\* A stop that is on record is obeyed.  Before the fork it prevents the launch;
\* while the payload lives no late heartbeat, watchdog or supervisor write takes
\* "stopping" back, and the record is not cleaned up.
StopIsObeyed ==
    [][st # None /\ st.state = "stopping" =>
          /\ leader = "none" => leader' = "none"
          /\ leader = "alive" => st' # None /\ st'.state = "stopping"]_vars

\* As long as the payload lives, a control that writes finds the state it
\* read: no stop, expiry or payload record is overwritten from an older copy,
\* or brought back after a cleanup.  (Once the payload is dead, cleanup unlinks
\* state.lock under the feet of its holder and such writes do occur.)
NoLostUpdate ==
    [][\A k \in Control :
          ctl[k].pc = "writing" /\ ctl'[k].pc = "done" /\ leader = "alive" =>
              st # None /\ Accepted(ctl[k].act) /\ ctl[k].view.payload = st.payload]_vars

Monitored == sup = "loop" \/ dog = "polling"

\* A monitored payload does not outlive its lease by a tick: heartbeats that
\* stop arriving, a supervisor killed at any moment after the watchdog is up,
\* and late or duplicate controls included.
NoOverrun ==
    [][epoch' # epoch /\ leader = "alive" /\ Monitored => st # None /\ st.left > 0]_vars

\* Once the desktop has stopped, finished or died, a payload that has a
\* monitor dies, even if its stop is lost.
OrphanDies ==
    client \in {"stopped", "finished", "gone"} /\ leader = "alive" /\ Monitored
        ~> leader # "alive"

\* The supervisor never waits for its watchdog for ever: the launching ssh
\* ends after the payload does.
SupervisorEnds == leader \in {"zombie", "reaped"} ~> sup \in {"exited", "crashed"}

=============================================================================
