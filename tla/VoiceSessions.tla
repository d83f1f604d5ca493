---------------------------- MODULE VoiceSessions ----------------------------
(***************************************************************************)
(* One voice session of crates/pickforge-core/src/voice/session.rs: the    *)
(* call of start that makes it, its runner thread, the transcription job   *)
(* the runner waits for, and the calls of stop, cancel and shutdown that   *)
(* race for it.                                                            *)
(*                                                                         *)
(* Audio is counted in pieces, short against a segment and against the     *)
(* half second below which a tail is left alone.  A job may hang for ever: *)
(* only a kill, or its own end, makes it return.  The gate's condition     *)
(* variable is the subject of StartGate; here gate.wait is a guard.        *)
(***************************************************************************)
EXTENDS Naturals, Sequences, FiniteSets

CONSTANTS Stop,      \* calls of stop
          Cancel,    \* calls of cancel
          Close,     \* calls of shutdown, the manager's Drop included
          Target,    \* pieces the segmenter waits for: SegmentConfig.target
          MinTail,   \* pieces of half a second: remaining_range's min_tail
          MaxAudio   \* pieces recorded at most

ASSUME AudioAssumption == Target \in Nat \ {0} /\ MinTail \in Nat /\ MaxAudio \in Nat

ASSUME CallAssumption ==
    /\ IsFiniteSet(Stop)
    /\ Stop \intersect Cancel = {} /\ Close \intersect (Stop \union Cancel) = {}

Caller == Stop \union Cancel \union Close

VARIABLES
    closed,      \* the start gate is closed and shutting_down is set
    start,       \* where the call of start is
    session,     \* the session is in the registry `sessions`
    provisional, \* it is in the registry `provisional`
    holds,       \* calls of shutdown that drained it
    recorder,    \* pw-record runs
    audio,       \* pieces in the capture file
    control,     \* what is in the control channel
    runner,      \* where the runner thread is
    mode,        \* what its transcription is for: "segment", "tail" or "whole";
                 \* "unread" when the capture could not be read for the tail
    snap,        \* pieces in the capture as the runner last read it
    cursor,      \* Segmenter.cursor_sample, the last segment's end
    from,        \* where the text of that segment is missing from: its
                 \* content_start_sample, and cursor once it is transcribed
    partials,    \* the pieces whose text it has
    quiet,       \* the pieces whose text was empty
    exit,        \* what ended the recording loop, then the outcome
    job,         \* "none", "running", "ended", "failed", "killed"
    slot,        \* active_transcription holds the job
    completion,  \* Completion.result: "none", "done", "cancelled", "error"
    call         \* where each stop, cancel and shutdown is

startVars  == <<closed, start>>
regVars    == <<session, provisional, holds>>
audioVars  == <<recorder, audio>>
textVars   == <<mode, snap, from, cursor, partials, quiet, exit>>
jobVars    == <<job, slot>>
vars == <<startVars, regVars, audioVars, control, runner, textVars, jobVars,
          completion, call>>

StartPC == {"idle", "permit", "spawned", "registered", "withdraw", "sent",
            "waits", "join", "done", "failed", "refused"}
RunnerPC == {"unborn", "loop", "ready", "starting", "unstored", "stored",
             "waiting", "exiting", "final", "finish", "cleanup", "gone"}
CallPC == {"idle", "waits", "late", "kill", "grace", "remove", "join", "gate",
           "closed", "drain", "send", "done", "timeout", "notFound"}

TypeOK ==
    /\ closed \in BOOLEAN /\ start \in StartPC
    /\ session \in BOOLEAN /\ provisional \in BOOLEAN /\ holds \subseteq Close
    /\ recorder \in BOOLEAN /\ audio \in 0 .. MaxAudio
    /\ control \subseteq {"stop", "cancel"}
    /\ runner \in RunnerPC /\ mode \in {"segment", "tail", "whole", "unread"}
    /\ from \in 0 .. cursor /\ cursor \in 0 .. snap /\ snap \in 0 .. audio
    /\ partials \in Seq(1 .. audio) /\ quiet \subseteq 1 .. audio
    /\ exit \in {"none", "stop", "cancel", "error"}
    /\ job \in {"none", "running", "ended", "failed", "killed"} /\ slot \in BOOLEAN
    /\ slot => runner \in {"stored", "waiting"}
    /\ completion \in {"none", "done", "cancelled", "error"}
    /\ call \in [Caller -> CallPC]

Init ==
    /\ closed = FALSE /\ start = "idle"
    /\ session = FALSE /\ provisional = FALSE /\ holds = {}
    /\ recorder = FALSE /\ audio = 0
    /\ control = {} /\ runner = "unborn"
    /\ mode = "segment" /\ snap = 0 /\ from = 0 /\ cursor = 0
    /\ partials = <<>> /\ quiet = {} /\ exit = "none"
    /\ job = "none" /\ slot = FALSE /\ completion = "none"
    /\ call = [k \in Caller |-> "idle"]

-----------------------------------------------------------------------------
(* Variants, each a definition below with a plausible bug.                   *)

\* start that publishes without looking at shutting_down under the lock.
PublishBlindly ==
    /\ start = "registered"
    /\ session' = TRUE /\ provisional' = FALSE /\ start' = "done"
    /\ UNCHANGED <<closed, holds, audioVars, control, runner, textVars, jobVars,
                   completion, call>>

\* transcribe_path that waits for the job without a second poll.
SecondPollDropped ==
    /\ runner = "stored"
    /\ runner' = "waiting"
    /\ UNCHANGED <<startVars, regVars, audioVars, control, textVars, jobVars,
                   completion, call>>

\* stop that kills the transcription when its time is over and sends no Cancel.
StopTimesOutSilently(k) ==
    /\ k \in Stop /\ call[k] = "waits" /\ completion = "none"
    /\ call' = [call EXCEPT ![k] = "kill"]
    /\ UNCHANGED <<startVars, regVars, audioVars, control, runner, textVars, jobVars, completion>>

\* Finalizing takes what the segments gave and looks no further.
TailForgotten == FALSE

-----------------------------------------------------------------------------
(* poll_control drains the channel and a Cancel wins over any Stop, so that  *)
(* neither the order nor the number of the messages in it matters.           *)

Polled == IF "cancel" \in control THEN "cancel"
          ELSE IF "stop" \in control THEN "stop" ELSE "none"

Send(message) == control' = control \union {message}

\* kill_active_transcription: the job, if the slot holds one.
KillActive == job' = IF slot THEN "killed" ELSE job

-----------------------------------------------------------------------------
(* start                                                                     *)

\* The permit.  On a closed gate: Err(ShuttingDown).
Begin ==
    /\ start = "idle"
    /\ start' = IF closed THEN "refused" ELSE "permit"
    /\ UNCHANGED <<closed, regVars, audioVars, control, runner, textVars, jobVars,
                   completion, call>>

\* prepare, the session directory, recorder.start (which gives up when it sees
\* shutting_down) or the thread fails; what was started is stopped again.
StartFails ==
    /\ start = "permit"
    /\ start' = "failed"
    /\ UNCHANGED <<closed, regVars, audioVars, control, runner, textVars, jobVars,
                   completion, call>>

\* The recorder runs and the runner thread is spawned.
Spawn ==
    /\ start = "permit"
    /\ recorder' = TRUE /\ runner' = "loop"
    /\ start' = "spawned"
    /\ UNCHANGED <<closed, regVars, audio, control, textVars, jobVars, completion, call>>

Register ==
    /\ start = "spawned"
    /\ provisional' = TRUE /\ start' = "registered"
    /\ UNCHANGED <<closed, session, holds, audioVars, control, runner, textVars, jobVars,
                   completion, call>>

\* Under the lock of sessions: look at shutting_down, then move the session
\* from the provisional registry to the other.
Publish ==
    /\ start = "registered"
    /\ IF closed
       THEN start' = "withdraw" /\ UNCHANGED regVars
       ELSE session' = TRUE /\ provisional' = FALSE /\ start' = "done" /\ UNCHANGED holds
    /\ UNCHANGED <<closed, audioVars, control, runner, textVars, jobVars, completion, call>>

\* Shutdown has begun: end the runner here, unless shutdown has taken it.
Withdraw ==
    /\ start = "withdraw"
    /\ provisional' = FALSE
    /\ IF provisional
       THEN Send("cancel") /\ start' = "sent"
       ELSE start' = "failed" /\ UNCHANGED control
    /\ UNCHANGED <<closed, session, holds, audioVars, runner, textVars, jobVars, completion, call>>

\* shutdown_handles, on the one handle: kill, wait five seconds at most, join.
StartKills ==
    /\ start = "sent"
    /\ KillActive /\ start' = "waits"
    /\ UNCHANGED <<closed, regVars, audioVars, control, runner, textVars, slot,
                   completion, call>>

StartWaited ==
    /\ start = "waits"
    /\ start' = IF completion = "none" THEN "failed" ELSE "join"
    /\ UNCHANGED <<closed, regVars, audioVars, control, runner, textVars, jobVars,
                   completion, call>>

StartJoins ==
    /\ start = "join" /\ runner = "gone"
    /\ start' = "failed"
    /\ UNCHANGED <<closed, regVars, audioVars, control, runner, textVars, jobVars,
                   completion, call>>

Permit == start \in {"permit", "spawned", "registered", "withdraw", "sent", "waits", "join"}

-----------------------------------------------------------------------------
(* The recorder, and the runner thread                                       *)

Record ==
    /\ recorder /\ audio < MaxAudio
    /\ audio' = audio + 1
    /\ UNCHANGED <<startVars, regVars, recorder, control, runner, textVars, jobVars,
                   completion, call>>

\* Where a control or an empty-handed end of a transcription takes the runner.
Leaves(purpose) == IF purpose = "segment" THEN "exiting" ELSE "finish"

\* The head of the recording loop: a control ends it, otherwise the capture
\* is read again.  A capture that gives no segment, or cannot be read, changes
\* nothing.
Loop ==
    /\ runner = "loop"
    /\ Polled # "none" \/ audio - cursor >= Target
    /\ control' = {}
    /\ IF Polled # "none"
       THEN runner' = "exiting" /\ exit' = Polled /\ UNCHANGED snap
       ELSE runner' = "ready" /\ snap' = audio /\ UNCHANGED exit
    /\ UNCHANGED <<startVars, regVars, audioVars, mode, from, cursor, partials,
                   quiet, jobVars, completion, call>>

\* The first poll of transcribe_path.
FirstPoll ==
    /\ control' = {}
    /\ IF Polled = "none"
       THEN runner' = "starting" /\ UNCHANGED exit
       ELSE runner' = Leaves(mode') /\ exit' = Polled

\* transcribe_range cannot write the wav of the range, and looks at no control.
WriteFails == runner' = "finish" /\ exit' = "error" /\ UNCHANGED control

\* process_ready_segments: the segmenter moves on, to a quiet place near the
\* target, before the segment is transcribed.
NextSegment ==
    /\ runner = "ready" /\ snap - cursor >= Target
    /\ from' = cursor /\ cursor' \in cursor + 1 .. snap /\ mode' = "segment"
    /\ FirstPoll \/ WriteFails
    /\ UNCHANGED <<startVars, regVars, audioVars, snap, partials, quiet, jobVars,
                   completion, call>>

NoSegment ==
    /\ runner = "ready" /\ snap - cursor < Target
    /\ runner' = "loop"
    /\ UNCHANGED <<startVars, regVars, audioVars, control, textVars, jobVars,
                   completion, call>>

\* start_transcription: the process exists, and nobody can find it yet.
StartJob ==
    /\ runner = "starting"
    /\ \/ job' = "running" /\ runner' = "unstored" /\ UNCHANGED exit
       \/ runner' = "finish" /\ exit' = "error" /\ UNCHANGED job
    /\ UNCHANGED <<startVars, regVars, audioVars, control, mode, snap, from, cursor, partials,
                   quiet, slot, completion, call>>

StoreJob ==
    /\ runner = "unstored"
    /\ slot' = TRUE /\ runner' = "stored"
    /\ UNCHANGED <<startVars, regVars, audioVars, control, textVars, job, completion, call>>

\* The second poll: it sees every Cancel whose sender looked into the slot
\* before the job was there.
SecondPoll ==
    /\ runner = "stored"
    /\ control' = {}
    /\ IF Polled = "none"
       THEN runner' = "waiting" /\ UNCHANGED <<exit, jobVars>>
       ELSE /\ runner' = Leaves(mode) /\ exit' = Polled
            /\ job' = "none" /\ slot' = FALSE
    /\ UNCHANGED <<startVars, regVars, audioVars, mode, snap, from, cursor, partials, quiet,
                   completion, call>>

\* whisper-cli ends by itself.
JobEnds ==
    /\ job = "running"
    /\ job' \in {"ended", "failed"}
    /\ UNCHANGED <<startVars, regVars, audioVars, control, runner, textVars, slot,
                   completion, call>>

First == CASE mode = "segment" -> from + 1 [] mode = "tail" -> cursor + 1 [] mode = "whole" -> 1
Last == IF mode = "segment" THEN cursor ELSE audio

\* push_partial: the job's text, or nothing when it is empty.
TakeText ==
    /\ from' = IF mode = "segment" THEN cursor ELSE from
    /\ \/ partials' = partials \o [i \in 1 .. Last + 1 - First |-> First + i - 1] /\ UNCHANGED quiet
       \/ quiet' = quiet \union (First .. Last) /\ UNCHANGED partials

\* job.wait has returned with text: a Cancel drops it, a Stop keeps it.
Transcribed ==
    /\ runner = "waiting" /\ job = "ended"
    /\ job' = "none" /\ slot' = FALSE /\ control' = {}
    /\ IF Polled = "cancel" THEN UNCHANGED <<from, partials, quiet>> ELSE TakeText
    /\ IF Polled = "none"
       THEN runner' = (IF mode = "segment" THEN "ready" ELSE "finish") /\ UNCHANGED exit
       ELSE runner' = Leaves(mode) /\ exit' = Polled
    /\ UNCHANGED <<startVars, regVars, audioVars, mode, snap, cursor, completion, call>>

\* It has returned Interrupted: the control that came with the kill decides.
JobKilled ==
    /\ runner = "waiting" /\ job = "killed"
    /\ job' = "none" /\ slot' = FALSE /\ control' = {}
    /\ IF Polled = "none"
       THEN runner' = "finish" /\ exit' = "error"
       ELSE runner' = Leaves(mode) /\ exit' = Polled
    /\ UNCHANGED <<startVars, regVars, audioVars, mode, snap, from, cursor, partials, quiet,
                   completion, call>>

\* Any other error ends the session without another poll.
JobFailed ==
    /\ runner = "waiting" /\ job = "failed"
    /\ job' = "none" /\ slot' = FALSE
    /\ runner' = "finish" /\ exit' = "error"
    /\ UNCHANGED <<startVars, regVars, audioVars, control, mode, snap, from, cursor, partials,
                   quiet, completion, call>>

\* The recording loop is over: the recorder is stopped before anything else.
StopRecording ==
    /\ runner = "exiting"
    /\ recorder' = FALSE
    /\ runner' = IF exit = "cancel" THEN "finish" ELSE "final"
    /\ UNCHANGED <<startVars, regVars, audio, control, textVars, jobVars, completion, call>>

\* Segmenter.remaining_range: a tail of less than half a second is left alone.
TailLeft == cursor < audio /\ audio - cursor >= MinTail

\* Finalizing: all of the capture when no segment gave any text, otherwise what
\* is left after the segments.  A capture that cannot be read ends the session
\* with the text there is, as a tail too short does.
Finalize ==
    /\ runner = "final"
    /\ \/ partials = <<>> /\ mode' = "whole" /\ FirstPoll
       \/ partials # <<>> /\ TailLeft /\ mode' = "tail" /\ (FirstPoll \/ WriteFails)
       \/ /\ partials # <<>> /\ runner' = "finish" /\ UNCHANGED <<control, exit>>
          /\ mode' = "unread" \/ (~TailLeft /\ UNCHANGED mode)
    /\ UNCHANGED <<startVars, regVars, audioVars, snap, from, cursor, partials, quiet,
                   jobVars, completion, call>>

\* run: stop the recorder whatever happened, then complete.
Finish ==
    /\ runner = "finish"
    /\ recorder' = FALSE /\ runner' = "cleanup"
    /\ completion' = CASE exit = "stop" -> "done"
                       [] exit = "cancel" -> "cancelled"
                       [] exit = "error" -> "error"
    /\ UNCHANGED <<startVars, regVars, audio, control, textVars, jobVars, call>>

\* The session directory is removed and the thread ends.
Gone ==
    /\ runner = "cleanup"
    /\ runner' = "gone"
    /\ UNCHANGED <<startVars, regVars, audioVars, control, textVars, jobVars, completion, call>>

Runner == \/ Loop \/ NextSegment \/ NoSegment \/ StartJob \/ StoreJob \/ SecondPoll
          \/ Transcribed \/ JobKilled \/ JobFailed \/ StopRecording \/ Finalize
          \/ Finish \/ Gone

-----------------------------------------------------------------------------
(* stop, cancel, shutdown.  A caller of stop or cancel has the id start gave. *)

Moves(k, pc) == call' = [call EXCEPT ![k] = pc]

NotFound(k) ==
    /\ k \in Stop \union Cancel /\ call[k] = "idle"
    /\ start = "done" /\ ~session
    /\ Moves(k, "notFound")
    /\ UNCHANGED <<startVars, regVars, audioVars, control, runner, textVars, jobVars, completion>>

BeginStop(k) ==
    /\ k \in Stop /\ call[k] = "idle" /\ session
    /\ Send("stop") /\ Moves(k, "waits")
    /\ UNCHANGED <<startVars, regVars, audioVars, runner, textVars, jobVars, completion>>

\* The caller's timeout elapses: stop turns into a cancel.
StopTimesOut(k) ==
    /\ k \in Stop /\ call[k] = "waits" /\ completion = "none"
    /\ Send("cancel") /\ Moves(k, "kill")
    /\ UNCHANGED <<startVars, regVars, audioVars, runner, textVars, jobVars, completion>>

BeginCancel(k) ==
    /\ k \in Cancel /\ call[k] = "idle" /\ session
    /\ Send("cancel") /\ Moves(k, "kill")
    /\ UNCHANGED <<startVars, regVars, audioVars, runner, textVars, jobVars, completion>>

Kills(k) ==
    /\ call[k] = "kill"
    /\ KillActive
    /\ Moves(k, IF k \in Stop THEN "grace" ELSE "waits")
    /\ UNCHANGED <<startVars, regVars, audioVars, control, runner, textVars, slot, completion>>

\* Completion::wait has the result.
Hears(k) ==
    /\ call[k] = "waits" /\ completion # "none"
    /\ Moves(k, IF k \in Close THEN "join" ELSE "remove")
    /\ UNCHANGED <<startVars, regVars, audioVars, control, runner, textVars, jobVars, completion>>

\* After two seconds more a stop goes on as if it had been heard.
Grace(k) ==
    /\ call[k] = "grace"
    /\ Moves(k, "remove")
    /\ UNCHANGED <<startVars, regVars, audioVars, control, runner, textVars, jobVars, completion>>

\* After five seconds cancel returns Err(Timeout) and leaves the session where
\* it is; shutdown counts it as incomplete and goes on.
TimesOut(k) ==
    /\ k \notin Stop /\ call[k] = "waits" /\ completion = "none"
    /\ Moves(k, IF k \in Close THEN "gate" ELSE "timeout")
    /\ UNCHANGED <<startVars, regVars, audioVars, control, runner, textVars, jobVars, completion>>

Removes(k) ==
    /\ call[k] = "remove"
    /\ session' = FALSE /\ Moves(k, "join")
    /\ UNCHANGED <<startVars, provisional, holds, audioVars, control, runner, textVars,
                   jobVars, completion>>

\* join_runner: whoever comes second waits on the mutex for the first, so all
\* wait for the thread, and nothing bounds the wait.
Joins(k) ==
    /\ call[k] = "join" /\ runner = "gone"
    /\ Moves(k, IF k \in Close THEN "gate" ELSE "done")
    /\ UNCHANGED <<startVars, regVars, audioVars, control, runner, textVars, jobVars, completion>>

CloseGate(k) ==
    /\ k \in Close /\ call[k] = "idle"
    /\ closed' = TRUE /\ Moves(k, "closed")
    /\ UNCHANGED <<start, regVars, audioVars, control, runner, textVars, jobVars, completion>>

Drained(k, registry) == IF registry THEN holds \union {k} ELSE holds

DrainSessions(k) ==
    /\ call[k] = "closed"
    /\ session' = FALSE /\ holds' = Drained(k, session) /\ Moves(k, "drain")
    /\ UNCHANGED <<startVars, provisional, audioVars, control, runner, textVars, jobVars,
                   completion>>

DrainProvisional(k) ==
    /\ call[k] = "drain"
    /\ provisional' = FALSE /\ holds' = Drained(k, provisional)
    /\ Moves(k, IF k \in holds' THEN "send" ELSE "gate")
    /\ UNCHANGED <<startVars, session, audioVars, control, runner, textVars, jobVars, completion>>

CloseSends(k) ==
    /\ call[k] = "send"
    /\ Send("cancel") /\ holds' = holds \ {k} /\ Moves(k, "kill")
    /\ UNCHANGED <<startVars, session, provisional, audioVars, runner, textVars, jobVars,
                   completion>>

\* StartGate::wait.
GateWaits(k) ==
    /\ call[k] = "gate" /\ ~Permit
    /\ Moves(k, "done")
    /\ UNCHANGED <<startVars, regVars, audioVars, control, runner, textVars, jobVars, completion>>

Begins(k) == NotFound(k) \/ BeginStop(k) \/ BeginCancel(k) \/ CloseGate(k)

Proceeds(k) == \/ StopTimesOut(k) \/ Kills(k) \/ Hears(k) \/ Grace(k) \/ TimesOut(k)
               \/ Removes(k) \/ Joins(k) \/ DrainSessions(k) \/ DrainProvisional(k)
               \/ CloseSends(k) \/ GateWaits(k)

Starts == \/ StartFails \/ Spawn \/ Register \/ Publish \/ Withdraw \/ StartKills
          \/ StartWaited \/ StartJoins

Next == \/ Begin \/ Starts \/ Record \/ JobEnds \/ Runner
        \/ \E k \in Caller : Begins(k) \/ Proceeds(k)

Spec == Init /\ [][Next]_vars

\* Threads run and timeouts elapse.  Nothing says that whisper-cli ends by
\* itself, or that anybody calls.
Fairness == /\ WF_vars(Starts) /\ WF_vars(Runner)
            /\ \A k \in Caller : WF_vars(Proceeds(k))

FairSpec == Spec /\ Fairness

-----------------------------------------------------------------------------

\* The runner has not yet completed.
Unfinished == runner \notin {"unborn", "cleanup", "gone"}

\* A Cancel is on its way to the runner or has reached it, or it ends anyway.
Told == exit \in {"cancel", "error"} \/ "cancel" \in control

\* A session moving from the provisional registry to the other, with a shutdown
\* draining the one and then the other, is never lost between them: a runner
\* that is not done is in a registry, in the hands of start or of a shutdown, or
\* told to cancel; and when a shutdown has returned no start is in flight and
\* both registries are empty for good.
ShutdownReachesAll ==
    /\ TypeOK
    /\ Unfinished => \/ session \/ provisional \/ holds # {}
                     \/ start = "spawned" \/ Told
    /\ (\E k \in Close : call[k] = "done") => ~session /\ ~provisional /\ ~Permit

\* Pieces whose transcription gave nothing because there never was one.
Missing == {n \in 1 .. audio : n \notin quiet /\ \A i \in 1 .. Len(partials) : partials[i] # n}

OneStop == Cardinality({k \in Stop : call[k] \notin {"idle", "notFound"}}) = 1

\* The pieces of the last segment, until their text is taken.
Unheard == from + 1 .. cursor

\* What a session may pass over that gets its text from segments: the segment
\* it was about to transcribe when it saw the stop, and in finalizing a tail of
\* less than half a second, or any tail of a capture that cannot be read then.
PassedOver ==
    IF mode = "whole" THEN {}
    ELSE Unheard \union
         (IF mode = "unread" \/ audio - cursor < MinTail THEN cursor + 1 .. audio ELSE {})

\* The transcript follows the recording: no piece twice, none out of order; and
\* when a single stop has ended the session nothing is missing that it may not
\* pass over.
TranscriptFollowsAudio ==
    /\ \A i, j \in 1 .. Len(partials) : i < j => partials[i] < partials[j]
    /\ completion = "done" /\ OneStop => Missing \subseteq PassedOver

\* What the runner was asked to drop it drops: a session told to cancel ends,
\* even if its transcription would hang for ever and the Cancel came between
\* the start of the job and its way into the slot.
CancelEnds == Told ~> runner = "gone"

\* start, stop, cancel and shutdown all return, although stop joins the runner
\* without a bound.  Each is called once at most, so that from some time on none
\* of them is under way.
CallsReturn == <>[](/\ start \in {"idle", "done", "failed", "refused"}
                    /\ \A k \in Caller : call[k] \in {"idle", "done", "timeout", "notFound"})

=============================================================================
