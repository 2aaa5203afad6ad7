------------------------------- MODULE JobStream -------------------------------
(***************************************************************************)
(* One job as those see it who watch it: the lines of its buffer           *)
(* (log/log.go), the fan-out to its subscribers and its end (jobs.go), the *)
(* event streams (api/sse.go) and whoever asks to cancel it.               *)
(*                                                                         *)
(* A line is its number, 0 is the `__end__` frame. A line enters the       *)
(* buffer under the buffer's lock and is fanned out after it: subscribers  *)
(* are read under the registry's and called under none. What dispatches    *)
(* and evicts the job (Jobs) is free here; what it says is not.            *)
(***************************************************************************)
EXTENDS Integers, Sequences

CONSTANTS
    Viewers,    \* requests for the job's stream
    Cancellers, \* requests that cancel it
    MaxWork     \* how many lines its work writes

ASSUME StreamAssumption == MaxWork \in Nat

VARIABLES
    log,        \* how many lines the buffer has
    jobState,   \* State
    ctxDone,    \* the job's context is cancelled
    phase,      \* where its goroutine is, or whoever ends it instead
    owedLines,  \* the lines phase 2 has still to write
    frame,      \* <<>>, or the frame that is fanned out
    hearers,    \* <<>> before the subscribers are read, then <<those yet to be called>>
    inRegistry, \* not evicted
    busEvent,   \* the event that ended it on the bus, "none" before
    subs,       \* subscribers by stream
    view,       \* stream -> what it is doing, has and has sent
    asked       \* canceller -> what it saw and answered

streamVars == <<log, jobState, ctxDone, phase, owedLines, frame, hearers, inRegistry, busEvent, subs, view, asked>>

Finish == 0
IsOver(s) == s \notin {"queued", "running"}
Silent == frame = <<>>
jobVars == <<jobState, ctxDone, phase, owedLines, inRegistry, busEvent>>
fanVars == <<log, frame, hearers>>
--------------------------------------------------------------------------------
(* Buffer.Emit and fanout: append, read the subscribers, call each of them.    *)

AppendLine ==
    /\ Silent
    /\ log' = log + 1
    /\ frame' = <<log + 1>> /\ hearers' = <<>>

ReadHearers ==
    /\ ~Silent /\ hearers = <<>>
    /\ hearers' = <<subs>>
    /\ UNCHANGED <<log, frame, jobVars, subs, view, asked>>

(* The callback of a stream: queue the event, wake its writer. Calling the last of them ends the frame. *)
Enqueue(v) == [view EXCEPT ![v].queue = @ \o frame]

Deliver(v) ==
    /\ hearers # <<>> /\ v \in hearers[1]
    /\ view' = Enqueue(v)
    /\ hearers' = <<hearers[1] \ {v}>>
    /\ UNCHANGED <<log, frame, jobVars, subs, asked>>

FanOutOver ==
    /\ hearers = <<{}>>
    /\ frame' = <<>> /\ hearers' = <<>>
    /\ UNCHANGED <<log, jobVars, subs, view, asked>>

FanOut == ReadHearers \/ FanOutOver \/ \E v \in Viewers : Deliver(v)
--------------------------------------------------------------------------------
(* Registry.run and announce.                                                  *)

BeginRun ==
    /\ phase = "queued"
    /\ phase' = "work" /\ jobState' = "running"
    /\ UNCHANGED <<ctxDone, owedLines, inRegistry, busEvent, fanVars, subs, view, asked>>

WriteLine ==
    /\ phase = "work" /\ log < MaxWork
    /\ AppendLine
    /\ UNCHANGED <<jobVars, subs, view, asked>>

(* Phase 1: the outcome, or a crash, under the lock; a cancel that came by now wins. *)
RecordOutcome(outcome) ==
    /\ phase = "work" /\ Silent
    /\ jobState' = IF ctxDone THEN "cancelled" ELSE IF outcome = "crash" THEN "failed" ELSE outcome
    /\ owedLines' = (IF outcome = "crash" THEN 1 ELSE 0) + (IF ctxDone THEN 1 ELSE 0)
    /\ phase' = "sink"
    /\ UNCHANGED <<ctxDone, inRegistry, busEvent, fanVars, subs, view, asked>>

(* A queued job ends where it is superseded or cancelled; announce then has one line to write. *)
EndQueued(state) ==
    /\ phase = "queued"
    /\ jobState' = state
    /\ owedLines' = 1 /\ phase' = "sink"

Supersede ==
    /\ EndQueued("superseded")
    /\ UNCHANGED <<ctxDone, inRegistry, busEvent, fanVars, subs, view, asked>>

(* Phase 2: the lines that say why. *)
SinkLine ==
    /\ phase = "sink" /\ owedLines > 0
    /\ AppendLine
    /\ owedLines' = owedLines - 1
    /\ UNCHANGED <<jobState, ctxDone, phase, inRegistry, busEvent, subs, view, asked>>

(* Phase 4: wake every stream; only then the bus hears of it. *)
EndFrame == phase = "sink" /\ owedLines = 0 /\ Silent

WakeStreams ==
    /\ EndFrame
    /\ frame' = <<Finish>> /\ hearers' = <<>> /\ phase' = "announce"
    /\ UNCHANGED <<log, jobState, ctxDone, owedLines, inRegistry, busEvent, subs, view, asked>>

EventOf(state) ==
    CASE state = "leaked" -> "job.leaked"
      [] state = "ok" -> "job.succeeded"
      [] state = "cancelled" -> "job.cancelled"
      [] state = "superseded" -> "job.superseded"
      [] OTHER -> "job.failed"

EmitTerminal ==
    /\ phase = "announce" /\ Silent
    /\ busEvent' = EventOf(jobState)
    /\ phase' = "over"
    /\ UNCHANGED <<jobState, ctxDone, owedLines, inRegistry, fanVars, subs, view, asked>>

JobStep ==
    \/ BeginRun \/ WriteLine \/ SinkLine \/ WakeStreams \/ EmitTerminal
    \/ \E outcome \in {"ok", "failed", "leaked", "crash"} : RecordOutcome(outcome)

(* Newer jobs push the record of a finished one out; its subscribers stay. *)
EvictJob ==
    /\ IsOver(jobState) /\ inRegistry
    /\ inRegistry' = FALSE
    /\ UNCHANGED <<jobState, ctxDone, phase, owedLines, busEvent, fanVars, subs, view, asked>>
--------------------------------------------------------------------------------
(* jobStream: subscribe, replay, then live until the end.                      *)

Gone == [at |-> "gone", known |-> "none", state |-> "none", replay |-> 0, queue |-> <<>>, sent |-> <<>>, done |-> "none"]
SetView(v, r) == view' = [view EXCEPT ![v] = r]

(* The route reads the job first, and answers 404 where there is none. *)
OpenStream(v) ==
    /\ view[v] = [Gone EXCEPT !.at = "new"]
    /\ SetView(v, IF inRegistry THEN [view[v] EXCEPT !.at = "open", !.known = jobState] ELSE Gone)
    /\ UNCHANGED <<jobVars, fanVars, subs, asked>>

Say(r, state) == [r EXCEPT !.at = "over", !.done = state, !.queue = <<>>]

(* Replay and state come from one critical section; an evicted job has neither. *)
Subscribe(v) ==
    /\ view[v].at = "open"
    /\ IF inRegistry
       THEN /\ subs' = subs \cup {v}
            /\ SetView(v, [view[v] EXCEPT !.at = "replay", !.replay = log, !.state = jobState])
       ELSE SetView(v, Say(view[v], view[v].known)) /\ UNCHANGED subs
    /\ UNCHANGED <<jobVars, fanVars, asked>>

(* The replay is written before anything live, and a state that is over ends the stream. *)
StaysOpen_Running(state) == state = "running"
StaysOpen(state) == ~IsOver(state)

Replay(v) ==
    LET r == [view[v] EXCEPT !.sent = [i \in 1 .. view[v].replay |-> i], !.at = "live"] IN
    /\ view[v].at = "replay"
    /\ IF StaysOpen(r.state)
       THEN SetView(v, r) /\ UNCHANGED subs
       ELSE SetView(v, Say(r, r.state)) /\ subs' = subs \ {v}
    /\ UNCHANGED <<jobVars, fanVars, asked>>

(* drain: the queue is taken as one batch and written up to the first `__end__`, which is answered *)
(* with the state the record has now, or with the one the route read when the record is gone.      *)
Final(v) == IF inRegistry THEN jobState ELSE view[v].known

DrainBuffer(v) ==
    LET q == view[v].queue
        Sends(n) == [view[v] EXCEPT !.sent = @ \o SubSeq(q, 1, n), !.queue = <<>>] IN
    /\ view[v].at = "live" /\ q # <<>>
    /\ \/ /\ \A k \in DOMAIN q : q[k] # Finish
          /\ SetView(v, Sends(Len(q))) /\ UNCHANGED subs
       \/ \E k \in DOMAIN q :
            /\ q[k] = Finish /\ \A j \in 1 .. k - 1 : q[j] # Finish
            /\ SetView(v, Say(Sends(k - 1), Final(v))) /\ subs' = subs \ {v}
    /\ UNCHANGED <<jobVars, fanVars, asked>>

(* The client goes, a keepalive does not reach it, or the server stops: the subscription goes now. *)
Leave(v) ==
    /\ view[v].at = "live"
    /\ SetView(v, Gone)
    /\ subs' = subs \ {v}
    /\ UNCHANGED <<jobVars, fanVars, asked>>

StreamStep(v) == Subscribe(v) \/ Replay(v) \/ DrainBuffer(v)
--------------------------------------------------------------------------------
(* POST /api/jobs/:id/cancel: look, then cancel; the answer is worded by the look. *)

LookToCancel(c) ==
    /\ asked[c] = "new"
    /\ asked' = [asked EXCEPT ![c] = IF ~inRegistry THEN "404" ELSE IF IsOver(jobState) THEN "409" ELSE jobState]
    /\ UNCHANGED <<jobVars, fanVars, subs, view>>

(* Registry.Cancel: a queued job ends here, a running one through its context, a finished one not at all. *)
CancelJob(c) ==
    /\ asked[c] \in {"queued", "running"}
    /\ asked' = [asked EXCEPT ![c] = IF @ = "queued" THEN "had not started" ELSE "was not undone"]
    /\ \/ EndQueued("cancelled") /\ UNCHANGED ctxDone
       \/ jobState = "running" /\ ctxDone' = TRUE /\ UNCHANGED <<jobState, owedLines, phase>>
       \/ IsOver(jobState) /\ UNCHANGED <<jobState, owedLines, phase, ctxDone>>
    /\ UNCHANGED <<inRegistry, busEvent, fanVars, subs, view>>
--------------------------------------------------------------------------------
StreamInit ==
    /\ log = 0 /\ jobState = "queued" /\ ctxDone = FALSE /\ phase = "queued" /\ owedLines = 0
    /\ frame = <<>> /\ hearers = <<>> /\ inRegistry = TRUE /\ busEvent = "none"
    /\ subs = {} /\ view = [v \in Viewers |-> [Gone EXCEPT !.at = "new"]]
    /\ asked = [c \in Cancellers |-> "new"]

StreamNext ==
    \/ JobStep \/ Supersede \/ FanOut \/ EvictJob
    \/ \E v \in Viewers : OpenStream(v) \/ StreamStep(v) \/ Leave(v)
    \/ \E c \in Cancellers : LookToCancel(c) \/ CancelJob(c)

StreamFairness ==
    /\ WF_streamVars(JobStep \/ FanOut)
    /\ \A v \in Viewers : WF_streamVars(StreamStep(v))
StreamSpec == StreamInit /\ [][StreamNext]_streamVars /\ StreamFairness
--------------------------------------------------------------------------------
(* What the stream of a job promises (JobStream). *)

Last(q) == q[Len(q)]
States == {"queued", "running", "ok", "failed", "leaked", "cancelled", "superseded"}

(* Every variable keeps its type. *)
StreamTypeOK ==
    /\ log \in 0 .. MaxWork + 2 /\ jobState \in States /\ owedLines \in 0 .. 2
    /\ phase \in {"queued", "work", "sink", "announce", "over"}
    /\ subs \subseteq Viewers
    /\ \A v \in Viewers :
         /\ view[v].at \in {"new", "gone", "open", "replay", "live", "over"}
         /\ view[v].done \in States \cup {"none"}
    /\ \A c \in Cancellers : asked[c] \in {"new", "404", "409", "queued", "running", "had not started", "was not undone"}

(* The lines come in their order and none is left out; the one that enters the buffer as the       *)
(* stream is opened may come twice, at the seam of replay and live (sse.go:79-81, jobs.go:503-508). *)
LinesInOrder ==
    \A v \in Viewers : LET s == view[v].sent IN
        /\ s # <<>> => s[1] = 1
        /\ \A i \in 1 .. Len(s) - 1 : s[i + 1] = s[i] + 1 \/ (s[i + 1] = s[i] /\ i = view[v].replay)

(* A stream that is told the end had every line of the job, and those that say why it ended; one    *)
(* that was opened between the outcome and those lines has what there was (sse.go:70-72).           *)
DoneIsWhole ==
    [][ \A v \in Viewers :
          (view[v].at = "live" /\ view'[v].at = "over" /\ log > 0)
            => Len(view'[v].sent) > 0 /\ Last(view'[v].sent) = log ]_streamVars

(* And the state it is told is how the job ended, unless its record was evicted before the stream  *)
(* got to say it.                                                                                  *)
DoneIsTheEnd ==
    \A v \in Viewers : view[v].at = "over" =>
        IF inRegistry THEN view[v].done = jobState /\ IsOver(jobState) ELSE view[v].done \in {jobState, view[v].known}

(* No subscription outlives its stream, and nobody who waits for the end has missed it             *)
(* (jobs.go:503-507): the frame is yet to come, is on its way, or waits in the queue.              *)
EndIsNotMissed ==
    /\ \A v \in subs : view[v].at \in {"replay", "live"}
    /\ \A v \in Viewers :
         (view[v].at \in {"replay", "live"} /\ ~IsOver(view[v].state) /\ phase \in {"announce", "over"}) =>
            \/ \E i \in DOMAIN view[v].queue : view[v].queue[i] = Finish
            \/ frame = <<Finish>> /\ (hearers = <<>> \/ v \in hearers[1])

(* Stated of a job that is over (sse.go:128): no stream tells an end it did not have. *)
DoneIsNeverRunning == \A v \in Viewers : view[v].done \notin {"queued", "running"}

(* Stated of a cancel (routes.go:645-647): who is told that nothing had started, nothing had. *)
CancelTellsTheTruth == \A c \in Cancellers : asked[c] = "had not started" => phase # "work"

(* What a stream says of a job, and when (sse.go, jobs.go). *)
StreamSafety == [](LinesInOrder /\ DoneIsTheEnd /\ EndIsNotMissed) /\ DoneIsWhole

(* Every stream comes to its end, if only because its job does. *)
StreamsEnd == \A v \in Viewers : []<>(view[v].at \in {"new", "gone", "over"})
================================================================================
