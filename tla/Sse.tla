--------------------------------- MODULE Sse --------------------------------
(***************************************************************************)
(* streamToSSE (session/sse.ts): one response that replays the event log   *)
(* of one job and then follows it, fed by three sources: reads of the      *)
(* store, events emitted by the JobRunner of this process, and a poll that *)
(* covers events other processes append.                                   *)
(*                                                                         *)
(* The job is executed by one process and may be abandoned by a            *)
(* reconciler; each of the two is in the streaming process or not.  Only   *)
(* events appended in this process are emitted live, after the append      *)
(* returned; SqliteJobStore answers in order, so they are emitted in id    *)
(* order.  A run that was abandoned keeps appending (JobRunner).           *)
(*                                                                         *)
(* Frames are written by the main sequence and by drainLive(), of which    *)
(* one activation runs at a time.  Each write is two steps, since lastId   *)
(* is set after the await of backpressure.                                 *)
(***************************************************************************)
EXTENDS Integers, Sequences, SequencesExt, FiniteSets

CONSTANTS
  Placements,  \* who may share the process of the stream
  MaxRows,     \* bound: length of the log
  MaxBuffer    \* bound: buffered frames at which the poll pauses

ASSUME PlacementAssumption == Placements \subseteq SUBSET {"runner", "reconciler"}
ASSUME BoundsAssumption == MaxRows \in Nat /\ MaxBuffer \in Nat \ {0}

VARIABLES
  here,         \* who of runner and reconciler is in this process
  log,          \* the event rows: the type of each, in id order
  ended,        \* the run has written its own terminal event
  unemitted,    \* ids appended in this process and not emitted yet
  pc,           \* where the main sequence of streamToSSE is
  afterId,      \* the resume cursor of the client
  lastId,
  jobTerminal,  \* the status read said the job is terminal
  batch,        \* rows the main sequence still has to write
  mainFrame,    \* the frame it awaits the write of, or 0
  liveBuffer,
  drainer,      \* who runs drainLive(): "none", "main", "live" or "poll"
  drainFrame,   \* the frame drainLive() awaits the write of, or 0
  polling,      \* "no", "reading" or "draining"
  polled,       \* rows the poll has read and not delivered
  closed,
  sent          \* ids of the frames written, in order

logVars == <<here, log, ended, unemitted>>
mainVars == <<pc, afterId, jobTerminal, batch, mainFrame>>
drainVars == <<liveBuffer, drainer, drainFrame>>
pollVars == <<polling, polled>>
sseVars == <<logVars, mainVars, lastId, drainVars, pollVars, closed, sent>>

Ids == 1..MaxRows
TerminalEvents == {"abandoned", "end"}
JobEnded == \E i \in DOMAIN log : log[i] \in TerminalEvents

\* Mutant: the cursor skips a row.
RowsBeyondNext(id) == [k \in 1..(Len(log) - id - 1) |-> id + k + 1]

\* getEvents(jobId, id)
RowsAfter(id) == [k \in 1..(Len(log) - id) |-> id + k]

\* The listener is attached, and frames of the replay come first.
Subscribed == pc \notin {"idle", "returned"}
Replaying == pc \in {"replay", "replaying", "status", "catchup", "catching"}

\* Mutant: a type of event is forgotten.
ClosingOnEndOnly(type) == type = "end"

\* TERMINAL_EVENTS.has(type)
Closing(type) == type \in TerminalEvents

-----------------------------------------------------------------------------
(* The job.                                                                *)

Append1(type, local) ==
  /\ Len(log) < MaxRows
  /\ log' = Append(log, type)
  /\ unemitted' = IF local THEN Append(unemitted, Len(log) + 1) ELSE unemitted
  /\ UNCHANGED <<here, mainVars, lastId, drainVars, pollVars, closed, sent>>

RunAppends == ~ended /\ Append1("progress", "runner" \in here) /\ UNCHANGED ended
RunEnds == ~ended /\ ~JobEnded /\ Append1("end", "runner" \in here) /\ ended' = TRUE
Abandon == ~JobEnded /\ Append1("abandoned", "reconciler" \in here) /\ UNCHANGED ended

-----------------------------------------------------------------------------
(* drainLive() and its callers.                                            *)

\* Frame j comes before frame k in the sort by id, which is stable.
Before(buffer, j, k) == buffer[j] < buffer[k] \/ (buffer[j] = buffer[k] /\ j < k)

Rank(buffer, k) == 1 + Cardinality({j \in DOMAIN buffer : Before(buffer, j, k)})

Sorted(buffer) ==
  [n \in DOMAIN buffer |-> buffer[CHOOSE k \in DOMAIN buffer : Rank(buffer, k) = n]]

\* A call of drainLive() on a buffer: returns at once if one is active.
StartDrain(who, buffer) ==
  /\ drainer' = who
  /\ liveBuffer' = Sorted(buffer)
  /\ UNCHANGED drainFrame

\* Mutant: frames already written are written again.
NotYetSent(id) == TRUE

Fresh(id) == id > lastId

\* The loop of drainLive(): write the next frame, or skip it.
DrainNext ==
  /\ drainer # "none" /\ drainFrame = 0
  /\ ~closed /\ liveBuffer # <<>>
  /\ liveBuffer' = Tail(liveBuffer)
  /\ IF Fresh(Head(liveBuffer))
     THEN /\ drainFrame' = Head(liveBuffer)
          /\ sent' = Append(sent, Head(liveBuffer))
     ELSE UNCHANGED <<drainFrame, sent>>
  /\ UNCHANGED <<logVars, mainVars, lastId, drainer, pollVars, closed>>

DrainWritten ==
  /\ drainFrame # 0
  /\ lastId' = drainFrame
  /\ closed' = (closed \/ Closing(log[drainFrame]))
  /\ drainFrame' = 0
  /\ UNCHANGED <<logVars, mainVars, liveBuffer, drainer, pollVars, sent>>

\* The loop ends; the poll, if it was the caller, is over.
DrainEnds ==
  /\ drainer # "none" /\ drainFrame = 0
  /\ closed \/ liveBuffer = <<>>
  /\ polling' = IF drainer = "poll" THEN "no" ELSE polling
  /\ drainer' = "none"
  /\ UNCHANGED <<logVars, mainVars, lastId, liveBuffer, drainFrame, polled, closed, sent>>

\* emitRecord() calls onLive().
Emit ==
  /\ unemitted # <<>>
  /\ unemitted' = Tail(unemitted)
  /\ IF ~Subscribed \/ closed THEN UNCHANGED drainVars
     ELSE IF Replaying \/ drainer # "none"
     THEN /\ liveBuffer' = Append(liveBuffer, Head(unemitted))
          /\ UNCHANGED <<drainer, drainFrame>>
     ELSE StartDrain("live", Append(liveBuffer, Head(unemitted)))
  /\ UNCHANGED <<here, log, ended, mainVars, lastId, pollVars, closed, sent>>

\* The interval fires and the store is read, then the rows are delivered.  The
\* code has no MaxBuffer: while a drain started by a live event awaits the
\* socket, each poll buffers the unwritten rows once more.
PollReads ==
  /\ pc = "waiting" /\ ~closed /\ polling = "no"
  /\ Len(liveBuffer) < MaxBuffer
  /\ polled' = RowsAfter(lastId)
  /\ polling' = "reading"
  /\ UNCHANGED <<logVars, mainVars, lastId, drainVars, closed, sent>>

PollDelivers ==
  /\ polling = "reading"
  /\ polled' = <<>>
  /\ IF drainer = "none"
     THEN StartDrain("poll", liveBuffer \o polled) /\ polling' = "draining"
     ELSE /\ liveBuffer' = liveBuffer \o polled
          /\ polling' = "no"
          /\ UNCHANGED <<drainer, drainFrame>>
  /\ UNCHANGED <<logVars, mainVars, lastId, closed, sent>>

-----------------------------------------------------------------------------
(* The main sequence.                                                      *)

\* streamToSSE() is called: the listener is attached before the first read.
Attach ==
  /\ pc = "idle"
  /\ \E id \in 0..Len(log) : afterId' = id /\ lastId' = id
  /\ pc' = "replay"
  /\ UNCHANGED <<logVars, jobTerminal, batch, mainFrame, drainVars, pollVars, closed, sent>>

\* getEvents(): of the replay, the catch-up and the terminal catch-up.
Read ==
  /\ \/ pc = "replay" /\ pc' = "replaying"
     \/ pc = "catchup" /\ pc' = "catching"
     \/ pc = "terminalRead" /\ pc' = "finishing"
  /\ batch' = RowsAfter(lastId)
  /\ UNCHANGED <<logVars, lastId, afterId, jobTerminal, mainFrame, drainVars, pollVars, closed, sent>>

MainNext ==
  /\ batch # <<>> /\ mainFrame = 0
  /\ IF closed
     THEN pc' = "returned" /\ batch' = <<>> /\ UNCHANGED <<mainFrame, sent>>
     ELSE /\ batch' = Tail(batch)
          /\ UNCHANGED pc
          /\ IF Fresh(Head(batch))
             THEN mainFrame' = Head(batch) /\ sent' = Append(sent, Head(batch))
             ELSE UNCHANGED <<mainFrame, sent>>
  /\ UNCHANGED <<logVars, lastId, afterId, jobTerminal, drainVars, pollVars, closed>>

MainWritten ==
  /\ mainFrame # 0
  /\ lastId' = mainFrame
  /\ closed' = (closed \/ Closing(log[mainFrame]))
  /\ mainFrame' = 0
  /\ UNCHANGED <<logVars, pc, afterId, jobTerminal, batch, drainVars, pollVars, sent>>

BatchDone == batch = <<>> /\ mainFrame = 0

ReplayDone ==
  /\ pc = "replaying" /\ BatchDone
  /\ pc' = "status"
  /\ UNCHANGED <<logVars, lastId, afterId, jobTerminal, batch, mainFrame, drainVars, pollVars, closed, sent>>

ReadStatus ==
  /\ pc = "status"
  /\ jobTerminal' = JobEnded
  /\ pc' = "catchup"
  /\ UNCHANGED <<logVars, lastId, afterId, batch, mainFrame, drainVars, pollVars, closed, sent>>

\* replaying = false, then drainLive().
CatchUpDone ==
  /\ pc = "catching" /\ BatchDone
  /\ pc' = "firstDrain"
  /\ StartDrain("main", liveBuffer)
  /\ UNCHANGED <<logVars, lastId, afterId, jobTerminal, batch, mainFrame, pollVars, closed, sent>>

FirstDrainDone ==
  /\ pc = "firstDrain" /\ drainer # "main"
  /\ pc' = IF closed THEN "returned" ELSE IF jobTerminal THEN "terminalRead" ELSE "waiting"
  /\ UNCHANGED <<logVars, lastId, afterId, jobTerminal, batch, mainFrame, drainVars, pollVars, closed, sent>>

FinishDone ==
  /\ pc = "finishing" /\ BatchDone
  /\ pc' = "lastDrain"
  /\ IF drainer = "none" THEN StartDrain("main", liveBuffer) ELSE UNCHANGED drainVars
  /\ UNCHANGED <<logVars, lastId, afterId, jobTerminal, batch, mainFrame, pollVars, closed, sent>>

LastDrainDone ==
  /\ pc = "lastDrain" /\ drainer # "main"
  /\ pc' = "returned"
  /\ closed' = TRUE
  /\ UNCHANGED <<logVars, lastId, afterId, jobTerminal, batch, mainFrame, drainVars, pollVars, sent>>

\* The response emits close, because it was ended or the client went away.
ResponseClosed ==
  /\ pc = "waiting" /\ closed
  /\ pc' = "returned"
  /\ UNCHANGED <<logVars, lastId, afterId, jobTerminal, batch, mainFrame, drainVars, pollVars, closed, sent>>

ClientLeaves ==
  /\ Subscribed /\ ~closed
  /\ closed' = TRUE
  /\ UNCHANGED <<logVars, mainVars, lastId, drainVars, pollVars, sent>>

SseInit ==
  /\ here \in Placements
  /\ log = <<>> /\ ended = FALSE /\ unemitted = <<>>
  /\ pc = "idle" /\ afterId = 0 /\ lastId = 0 /\ jobTerminal = FALSE
  /\ batch = <<>> /\ mainFrame = 0
  /\ liveBuffer = <<>> /\ drainer = "none" /\ drainFrame = 0
  /\ polling = "no" /\ polled = <<>>
  /\ closed = FALSE /\ sent = <<>>

Job == RunAppends \/ RunEnds \/ Abandon
DrainLive == DrainNext \/ DrainWritten \/ DrainEnds
Main == \/ Read \/ MainNext \/ MainWritten \/ ReplayDone \/ ReadStatus \/ CatchUpDone
        \/ FirstDrainDone \/ FinishDone \/ LastDrainDone \/ ResponseClosed
Poll == PollReads \/ PollDelivers

SseNext == Job \/ Attach \/ Emit \/ DrainLive \/ Main \/ Poll \/ ClientLeaves

SseSpec == SseInit /\ [][SseNext]_sseVars

\* Promises settle, the poll interval keeps firing, and a client that stays
\* drains its socket.
SseFairness ==
  WF_sseVars(Emit) /\ WF_sseVars(DrainLive) /\ WF_sseVars(Main) /\ WF_sseVars(Poll)

SseFairSpec == SseSpec /\ SseFairness

-----------------------------------------------------------------------------
(* Properties.                                                             *)

\* A client that resumes behind a terminal event of a job that still appends:
\* the terminal catch-up and drainLive() may both be writing, each past a
\* cursor the other has not advanced yet.
ResumedBehindEnd == \E i \in 1..afterId : log[i] \in TerminalEvents

\* No frame is written twice and frames are in id order, so Last-Event-ID
\* never goes back, although replay, live events and poll deliver the same
\* rows; for every stream that is attached before the client saw the end.
\* For every other one too, no frame follows a terminal frame.
FramesAscend ==
  \A i, k \in DOMAIN sent : i < k =>
    /\ ResumedBehindEnd \/ sent[i] < sent[k]
    /\ log[sent[i]] \notin TerminalEvents

\* No event is lost on the way: a frame is written after all the rows before
\* it that the client does not have, so resuming from any frame id is safe.
\* Not so if only one of the two who append is in this process: its live event
\* overtakes rows of the other that the poll has not read.
NoGap == \A i \in DOMAIN sent : (afterId + 1)..(sent[i] - 1) \subseteq ToSet(sent)

\* A stream attached to a job that ends is closed: "Store polling interval
\* for terminal events emitted by other processes" (sse.ts:28).  Not so if
\* only the runner is in this process: a live event behind the abandoned row
\* moves the cursor of the poll past it.
StreamEnds == (Subscribed /\ JobEnded) ~> closed
=============================================================================
