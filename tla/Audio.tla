------------------------------- MODULE Audio -------------------------------
(***************************************************************************)
(* The sound of a running game: blocks of samples queued by the game loop, *)
(* the task that writes them to the codec two at a time, and the handshake *)
(* that stops it.  Samples, their rate and the statistics are left out.    *)
(* The operations of the task are actions; those of the game loop are      *)
(* steps that Playback puts where its code calls them.                     *)
(*                                                                         *)
(* The task is the most urgent of the program, so the two seconds of a     *)
(* stop can only pass while the codec takes the samples of a write.        *)
(***************************************************************************)
EXTENDS Naturals

CONSTANTS
  QueueLength,  \* blocks the queue holds, 8
  Prefill       \* blocks awaited before the first is written, 4

ASSUME AudioAssumption ==
  QueueLength \in Nat /\ Prefill \in Nat /\ 2 <= Prefill /\ Prefill <= QueueLength

VARIABLES
  s_queue,      \* the queue: closed, or its blocks and the stop block behind them
  s_task,       \* where the task is
  s_failed,     \* a write failed
  s_stop_requested,
  s_stopped,    \* the semaphore that the task gives at its end
  volume        \* the codec is audible

audio_vars == <<s_queue, s_task, s_failed, s_stop_requested, s_stopped, volume>>

Closed == [open |-> FALSE]
Queue(n, stop) == [open |-> TRUE, blocks |-> n, stop |-> stop]
Waiting == s_queue.blocks + (IF s_queue.stop THEN 1 ELSE 0)

TaskPlaces == {"none", "prefill", "top", "first", "second", "write", "ended"}
AudioTypes ==
  /\ s_queue \in [open : {TRUE}, blocks : 0..QueueLength, stop : BOOLEAN] \union {Closed}
  /\ s_task \in TaskPlaces
  /\ {s_failed, s_stop_requested, s_stopped, volume} \subseteq BOOLEAN

---------------------------------------------------------------------------
\* audio_task.

TaskPrefill ==
  /\ s_task = "prefill" /\ (Waiting >= Prefill \/ s_stop_requested)
  /\ s_task' = "top"
  /\ UNCHANGED <<s_queue, s_failed, s_stop_requested, s_stopped, volume>>

Ends == s_task' = "ended" /\ volume' = FALSE /\ s_stopped' = TRUE

TaskTop ==
  /\ s_task = "top"
  /\ IF s_stop_requested THEN Ends ELSE s_task' = "first" /\ UNCHANGED <<s_stopped, volume>>
  /\ UNCHANGED <<s_queue, s_failed, s_stop_requested>>

TaskReceives ==
  /\ s_task \in {"first", "second"}
  /\ \/ /\ s_queue.blocks > 0
        /\ s_queue' = [s_queue EXCEPT !.blocks = @ - 1]
        /\ s_task' = IF s_task = "first" THEN "second" ELSE "write"
        /\ UNCHANGED <<s_stopped, volume>>
     \/ s_queue.blocks = 0 /\ s_queue.stop /\ s_queue' = Queue(0, FALSE) /\ Ends
  /\ UNCHANGED <<s_failed, s_stop_requested>>

TaskWritten ==
  /\ s_task = "write" /\ s_task' = "top"
  /\ UNCHANGED <<s_queue, s_failed, s_stop_requested, s_stopped, volume>>

TaskWriteFails ==
  /\ s_task = "write" /\ s_failed' = TRUE /\ Ends
  /\ UNCHANGED <<s_queue, s_stop_requested>>

AudioTask == TaskPrefill \/ TaskTop \/ TaskReceives \/ TaskWritten \/ TaskWriteFails

---------------------------------------------------------------------------
\* gb_audio_start, after the codec was set up. It fails while a queue is
\* left; when the task cannot be created the codec is made silent again.
CanStart == ~s_queue.open
StartSucceeds ==
  /\ CanStart
  /\ s_queue' = Queue(0, FALSE) /\ s_task' = "prefill" /\ volume' = TRUE
  /\ s_failed' = FALSE /\ s_stop_requested' = FALSE /\ s_stopped' = FALSE
StartFails ==
  \/ UNCHANGED audio_vars
  \/ /\ CanStart
     /\ s_failed' = FALSE /\ s_stop_requested' = FALSE /\ volume' = FALSE
     /\ UNCHANGED <<s_queue, s_task, s_stopped>>

\* gb_audio_submit: the block is sent, or one is taken out of the full queue
\* and the block is sent after all.
Sends(n) == s_queue' = [s_queue EXCEPT !.blocks = n]
SendOutcome(sent) ==
  /\ sent = (s_queue.blocks < QueueLength)
  /\ Sends(IF sent THEN s_queue.blocks + 1 ELSE s_queue.blocks)
  /\ UNCHANGED <<s_task, s_failed, s_stop_requested, s_stopped, volume>>
DropOldest ==
  /\ Sends(IF s_queue.blocks = 0 THEN 0 ELSE s_queue.blocks - 1)
  /\ UNCHANGED <<s_task, s_failed, s_stop_requested, s_stopped, volume>>

\* gb_audio_stop: the flag, the emptied queue with the stop block, and the
\* wait for the task.
StopRequest ==
  /\ s_queue.open /\ s_stop_requested' = TRUE
  /\ UNCHANGED <<s_queue, s_task, s_failed, s_stopped, volume>>
(* Mutant: the queue is emptied after the stop block was sent. *)
StopFlush_Last ==
  /\ s_queue' = Queue(0, FALSE)
  /\ UNCHANGED <<s_task, s_failed, s_stop_requested, s_stopped, volume>>
StopFlush ==
  /\ s_queue' = Queue(0, TRUE)
  /\ UNCHANGED <<s_task, s_failed, s_stop_requested, s_stopped, volume>>
StopTaken ==
  /\ s_stopped /\ s_stopped' = FALSE
  /\ s_queue' = Closed /\ s_task' = "none"
  /\ UNCHANGED <<s_failed, s_stop_requested, volume>>
StopTimesOut == s_task = "write" /\ UNCHANGED audio_vars

AudioInit ==
  /\ s_queue = Closed /\ s_task = "none" /\ s_failed = FALSE
  /\ s_stop_requested = FALSE /\ s_stopped = FALSE /\ volume = FALSE
=============================================================================
