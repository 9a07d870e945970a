--------------------------- MODULE CapturePipeline ---------------------------
(* The microphone side of the media engine: the device callback that hands *)
(* chunks of samples to the engine through a bounded channel, the pipeline *)
(* that resamples them to 48 kHz, cuts them into frames and queues these,  *)
(* and the frames every outgoing flow takes from the one queue.            *)
(*                                                                         *)
(* A sample is represented by the number of the callback that delivered it *)
(* (its stamp), and the interpolation between two samples by the left one. *)
(* The filters and the input gain change values only and are left out.     *)
(* Positions between samples are exact fractions of SAMPLE_RATE; the code  *)
(* keeps them in an f32.                                                   *)
EXTENDS Naturals, Sequences

CONSTANTS
    Flows,                    \* peers that are sent audio
    SAMPLE_RATE,              \* of the frames (SAMPLE_RATE_HZ)
    Rates,                    \* the rates of the capture devices
    FRAME_SAMPLES,
    MAX_CAPTURE_QUEUE_DEPTH,  \* bounds the channel and the ready frames
    MaxChunk,                 \* the longest chunk of one callback
    MaxStamp                  \* bound on the callbacks of a behaviour

\* preferred_input_config asks for SAMPLE_RATE and falls back to whatever rate is the
\* device's own, so the rates have no upper bound.
ASSUME CaptureAssumption ==
    /\ SAMPLE_RATE \in Nat \ {0}
    /\ Rates \subseteq Nat \ {0}
    /\ FRAME_SAMPLES \in Nat \ {0}
    /\ MAX_CAPTURE_QUEUE_DEPTH \in Nat \ {0}
    /\ MaxChunk \in Nat
    /\ MaxStamp \in Nat

VARIABLES
    mic,        \* rate of the running stream (capture_runtime); 0 without one
    stamp,      \* callbacks so far
    opened,     \* value of stamp when the running stream was opened
    chunk_rx,   \* the channel from the callback to the engine
    capture,    \* the CapturePipeline
    heard,      \* heard[p]: the last frame sent to p that was not silent
    running     \* the engine's task has not panicked

captureVars == <<mic, stamp, opened, chunk_rx, capture, heard, running>>

Silence == [i \in 1..FRAME_SAMPLES |-> 0]

\* CapturePipeline::new and reset, and what ingest does when the rate changes.
EmptyPipeline(rate) ==
    [sample_rate_hz |-> rate, input_samples |-> <<>>, output_cursor |-> 0,
     frame_assembly |-> <<>>, ready_frames |-> <<>>, last_frame |-> Silence]

\* The engine starts with the default microphone or, if that fails, with none.
CaptureInit ==
    /\ mic \in Rates \union {0}
    /\ stamp = 0 /\ opened = 0
    /\ chunk_rx = <<>>
    /\ capture = EmptyPipeline(SAMPLE_RATE)
    /\ heard = [p \in Flows |-> Silence]
    /\ running = TRUE

-----------------------------------------------------------------------------
(* The device callback runs on its own thread and never waits: a chunk     *)
(* that finds the channel full is dropped.  The engine's task owns the     *)
(* stream, which goes with it.                                             *)

InputCallback(n) ==
    /\ running /\ mic # 0 /\ stamp < MaxStamp
    /\ stamp' = stamp + 1
    /\ chunk_rx' = IF Len(chunk_rx) < MAX_CAPTURE_QUEUE_DEPTH
                     THEN Append(chunk_rx, [sample_rate_hz |-> mic,
                                            samples |-> [i \in 1..n |-> stamp']])
                     ELSE chunk_rx
    /\ UNCHANGED <<mic, opened, capture, heard, running>>

-----------------------------------------------------------------------------
(* ingest and rebuild_ready_frames                                         *)

PushedToTheEnd(len, cursor, rate) ==
    IF len < 1 THEN 0
    ELSE (len * SAMPLE_RATE - cursor + rate - 1) \div rate

\* How many output samples the loop makes of len samples: it goes on while the position
\* has a right neighbour.
Pushed(len, cursor, rate) ==
    IF len < 2 THEN 0
    ELSE ((len - 1) * SAMPLE_RATE - cursor + rate - 1) \div rate

\* The position after the loop, and the samples it has drained.
Position(c, len) ==
    c.output_cursor + Pushed(len, c.output_cursor, c.sample_rate_hz) * c.sample_rate_hz

Drained(c) == Position(c, Len(c.input_samples)) \div SAMPLE_RATE

rebuild_ready_frames(c) ==
    LET len       == Len(c.input_samples)
        made      == [j \in 1..Pushed(len, c.output_cursor, c.sample_rate_hz) |->
                        c.input_samples[(c.output_cursor + (j - 1) * c.sample_rate_hz)
                                           \div SAMPLE_RATE + 1]]
        assembled == c.frame_assembly \o made
        full      == Len(assembled) \div FRAME_SAMPLES
        frames    == [k \in 1..full |->
                        SubSeq(assembled, (k - 1) * FRAME_SAMPLES + 1, k * FRAME_SAMPLES)]
    IN  [c EXCEPT !.input_samples = SubSeq(@, Drained(c) + 1, len),
                  !.output_cursor = Position(c, len) % SAMPLE_RATE,
                  !.frame_assembly = SubSeq(assembled, full * FRAME_SAMPLES + 1,
                                            Len(assembled)),
                  !.ready_frames = @ \o frames]

NewestAndOneMore(frames) ==
    IF Len(frames) <= MAX_CAPTURE_QUEUE_DEPTH + 1 THEN frames
    ELSE SubSeq(frames, Len(frames) - MAX_CAPTURE_QUEUE_DEPTH, Len(frames))

\* Too many ready frames: the oldest go.
Newest(frames) ==
    IF Len(frames) <= MAX_CAPTURE_QUEUE_DEPTH THEN frames
    ELSE SubSeq(frames, Len(frames) - MAX_CAPTURE_QUEUE_DEPTH + 1, Len(frames))

\* The pipeline with the samples of a chunk added, for a chunk of another rate after
\* everything buffered at the old rate is thrown away.
WithChunk(chunk) ==
    LET c == IF chunk.sample_rate_hz = capture.sample_rate_hz THEN capture
             ELSE EmptyPipeline(chunk.sample_rate_hz)
    IN  [c EXCEPT !.input_samples = @ \o chunk.samples]

\* Draining past the end of the samples panics, and the engine's task is gone.
ingest ==
    /\ running /\ chunk_rx # <<>>
    /\ chunk_rx' = Tail(chunk_rx)
    /\ LET chunk == Head(chunk_rx)
           c     == WithChunk(chunk)
       IN  IF chunk.samples = <<>> THEN UNCHANGED <<capture, running>>
           ELSE IF Drained(c) > Len(c.input_samples)
             THEN running' = FALSE /\ UNCHANGED capture
             ELSE LET r == rebuild_ready_frames(c)
                  IN  /\ capture' = [r EXCEPT !.ready_frames = Newest(@)]
                      /\ UNCHANGED running
    /\ UNCHANGED <<mic, stamp, opened, heard>>

-----------------------------------------------------------------------------
(* The frames of the flows.  Every flow takes from the same queue; one     *)
(* that finds it empty is given the frame that was taken last, and without *)
(* a microphone the engine makes a tone (stamped 0, like silence).         *)

NextPcm ==
    CASE capture.ready_frames # <<>> -> Head(capture.ready_frames)
      [] capture.ready_frames = <<>> /\ mic # 0 -> capture.last_frame
      [] OTHER -> Silence

take_ready_frame_unremembered ==
    IF capture.ready_frames = <<>> THEN capture
    ELSE [capture EXCEPT !.ready_frames = Tail(@),
                         !.last_frame = IF @ = Silence THEN Head(capture.ready_frames) ELSE @]

take_ready_frame ==
    IF capture.ready_frames = <<>> THEN capture
    ELSE [capture EXCEPT !.ready_frames = Tail(@),
                         !.last_frame = Head(capture.ready_frames)]

\* An encoder error loses the frame that was taken.
build_next_audio_frame(p, encoded) ==
    /\ running
    /\ capture' = take_ready_frame
    /\ heard' = IF encoded /\ NextPcm # Silence THEN [heard EXCEPT ![p] = NextPcm] ELSE heard
    /\ UNCHANGED <<mic, stamp, opened, chunk_rx, running>>

switch_keeping_frames(rate) ==
    /\ running
    /\ mic' = rate
    /\ opened' = stamp
    /\ chunk_rx' = <<>>
    /\ UNCHANGED <<stamp, heard, running, capture>>

\* A stream of the chosen device is built first; if that fails nothing changes.  Then its
\* channel takes the place of the old one, whose chunks are lost, and the pipeline starts
\* over.
switch_capture_device(rate) ==
    /\ running
    /\ mic' = rate
    /\ opened' = stamp
    /\ chunk_rx' = <<>>
    /\ capture' = EmptyPipeline(SAMPLE_RATE)
    /\ UNCHANGED <<stamp, heard, running>>

-----------------------------------------------------------------------------
(* What the microphone side promises.                                      *)

Frames == [1..FRAME_SAMPLES -> 0..MaxStamp]

CaptureTypeOK ==
    /\ mic \in Rates \union {0}
    /\ stamp \in 0..MaxStamp /\ opened \in 0..stamp
    /\ Len(chunk_rx) <= MAX_CAPTURE_QUEUE_DEPTH
    /\ \A i \in DOMAIN chunk_rx : chunk_rx[i].sample_rate_hz = mic
    /\ capture.sample_rate_hz \in Rates \union {SAMPLE_RATE}
    /\ capture.output_cursor \in 0..(SAMPLE_RATE - 1)
    /\ capture.last_frame \in Frames
    /\ Len(capture.ready_frames) <= MAX_CAPTURE_QUEUE_DEPTH
    /\ \A i \in DOMAIN capture.ready_frames : capture.ready_frames[i] \in Frames
    /\ Len(capture.frame_assembly) < FRAME_SAMPLES
    /\ heard \in [Flows -> Frames]
    /\ running \in BOOLEAN

\* Draining more samples than are buffered panics and takes the whole media engine with
\* it (rebuild_ready_frames).  Only a device that records at more than twice SAMPLE_RATE
\* can bring that about, whatever the lengths of its chunks and the rates of the devices
\* before it: a step of the interpolation is then longer than two samples.
EngineSurvives == ~running => mic > 2 * SAMPLE_RATE

\* After a device switch nothing that the old device recorded is left to be sent: not in
\* the channel, half a frame, the queue, nor the frame that is repeated when the queue is
\* empty (switch_capture_device, CapturePipeline::reset).
OnlyCurrentDevice ==
    LET Fresh(samples) == \A i \in DOMAIN samples : samples[i] > opened
    IN  /\ \A i \in DOMAIN chunk_rx : Fresh(chunk_rx[i].samples)
        /\ Fresh(capture.input_samples)
        /\ Fresh(capture.frame_assembly)
        /\ \A i \in DOMAIN capture.ready_frames : Fresh(capture.ready_frames[i])
        /\ capture.last_frame = Silence \/ Fresh(capture.last_frame)

\* Although all flows share one queue, overflow drops frames and an empty queue repeats
\* one, no peer is sent audio older than what it was sent before
\* (build_next_audio_frame, take_ready_frame, ingest).
NoFlowGoesBack ==
    [][\A p \in Flows :
          heard'[p] # heard[p] => heard'[p][1] >= heard[p][FRAME_SAMPLES]]_captureVars

=============================================================================
