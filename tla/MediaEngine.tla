----------------------------- MODULE MediaEngine -----------------------------
(* run_media_engine: the one task that serves the microphone side, the     *)
(* loudspeaker side and the commands of the network task, one at a time,   *)
(* while the device callbacks and the output backend run beside it.        *)
EXTENDS CapturePipeline, OutputBackend

vars == <<captureVars, outputVars>>

Init == CaptureInit /\ OutputInit

\* BuildNextAudioFrame also makes the runtime of a peer that has none.
BuildNextAudioFrame(p) ==
    /\ \E encoded \in BOOLEAN : build_next_audio_frame(p, encoded)
    /\ runtimes' = runtimes \union ({p} \intersect Speakers)
    /\ UNCHANGED <<output_registered, commands, nodes, samples, primed>>

\* The engine's own steps stop when its task has panicked.
EngineStep ==
    \/ ingest /\ UNCHANGED outputVars
    \/ \E p \in Flows : BuildNextAudioFrame(p)
    \/ \E rate \in Rates : switch_capture_device(rate) /\ UNCHANGED outputVars
    \/ /\ running
       /\ \E p \in Speakers : RegisterPeer(p) \/ DisconnectPeer(p) \/ PlayPcm(p)
       /\ UNCHANGED captureVars

Beside ==
    \/ \E n \in 0..MaxChunk : InputCallback(n) /\ UNCHANGED outputVars
    \/ /\ \/ \E started, renamed \in BOOLEAN : HandleCommand(started, renamed)
          \/ \E p \in Speakers, n \in Buffers : fill_output_buffer(p, n)
       /\ UNCHANGED captureVars

Next == EngineStep \/ Beside

Spec == Init /\ [][Next]_vars

\* Both sides have their types; the channels, the queue of ready frames and the rings
\* keep within their limits.
TypeOK == CaptureTypeOK /\ OutputTypeOK

=============================================================================
